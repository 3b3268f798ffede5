----------------------------- MODULE QofProofs ------------------------------
(***************************************************************************)
(* Proofs about the parts of libqof.                                       *)
(*                                                                         *)
(* The event dispatcher, for any number of registrations, nested events and*)
(* pending deletions.                                                      *)
(*                                                                         *)
(* Numbers, for integers of any width.  An operation finds a fraction of   *)
(* the same value as the exact result (Found), or none; what is then       *)
(* rounded is a quotient and a remainder that may be too low (RemainderIs),*)
(* which makes no difference to the rounding (RemainderTold); and where a  *)
(* product is looked for in lowest terms, multiples of numbers without a   *)
(* common factor add up to one (Coprime, Bezout).                          *)
(***************************************************************************)
EXTENDS QofEvent, Reckoning, InductionLemmas, FiniteSetTheorems, SequenceTheorems, TLAPS

-----------------------------------------------------------------------------
(* The list, as a set of ids in descending order, has a head.              *)

\* The order of ids, as numbers.
LEMMA PrecedesIsGreater ==
  ASSUME NEW h, NEW k
  PROVE  Precedes(h, k) <=> h > k
BY DEF Precedes

LEMMA HeadIsGreatest ==
  ASSUME NEW n \in Nat, NEW S \in SUBSET (1..n)
  PROVE  HeadOf(S) \in S \cup {Nil} /\ \A k \in S : k <= HeadOf(S)
<1>1. CASE S = {}
  BY <1>1 DEF HeadOf
<1>2. CASE S # {}
  <2> DEFINE T == {n - s : s \in S}
  <2>1. T \subseteq Nat /\ T # {}
    <3>1. \A s \in S : n - s \in Nat
      OBVIOUS
    <3> QED
      BY <3>1, <1>2
  <2>2. PICK x \in T : \A y \in T : x <= y
    <3> HIDE DEF T
    <3> QED
      BY <2>1, LeastExists
  <2>3. PICK h \in S : x = n - h
    OBVIOUS
  <2>4. ASSUME NEW k \in S  PROVE k <= h
    <3>1. n - k \in T
      OBVIOUS
    <3>2. n - h <= n - k
      BY <3>1, <2>2, <2>3
    <3>3. h \in 1..n /\ k \in 1..n
      OBVIOUS
    <3> HIDE DEF T
    <3> QED
      BY <3>2, <3>3
  <2> HIDE DEF T
  <2>5. \A k \in S \ {h} : Precedes(h, k)
    BY <2>4, PrecedesIsGreater
  <2>6. HeadOf(S) = CHOOSE g \in S : \A k \in S \ {g} : Precedes(g, k)
    BY <1>2 DEF HeadOf
  <2>7. HeadOf(S) \in S /\ \A k \in S \ {HeadOf(S)} : Precedes(HeadOf(S), k)
    BY <2>5, <2>6
  <2>8. ASSUME NEW k \in S  PROVE k <= HeadOf(S)
    <3>1. k = HeadOf(S) \/ HeadOf(S) > k
      BY <2>7, PrecedesIsGreater
    <3>2. k \in 1..n /\ HeadOf(S) \in 1..n
      BY <2>7
    <3> QED
      BY <3>1, <3>2
  <2> QED
    BY <2>7, <2>8
<1> QED
  BY <1>1, <1>2

\* The node after one that is in the list is the next lower one.
LEMMA SuccessorIsNextLower ==
  ASSUME NEW n \in Nat, handlers \subseteq 1..n, NEW h \in handlers
  PROVE  /\ Successor(h) \in handlers \cup {Nil}
         /\ Successor(h) < h
         /\ \A k \in handlers : k < h => k <= Successor(h)
<1> DEFINE S == {k \in handlers : Precedes(h, k)}
<1>1. \A k \in S : k \in handlers /\ k < h
  BY PrecedesIsGreater
<1>2. \A k \in handlers : k < h => k \in S
  BY PrecedesIsGreater
<1>3. S \in SUBSET (1..n) /\ Successor(h) = HeadOf(S) /\ h \in 1..n
  BY DEF Successor
<1> HIDE DEF S
<1>4. HeadOf(S) \in S \cup {Nil} /\ \A k \in S : k <= HeadOf(S)
  BY <1>3, HeadIsGreatest
<1>5. Successor(h) \in S \cup {Nil} /\ \A k \in S : k <= Successor(h)
  BY <1>3, <1>4
<1>6. Successor(h) \in handlers \cup {Nil} /\ Successor(h) < h
  <2>1. CASE Successor(h) \in S
    BY <1>1, <2>1
  <2>2. CASE Successor(h) = 0
    BY <1>3, <2>2 DEF Nil
  <2> QED
    BY <1>5, <2>1, <2>2 DEF Nil
<1> QED
  BY <1>2, <1>5, <1>6

\* A new handler comes before all others: its id is above theirs.
LEMMA FreshId ==
  ASSUME TypeOK
  PROVE  find_next_handler_id \in Nat /\ find_next_handler_id >= next_handler_id
<1> DEFINE S == {id \in next_handler_id..(next_handler_id + Cardinality(handlers)) :
                   id \notin handlers}
<1>1. next_handler_id \in Nat /\ MaxId \in Nat /\ handlers \subseteq 1..(next_handler_id - 1)
  BY Bounds DEF TypeOK
<1>2. Cardinality(handlers) \in Nat
  <2>1. IsFiniteSet(1..(next_handler_id - 1))
    BY <1>1, FS_Interval
  <2>2. IsFiniteSet(handlers)
    BY <1>1, <2>1, FS_Subset
  <2> QED
    BY <2>2, FS_CardinalityType
<1>3. next_handler_id \in S /\ \A id \in S : next_handler_id <= id /\ id \in Nat
  BY <1>1, <1>2
<1>4. find_next_handler_id = CHOOSE x \in S : \A y \in S : x <= y
  BY DEF find_next_handler_id, Min
<1> HIDE DEF S
<1> QED
  BY <1>3, <1>4

-----------------------------------------------------------------------------
(* The invariant.  A walk owes its event to exactly the live handlers that *)
(* it has still to pass, and cleared nodes are counted.                    *)
Owes ==
  \A i \in DOMAIN stack : stack[i].due = {k \in Live : k <= stack[i].next}

IInv == TypeOK /\ NoDanglingWalk /\ Owes /\ NoClearedNodeLost

\* Ids are numbers from 1 on, which Nil is not.
LEMMA Ids ==
  ASSUME TypeOK
  PROVE  /\ MaxId \in Nat /\ handlers \in SUBSET (1..MaxId) /\ Live \in SUBSET (1..MaxId)
         /\ \A k \in handlers : k \in Nat /\ k > 0 /\ k \in 0..MaxId
         /\ \A k \in handlers \cup {Nil} : k \in Nat /\ k \in 0..MaxId
<1>1. MaxId \in Nat
  BY Bounds
<1>2. next_handler_id - 1 \in Nat /\ next_handler_id - 1 <= MaxId
  BY <1>1 DEF TypeOK
<1>3. \A k \in 1..(next_handler_id - 1) : k \in 1..MaxId
  BY <1>1, <1>2
<1>4. handlers \subseteq 1..MaxId
  BY <1>3 DEF TypeOK
<1>5. Nil \in Nat /\ Nil \in 0..MaxId
  BY <1>1 DEF Nil
<1>6. \A k \in 1..MaxId : k \in Nat /\ k > 0 /\ k \in 0..MaxId
  BY <1>1
<1> QED
  BY <1>1, <1>4, <1>5, <1>6 DEF Live

LEMMA InitIInv == Init => IInv
BY Bounds DEF Init, IInv, TypeOK, NoDanglingWalk, Owes, NoClearedNodeLost

LEMMA RegisterIInv == IInv /\ Register => IInv'
<1> SUFFICES ASSUME IInv, Register  PROVE IInv'
  OBVIOUS
<1> USE DEF IInv
<1> DEFINE id == find_next_handler_id
<1>1. id \in Nat /\ id >= next_handler_id /\ id <= MaxId
  BY FreshId DEF Register
<1>2. /\ handlers' = handlers \cup {id} /\ next_handler_id' = id + 1
      /\ Live' = Live \cup {id}
      /\ UNCHANGED <<dead, suspend_counter, handler_run_level, pending_deletes, stack, spawned>>
  BY <1>1 DEF Register, Live, TypeOK
<1> HIDE DEF id
<1>3. TypeOK'
  BY <1>1, <1>2, Bounds DEF TypeOK
<1>4. NoDanglingWalk'
  BY <1>2 DEF NoDanglingWalk
<1>5. Owes'
  <2>1. ASSUME NEW i \in DOMAIN stack  PROVE ~(id <= stack[i].next)
    <3>1. stack[i].next \in handlers \cup {Nil}
      BY DEF NoDanglingWalk
    <3>2. next_handler_id \in Nat /\ \A k \in handlers : k \in Nat /\ k < next_handler_id
      BY Bounds DEF TypeOK
    <3>3. stack[i].next \in Nat /\ stack[i].next < next_handler_id
      <4>1. next_handler_id > 0
        BY Bounds DEF TypeOK
      <4> QED
        BY <3>1, <3>2, <4>1 DEF Nil
    <3> QED
      BY <1>1, <3>2, <3>3
  <2> QED
    BY <1>2, <2>1 DEF Owes
<1>6. NoClearedNodeLost'
  BY <1>2 DEF NoClearedNodeLost
<1> QED
  BY <1>3, <1>4, <1>5, <1>6

LEMMA UnregisterIInv == ASSUME NEW id \in 1..MaxId  PROVE IInv /\ Unregister(id) => IInv'
<1> SUFFICES ASSUME IInv, Unregister(id)  PROVE IInv'
  OBVIOUS
<1> USE DEF IInv
<1>1. /\ id \in handlers
      /\ stack' = [i \in DOMAIN stack |-> [stack[i] EXCEPT !.due = @ \ {id}]]
      /\ UNCHANGED <<next_handler_id, suspend_counter, handler_run_level, spawned>>
  BY DEF Unregister, Forget
<1>2. stack \in Seq(Walk) /\ handler_run_level = Len(stack)
  BY DEF TypeOK
<1>3. /\ stack' \in Seq(Walk) /\ Len(stack') = Len(stack) /\ DOMAIN stack' = DOMAIN stack
      /\ \A i \in DOMAIN stack : /\ stack'[i].next = stack[i].next
                                 /\ stack'[i].running = stack[i].running
                                 /\ stack'[i].due = stack[i].due \ {id}
  <2>1. DOMAIN stack = 1..Len(stack) /\ Len(stack) \in Nat
        /\ \A i \in 1..Len(stack) : stack[i] \in Walk
    BY <1>2
  <2>2. stack' = [i \in 1..Len(stack) |-> [stack[i] EXCEPT !.due = @ \ {id}]]
    BY <1>1, <2>1
  <2>3. \A i \in 1..Len(stack) : [stack[i] EXCEPT !.due = @ \ {id}] \in Walk
    BY <2>1 DEF Walk
  <2>4. stack' \in Seq(Walk) /\ Len(stack') = Len(stack) /\ DOMAIN stack' = 1..Len(stack)
    BY <2>1, <2>2, <2>3
  <2>5. \A i \in 1..Len(stack) : /\ stack'[i].next = stack[i].next
                                 /\ stack'[i].running = stack[i].running
                                 /\ stack'[i].due = stack[i].due \ {id}
    BY <2>1, <2>2 DEF Walk
  <2> QED
    BY <2>1, <2>4, <2>5
<1>4. Live' = Live \ {id}
  BY <1>1 DEF Unregister, Live
<1>5. Owes'
  BY <1>3, <1>4 DEF Owes
<1>6. CASE MayUnlink
  <2>1. stack = <<>> /\ dead = {} /\ pending_deletes = 0
    <3>1. stack = <<>>
      BY <1>2, <1>6, EmptySeq DEF MayUnlink
    <3>2. dead = {} /\ ~(pending_deletes > 0)
      BY <3>1 DEF NoClearedNodeLost
    <3>3. pending_deletes \in 0..MaxPending /\ MaxPending \in Nat
      BY Bounds DEF TypeOK
    <3> QED
      BY <3>1, <3>2, <3>3
  <2>2. handlers' = handlers \ {id} /\ dead' = dead \ {id} /\ UNCHANGED pending_deletes
    BY <1>6 DEF Unregister
  <2>3. TypeOK'
    BY <1>1, <1>3, <2>1, <2>2 DEF TypeOK
  <2>4. NoDanglingWalk'
    BY <1>3, <2>1 DEF NoDanglingWalk
  <2>5. NoClearedNodeLost'
    BY <2>1, <2>2 DEF NoClearedNodeLost
  <2> QED
    BY <1>5, <2>3, <2>4, <2>5
<1>7. CASE ~MayUnlink
  <2>1. stack # <<>>
    BY <1>2, <1>7 DEF MayUnlink
  <2>2. /\ pending_deletes < MaxPending /\ dead' = dead \cup {id}
        /\ pending_deletes' = pending_deletes + 1 /\ UNCHANGED handlers
    BY <1>7 DEF Unregister, Counted
  <2>3. TypeOK'
    <3>1. pending_deletes' \in 0..MaxPending
      BY <2>2, Bounds DEF TypeOK
    <3>2. dead' \subseteq handlers'
      BY <1>1, <2>2 DEF TypeOK
    <3> QED
      BY <1>1, <1>3, <2>2, <3>1, <3>2 DEF TypeOK
  <2>4. NoDanglingWalk'
    BY <1>3, <2>2 DEF NoDanglingWalk
  <2>5. NoClearedNodeLost'
    BY <1>1, <1>2, <1>3, <2>1, <2>2 DEF NoClearedNodeLost, TypeOK
  <2> QED
    BY <1>5, <2>3, <2>4, <2>5
<1> QED
  BY <1>6, <1>7

LEMMA SuspendIInv == IInv /\ (Suspend \/ Resume) => IInv'
<1> SUFFICES ASSUME IInv, Suspend \/ Resume  PROVE IInv'
  OBVIOUS
<1>1. /\ UNCHANGED <<handlers, dead, next_handler_id, pending_deletes, handler_run_level,
                     stack, spawned>>
      /\ suspend_counter' \in 0..MaxSuspend
  BY Bounds DEF Suspend, Resume, list, IInv, TypeOK
<1> QED
  BY <1>1 DEF IInv, TypeOK, NoDanglingWalk, Owes, NoClearedNodeLost, Live

LEMMA GenerateIInv == IInv /\ GenerateInternal => IInv'
<1> SUFFICES ASSUME IInv, GenerateInternal  PROVE IInv'
  OBVIOUS
<1> USE DEF IInv
<1> DEFINE w == [next |-> HeadOf(handlers), running |-> Nil, due |-> Live]
<1>1. /\ UNCHANGED <<handlers, dead, next_handler_id, pending_deletes, suspend_counter>>
      /\ stack' = Append(stack, w)
      /\ handler_run_level' = handler_run_level + 1
      /\ spawned' = spawned + 1 /\ spawned < MaxEvents
  BY DEF GenerateInternal, list
<1>2. handlers \in SUBSET (1..MaxId) /\ MaxId \in Nat /\ Live \in SUBSET (1..MaxId)
  BY Ids
<1>3. HeadOf(handlers) \in handlers \cup {Nil} /\ \A k \in handlers : k <= HeadOf(handlers)
  BY <1>2, HeadIsGreatest
<1>4. w \in Walk
  <2>1. HeadOf(handlers) \in 0..MaxId /\ Nil \in 0..MaxId
    BY <1>3, Ids
  <2> QED
    BY <1>2, <2>1 DEF Walk
<1>5. w.due = {k \in Live : k <= w.next} /\ {w.next, w.running} \subseteq handlers \cup {Nil}
  BY <1>3 DEF Live
<1> HIDE DEF w
<1>6. /\ stack \in Seq(Walk) /\ Len(stack) \in Nat
      /\ stack' \in Seq(Walk) /\ stack' # <<>> /\ Len(stack') = Len(stack) + 1
      /\ DOMAIN stack = 1..Len(stack) /\ DOMAIN stack' = 1..(Len(stack) + 1)
      /\ \A i \in 1..Len(stack) : stack'[i] = stack[i]
      /\ stack'[Len(stack) + 1] = w
  BY <1>1, <1>4, AppendProperties, LenProperties DEF TypeOK
<1>7. TypeOK'
  BY <1>1, <1>6, Bounds DEF TypeOK
<1>8. NoDanglingWalk'
  BY <1>1, <1>5, <1>6 DEF NoDanglingWalk
<1>9. Owes'
  BY <1>1, <1>5, <1>6 DEF Owes, Live
<1>10. NoClearedNodeLost'
  BY <1>1, <1>6 DEF NoClearedNodeLost
<1> QED
  BY <1>7, <1>8, <1>9, <1>10

\* A step of the innermost walk changes nothing but that walk.
LEMMA TopIInv ==
  ASSUME IInv, stack # <<>>,
         UNCHANGED <<handlers, dead, next_handler_id, pending_deletes, suspend_counter,
                     handler_run_level, spawned>>,
         NEW w \in Walk, stack' = [stack EXCEPT ![Len(stack)] = w],
         {w.next, w.running} \subseteq handlers \cup {Nil},
         w.due = {k \in Live : k <= w.next}
  PROVE  IInv'
<1> USE DEF IInv
<1>1. /\ stack \in Seq(Walk) /\ Len(stack) \in 1..Len(stack)
      /\ stack' \in Seq(Walk) /\ stack' # <<>> /\ Len(stack') = Len(stack)
      /\ DOMAIN stack = 1..Len(stack) /\ DOMAIN stack' = 1..Len(stack)
      /\ \A i \in 1..Len(stack) : stack'[i] = IF i = Len(stack) THEN w ELSE stack[i]
  <2>1. stack \in Seq(Walk)
    BY DEF TypeOK
  <2>2. Len(stack) \in Nat \ {0}
    BY <2>1, EmptySeq
  <2>3. /\ stack' \in Seq(Walk) /\ Len(stack') = Len(stack)
        /\ \A i \in 1..Len(stack) : stack'[i] = IF i = Len(stack) THEN w ELSE stack[i]
    BY <2>1, <2>2, ExceptSeq
  <2>4. DOMAIN stack = 1..Len(stack) /\ DOMAIN stack' = 1..Len(stack)
    BY <2>1, <2>3, LenProperties
  <2> QED
    BY <2>1, <2>2, <2>3, <2>4
<1>2. TypeOK'
  BY <1>1 DEF TypeOK
<1>3. NoDanglingWalk'
  BY <1>1 DEF NoDanglingWalk
<1>4. Owes'
  BY <1>1 DEF Owes, Live
<1>5. NoClearedNodeLost'
  BY <1>1 DEF NoClearedNodeLost
<1> QED
  BY <1>2, <1>3, <1>4, <1>5

LEMMA TopOwes ==
  ASSUME IInv, stack # <<>>
  PROVE  /\ top \in Walk /\ Len(stack) \in DOMAIN stack
         /\ {top.next, top.running} \subseteq handlers \cup {Nil}
         /\ top.due = {k \in Live : k <= top.next}
<1>1. stack \in Seq(Walk)
  BY DEF IInv, TypeOK
<1>2. Len(stack) \in 1..Len(stack) /\ DOMAIN stack = 1..Len(stack)
  BY <1>1, EmptySeq, LenProperties
<1> QED
  BY <1>1, <1>2, ElementOfSeq DEF top, IInv, NoDanglingWalk, Owes

\* What is due to those after h is what was due but h.
LEMMA VisitIInv == IInv /\ Visit => IInv'
<1> SUFFICES ASSUME IInv, Visit  PROVE IInv'
  OBVIOUS
<1> DEFINE h == top.next
           w == [next    |-> Successor(h),
                 running |-> IF h \notin dead THEN h ELSE Nil,
                 due     |-> top.due \ {h}]
<1>1. /\ stack # <<>> /\ h # Nil /\ stack' = [stack EXCEPT ![Len(stack)] = w]
      /\ UNCHANGED <<handlers, dead, next_handler_id, pending_deletes, suspend_counter,
                     handler_run_level, spawned>>
  BY DEF Visit, list, Advance, Callable
<1>2. top \in Walk /\ h \in handlers /\ top.due = {k \in Live : k <= h}
  BY <1>1, TopOwes
<1>3. MaxId \in Nat /\ handlers \subseteq 1..MaxId
  BY Ids DEF IInv
<1>4. /\ Successor(h) \in handlers \cup {Nil} /\ Successor(h) < h
      /\ \A k \in handlers : k < h => k <= Successor(h)
  BY <1>2, <1>3, SuccessorIsNextLower
<1>5. top.due \ {h} = {k \in Live : k <= Successor(h)}
  <2>1. ASSUME NEW k \in Live  PROVE k <= h /\ k # h <=> k <= Successor(h)
    <3>1. k \in handlers /\ k \in Nat /\ h \in Nat /\ Successor(h) \in Nat
      BY <1>2, <1>4, Ids DEF Live, IInv
    <3> QED
      BY <3>1, <1>4
  <2> QED
    BY <1>2, <2>1
<1> HIDE DEF h
<1>6. w \in Walk
  <2>1. Successor(h) \in 0..MaxId /\ h \in 0..MaxId /\ Nil \in 0..MaxId
    BY <1>2, <1>4, Ids DEF IInv
  <2>2. top.due \ {h} \in SUBSET (1..MaxId)
    BY <1>2, Ids DEF IInv
  <2> QED
    BY <2>1, <2>2 DEF Walk
<1>7. /\ {w.next, w.running} \subseteq handlers \cup {Nil}
      /\ w.due = {k \in Live : k <= w.next}
  BY <1>2, <1>4, <1>5
<1> HIDE DEF w
<1> QED
  BY <1>1, <1>6, <1>7, TopIInv

LEMMA ReturnIInv == IInv /\ Return => IInv'
<1> SUFFICES ASSUME IInv, Return  PROVE IInv'
  OBVIOUS
<1> DEFINE w == [top EXCEPT !.running = Nil]
<1>1. /\ stack # <<>>
      /\ UNCHANGED <<handlers, dead, next_handler_id, pending_deletes, suspend_counter,
                     handler_run_level, spawned>>
  BY DEF Return, list
<1>2. stack' = [stack EXCEPT ![Len(stack)] = w]
  BY DEF Return, top
<1>3. /\ top \in Walk /\ {top.next, top.running} \subseteq handlers \cup {Nil}
      /\ top.due = {k \in Live : k <= top.next}
  BY <1>1, TopOwes
<1>4. w \in Walk /\ w.next = top.next /\ w.running = Nil /\ w.due = top.due
  BY <1>3, Bounds DEF Walk, Nil
<1> HIDE DEF w
<1> QED
  BY <1>1, <1>2, <1>3, <1>4, TopIInv

LEMMA EndWalkIInv == IInv /\ EndWalk => IInv'
<1> SUFFICES ASSUME IInv, EndWalk  PROVE IInv'
  OBVIOUS
<1> USE DEF IInv
<1>1. /\ stack # <<>> /\ handler_run_level' = handler_run_level - 1
      /\ stack' = SubSeq(stack, 1, Len(stack) - 1)
      /\ spawned' = IF stack' = <<>> THEN 0 ELSE spawned
      /\ UNCHANGED <<next_handler_id, suspend_counter>>
  BY DEF EndWalk, Front
<1>2. /\ stack \in Seq(Walk) /\ Len(stack) \in Nat \ {0} /\ DOMAIN stack = 1..Len(stack)
  BY <1>1, EmptySeq, LenProperties DEF TypeOK
<1>3. /\ stack' \in Seq(Walk) /\ Len(stack') = Len(stack) - 1
      /\ DOMAIN stack' = 1..(Len(stack) - 1)
      /\ \A i \in 1..(Len(stack) - 1) : stack'[i] = stack[i]
  <2>1. \A i \in 1..(Len(stack) - 1) : stack[i] \in Walk
    BY <1>2, ElementOfSeq
  <2>2. /\ stack' \in Seq(Walk)
        /\ Len(stack') = IF 1 <= Len(stack) - 1 THEN Len(stack) - 1 - 1 + 1 ELSE 0
        /\ \A i \in 1..(Len(stack) - 1 - 1 + 1) : stack'[i] = stack[1 + i - 1]
    BY <1>1, <1>2, <2>1, SubSeqProperties
  <2>3. Len(stack') = Len(stack) - 1
    <3> DEFINE n == Len(stack)
    <3>1. n \in Nat \ {0} /\ Len(stack') = IF 1 <= n - 1 THEN n - 1 - 1 + 1 ELSE 0
      BY <1>2, <2>2
    <3> HIDE DEF n
    <3>2. Len(stack') = n - 1
      BY <3>1
    <3> QED
      BY <3>2 DEF n
  <2>4. ASSUME NEW i \in 1..(Len(stack) - 1)  PROVE stack'[i] = stack[i]
    <3>1. 1 + i - 1 = i /\ i \in 1..(Len(stack) - 1 - 1 + 1)
      BY <1>2
    <3> QED
      BY <2>2, <3>1
  <2> QED
    BY <2>2, <2>3, <2>4, LenProperties
<1>4. stack' = <<>> <=> handler_run_level' = 0
  BY <1>1, <1>2, <1>3, EmptySeq DEF TypeOK
<1>5. CASE Sweeps
  <2>1. handlers' = Live /\ dead' = {} /\ pending_deletes' = 0 /\ stack' = <<>>
    BY <1>4, <1>5 DEF EndWalk, Sweeps
  <2>2. TypeOK'
    <3>1. handler_run_level' = Len(stack') /\ Len(stack') = 0 /\ spawned' = 0
      BY <1>1, <1>2, <1>3, <2>1, EmptySeq DEF TypeOK
    <3>2. 0 \in 0..MaxEvents /\ 0 \in 0..MaxPending
      BY Bounds
    <3>3. Live \subseteq 1..(next_handler_id - 1)
      BY DEF TypeOK, Live
    <3> QED
      BY <1>1, <1>3, <2>1, <3>1, <3>2, <3>3 DEF TypeOK
  <2>3. NoDanglingWalk' /\ Owes'
    BY <1>3, <2>1, EmptySeq DEF NoDanglingWalk, Owes
  <2>4. NoClearedNodeLost'
    BY <2>1 DEF NoClearedNodeLost
  <2> QED
    BY <2>2, <2>3, <2>4
<1>6. CASE ~Sweeps
  <2>1. UNCHANGED <<handlers, dead, pending_deletes>>
    BY <1>6 DEF EndWalk
  <2>2. TypeOK'
    <3>1. handler_run_level' = Len(stack')
      BY <1>1, <1>2, <1>3 DEF TypeOK
    <3>2. spawned \in Len(stack)..MaxEvents /\ MaxEvents \in Nat
      BY Bounds DEF TypeOK
    <3>3. spawned' \in Len(stack')..MaxEvents
      <4>1. CASE stack' = <<>>
        <5>1. spawned' = 0 /\ Len(stack') = 0
          BY <1>1, <4>1, EmptySeq
        <5> QED
          BY <3>2, <5>1
      <4>2. CASE stack' # <<>>
        BY <1>1, <1>2, <1>3, <3>2, <4>2
      <4> QED
        BY <4>1, <4>2
    <3> QED
      BY <1>1, <1>3, <2>1, <3>1, <3>3 DEF TypeOK
  <2>3. NoDanglingWalk'
    BY <1>2, <1>3, <2>1 DEF NoDanglingWalk
  <2>4. Owes'
    BY <1>2, <1>3, <2>1 DEF Owes, Live
  <2>5. NoClearedNodeLost'
    BY <1>4, <1>6, <2>1 DEF NoClearedNodeLost, Sweeps
  <2> QED
    BY <2>2, <2>3, <2>4, <2>5
<1> QED
  BY <1>5, <1>6

LEMMA StutterIInv == IInv /\ UNCHANGED vars => IInv'
BY DEF vars, IInv, TypeOK, NoDanglingWalk, Owes, NoClearedNodeLost, Live

LEMMA StepIInv == IInv /\ [Next]_vars => IInv'
<1> SUFFICES ASSUME IInv, [Next]_vars  PROVE IInv'
  OBVIOUS
<1>1. CASE Register
  BY <1>1, RegisterIInv
<1>2. CASE Suspend \/ Resume
  BY <1>2, SuspendIInv
<1>3. CASE Gen \/ ForceGen
  BY <1>3, GenerateIInv DEF Gen, ForceGen
<1>4. CASE Dispatch
  BY <1>4, VisitIInv, ReturnIInv, EndWalkIInv DEF Dispatch
<1>5. CASE \E id \in 1..MaxId : Unregister(id)
  BY <1>5, UnregisterIInv
<1>6. CASE UNCHANGED vars
  BY <1>6, StutterIInv
<1> QED
  BY <1>1, <1>2, <1>3, <1>4, <1>5, <1>6 DEF Next

LEMMA Inductive == Spec => []IInv
BY InitIInv, StepIInv, PTL DEF Spec

-----------------------------------------------------------------------------
(* Whatever handlers do, ids are never given twice, and the run level is   *)
(* the number of walks on the stack.                                       *)
THEOREM DispatcherTypes == Spec => []TypeOK
BY Inductive, PTL DEF IInv

(* However deep events nest and whatever their handlers unregister, no     *)
(* walk of the list holds a pointer to a freed node.                       *)
THEOREM NoWalkDangles == Spec => []NoDanglingWalk
BY Inductive, PTL DEF IInv

(* The nodes cleared during an event are freed by the time it is over.     *)
THEOREM ClearedNodesFreed == Spec => []NoClearedNodeLost
BY Inductive, PTL DEF IInv

(* A walk that is over has called every handler due.                       *)
THEOREM EveryoneCalled == Spec => []Delivered
<1>1. IInv => Delivered
  <2> SUFFICES ASSUME IInv, NEW i \in DOMAIN stack, stack[i].next = Nil
               PROVE  stack[i].due = {}
    BY DEF Delivered
  <2>1. stack[i].due = {k \in Live : k <= 0}
    BY DEF IInv, Owes, Nil
  <2>2. \A k \in Live : k \in Nat /\ k > 0
    BY Ids DEF IInv, Live
  <2> QED
    BY <2>1, <2>2
<1> QED
  BY <1>1, Inductive, PTL

\* Only a visit enters a handler, and only that of the innermost walk.
LEMMA StepCallsDue ==
  ASSUME IInv, Next, NEW i \in DOMAIN stack \cap DOMAIN stack',
         stack[i].running = Nil, stack'[i].running # Nil
  PROVE  stack'[i].running \in stack[i].due \cap Live
<1> USE DEF IInv
<1>1. stack \in Seq(Walk) /\ DOMAIN stack = 1..Len(stack) /\ Len(stack) \in Nat
  BY LenProperties DEF TypeOK
<1>2. CASE Visit
  <2>1. stack # <<>> /\ top.next # Nil
    BY <1>2 DEF Visit
  <2>2. i = Len(stack)
    BY <1>1, <1>2 DEF Visit
  <2>3. stack'[i].running = IF top.next \notin dead THEN top.next ELSE Nil
    BY <1>1, <1>2, <2>2 DEF Visit, Callable
  <2>4. top.next \in handlers /\ top.due = {k \in Live : k <= top.next}
    BY <2>1, TopOwes
  <2>5. top.next \in Nat
    BY <2>4, Ids
  <2>6. stack'[i].running = top.next /\ top.next \in Live
    BY <2>3, <2>4 DEF Live
  <2> QED
    BY <2>2, <2>4, <2>5, <2>6 DEF top
<1>3. CASE Return
  BY <1>1, <1>3 DEF Return
<1>4. CASE EndWalk
  <2>1. stack' = SubSeq(stack, 1, Len(stack) - 1)
    BY <1>4 DEF EndWalk, Front
  <2>2. stack'[i] = stack[i]
    BY <1>1, <2>1
  <2> QED
    BY <2>2
<1>5. CASE Register \/ Suspend \/ Resume
  BY <1>5 DEF Register, Suspend, Resume
<1>6. CASE Gen \/ ForceGen
  BY <1>1, <1>6 DEF Gen, ForceGen, GenerateInternal
<1>7. CASE \E id \in 1..MaxId : Unregister(id)
  <2>1. PICK id \in 1..MaxId : Unregister(id)
    BY <1>7
  <2>2. stack' = [j \in DOMAIN stack |-> [stack[j] EXCEPT !.due = @ \ {id}]]
    BY <2>1 DEF Unregister, Forget
  <2>3. stack[i] \in Walk
    BY <1>1, ElementOfSeq
  <2>4. stack'[i].running = stack[i].running
    BY <2>2, <2>3 DEF Walk
  <2> QED
    BY <2>4
<1> QED
  BY <1>2, <1>3, <1>4, <1>5, <1>6, <1>7 DEF Next, Dispatch

(* A handler that is entered was registered when its event was generated,  *)
(* is still, and had not been called for this event.                       *)
THEOREM OnlyThoseDueCalled == Spec => OnlyDueHandlersCalled
<1>1. IInv /\ [Next]_vars =>
        [\A i \in DOMAIN stack \cap DOMAIN stack' :
           stack[i].running = Nil /\ stack'[i].running # Nil =>
             stack'[i].running \in stack[i].due \cap Live]_vars
  BY StepCallsDue DEF vars
<1> QED
  BY <1>1, Inductive, PTL DEF Spec, OnlyDueHandlersCalled

-----------------------------------------------------------------------------
(* Numbers.  Powers of two first.                                          *)
LEMMA Powers ==
  /\ Power[0] = 1
  /\ \A n \in 0..(2 * Bits) : Power[n] \in Nat /\ Power[n] > 0
  /\ \A n \in 1..(2 * Bits) : Power[n] = 2 * Power[n - 1]
<1> DEFINE N == 2 * Bits
           S == Nat \ {0}
           step == [p \in (1..N) \X S |-> 2 * p[2]]
<1>1. N \in Nat /\ Bits \in Nat /\ Bits > 2 /\ 1 \in S
  BY NumericAssumption
<1>2. \A n \in 1..N, x \in S : step[<<n, x>>] = 2 * x
  OBVIOUS
<1>3. \A x \in S : 2 * x \in S
  OBVIOUS
<1> HIDE DEF N, S, step
<1>4. PICK f : IsLoop(f, 1, step, S, N)
  <2>1. \A n \in 1..N, x \in S : step[<<n, x>>] \in S
    BY <1>2, <1>3
  <2> QED
    BY <1>1, <2>1, LoopExists
<1>5. f = [n \in 0..N |-> IF n = 0 THEN 1 ELSE 2 * f[n - 1]]
  <2>1. f = [n \in 0..N |-> IF n = 0 THEN 1 ELSE step[<<n, f[n - 1]>>]]
        /\ \A n \in 0..N : f[n] \in S
    BY <1>4 DEF IsLoop
  <2>2. \A n \in 0..N : n # 0 => n - 1 \in 0..N /\ n \in 1..N
    BY <1>1
  <2>3. \A n \in 0..N : n # 0 => step[<<n, f[n - 1]>>] = 2 * f[n - 1]
    BY <1>2, <2>1, <2>2
  <2> QED
    BY <2>1, <2>3
<1>6. Power = [n \in 0..N |-> IF n = 0 THEN 1 ELSE 2 * Power[n - 1]]
  BY <1>5 DEF Power, N
<1>7. ASSUME NEW n \in 1..N  PROVE Power[n] = 2 * Power[n - 1]
  <2>1. n \in 0..N /\ n # 0
    BY <1>1
  <2> QED
    BY <1>6, <2>1
<1> DEFINE T == {n \in 0..N : Power[n] \in S}
<1>8. 0 \in T
  BY <1>1, <1>6
<1>9. ASSUME NEW n \in 0..(N - 1), n \in T  PROVE n + 1 \in T
  <2>1. n + 1 \in 1..N /\ (n + 1) - 1 = n /\ n + 1 \in 0..N
    BY <1>1
  <2>2. Power[n + 1] = 2 * Power[n]
    BY <1>7, <2>1
  <2> QED
    BY <1>3, <1>9, <2>1, <2>2
<1>10. \A n \in 0..N : Power[n] \in S
  <2> HIDE DEF T
  <2>1. \A n \in 0..N : n \in T
    BY <1>1, <1>8, <1>9, UpTo
  <2> QED
    BY <2>1 DEF T
<1>11. Power[0] = 1
  BY <1>1, <1>6
<1> QED
  BY <1>7, <1>10, <1>11 DEF N, S

LEMMA PowerFacts ==
  /\ Quarter \in Nat /\ Quarter > 1
  /\ Half = 2 * Quarter /\ Wide = 2 * Half
<1> DEFINE N == 2 * Bits
<1>1. /\ Bits \in 1..N /\ Bits - 1 \in 1..N /\ Bits - 2 \in 1..N /\ Bits - 3 \in 0..N
      /\ (Bits - 1) - 1 = Bits - 2 /\ (Bits - 2) - 1 = Bits - 3
  BY NumericAssumption
<1>2. Power[Bits - 3] \in Nat /\ Power[Bits - 3] >= 1
  BY <1>1, Powers
<1>3. Quarter = 2 * Power[Bits - 3] /\ Half = 2 * Quarter /\ Wide = 2 * Half
  BY <1>1, Powers DEF Quarter, Half, Wide
<1> QED
  BY <1>2, <1>3

-----------------------------------------------------------------------------
(* Division, and common factors.                                           *)
LEMMA ProductOfNats ==
  ASSUME NEW x \in Nat, NEW y \in Nat
  PROVE  x * y \in Nat
  OBVIOUS

LEMMA ProductGrows ==
  ASSUME NEW x \in Nat, NEW y \in Nat, y > 0
  PROVE  x * y \in Nat /\ x * y >= x
<1>1. y - 1 \in Nat
  OBVIOUS
<1>2. x * (y - 1) \in Nat /\ x * y \in Nat
  BY <1>1, ProductOfNats
<1>3. x * y = x * (y - 1) + x
  OBVIOUS
<1> QED
  BY <1>2, <1>3

LEMMA DivisionFacts ==
  ASSUME NEW n \in Int, NEW d \in Nat, d > 0
  PROVE  /\ n \div d \in Int /\ n % d \in 0..(d - 1)
         /\ n = (n \div d) * d + (n % d)
         /\ n >= 0 => n \div d \in Nat /\ n \div d <= n
<1>1. n \div d \in Int /\ n % d \in 0..(d - 1) /\ n = d * (n \div d) + (n % d)
  OBVIOUS
<1> DEFINE q == n \div d
           r == n % d
<1>2. q \in Int /\ r \in 0..(d - 1) /\ n = q * d + r
  BY <1>1
<1> HIDE DEF q, r
<1>3. n >= 0 => q >= 0
  <2> SUFFICES ASSUME n >= 0, q < 0  PROVE FALSE
    BY <1>2
  <2> DEFINE p == -1 - q
  <2>1. p \in Nat /\ q = -1 - p
    BY <1>2
  <2> HIDE DEF p
  <2>2. p * d \in Nat
    BY <2>1, ProductOfNats
  <2>3. q * d = -d - p * d
    BY <2>1
  <2> QED
    BY <1>2, <2>2, <2>3
<1>4. n >= 0 => q <= n
  <2> SUFFICES ASSUME n >= 0  PROVE q <= n
    OBVIOUS
  <2>1. q * d \in Nat /\ q * d >= q
    BY <1>2, <1>3, ProductGrows
  <2> QED
    BY <1>2, <2>1
<1> QED
  BY <1>2, <1>3, <1>4 DEF q, r

LEMMA DivisionIs ==
  ASSUME NEW q \in Int, NEW d \in Nat, d > 0, NEW r \in 0..(d - 1)
  PROVE  (q * d + r) \div d = q /\ (q * d + r) % d = r
  OBVIOUS

LEMMA ExactDivision ==
  ASSUME NEW n \in Int, NEW d \in Nat, d > 0, n % d = 0
  PROVE  n = (n \div d) * d
  BY DivisionFacts

LEMMA MultipleDivided ==
  ASSUME NEW q \in Int, NEW d \in Nat, d > 0
  PROVE  (q * d) \div d = q /\ (q * d) % d = 0
<1>1. 0 \in 0..(d - 1) /\ q * d + 0 = q * d
  OBVIOUS
<1> QED
  BY <1>1, DivisionIs

LEMMA ProductsOrdered ==
  ASSUME NEW x \in Nat, NEW y \in Nat, NEW u \in Nat, NEW v \in Nat, x <= u, y <= v
  PROVE  x * y <= u * v
<1>1. (u - x) \in Nat /\ (v - y) \in Nat
  OBVIOUS
<1>2. (u - x) * v \in Nat /\ x * (v - y) \in Nat
  BY <1>1, ProductOfNats
<1>3. u * v = x * y + (u - x) * v + x * (v - y)
  OBVIOUS
<1>4. x * y \in Nat
  BY ProductOfNats
<1> QED
  BY <1>2, <1>3, <1>4

LEMMA Cancelled ==
  ASSUME NEW x \in Int, NEW y \in Int, NEW d \in Nat, d > 0, x * d = y * d
  PROVE  x = y
<1>1. (x * d) \div d = x /\ (y * d) \div d = y
  BY MultipleDivided
<1> QED
  BY <1>1

LEMMA GcfDivides ==
  ASSUME NEW a \in Nat, NEW b \in Nat, a > 0 \/ b > 0
  PROVE  /\ Gcf(a, b) \in Nat \ {0} /\ a % Gcf(a, b) = 0 /\ b % Gcf(a, b) = 0
         /\ b > 0 => Gcf(a, b) <= b
<1> DEFINE T == {k \in 1..b : a % k = 0 /\ b % k = 0}
<1>1. CASE b = 0
  BY <1>1 DEF Gcf
<1>2. CASE b > 0
  <2>1. 1 \in T /\ T \in SUBSET (0..b)
    BY <1>2
  <2>2. Max(T) \in T
    <3> HIDE DEF T
    <3> QED
      BY <2>1, MaxIsGreatest
  <2>3. Gcf(a, b) = Max(T)
    BY <1>2 DEF Gcf
  <2> QED
    BY <1>2, <2>2, <2>3
<1> QED
  BY <1>1, <1>2

\* Bezout: the greatest common factor is a sum of multiples of both numbers.
LEMMA Bezout ==
  ASSUME NEW x \in Nat, NEW y \in Nat, y > 0
  PROVE  \E u, v \in Int : u * x + v * y = Gcf(x, y)
<1> DEFINE g == Gcf(x, y)
           Made(t) == \E u, v \in Int : u * x + v * y = t
           T == {t \in 1..y : Made(t)}
           Divisors == {k \in 1..y : x % k = 0 /\ y % k = 0}
<1>1. y \in T
  <2>1. 0 * x + 1 * y = y /\ y \in 1..y
    OBVIOUS
  <2> QED
    BY <2>1
<1>2. PICK t \in T : \A s \in T : t <= s
  <2>1. T \in SUBSET Nat /\ T # {}
    BY <1>1
  <2> HIDE DEF T
  <2> QED
    BY <2>1, LeastExists
<1>3. PICK u \in Int, v \in Int : u * x + v * y = t
  OBVIOUS
<1>4. t \in Nat /\ t > 0 /\ t <= y
  OBVIOUS
<1>5. ASSUME NEW s \in Nat, Made(s), s < t
      PROVE  s = 0
  <2>1. s > 0 => s \in T
    <3> HIDE DEF Made
    <3> QED
      BY <1>4, <1>5
  <2> HIDE DEF T
  <2> QED
    BY <1>2, <1>4, <1>5, <2>1
<1> HIDE DEF T
<1>6. x % t = 0
  <2> DEFINE q == x \div t
             r == x % t
  <2>1. q \in Int /\ r \in 0..(t - 1) /\ x = q * t + r
    BY <1>4, DivisionFacts
  <2> HIDE DEF q, r
  <2>2. r = (1 - q * u) * x + (-(q * v)) * y
    <3>1. (1 - q * u) * x + (-(q * v)) * y = x - q * (u * x + v * y)
      BY <1>3, <2>1
    <3>2. x - q * t = r
      <4> DEFINE p == q * t
      <4>1. p \in Int /\ x = p + r /\ r \in Int
        BY <1>4, <2>1
      <4> HIDE DEF p
      <4>2. x - p = r
        BY <4>1
      <4> QED
        BY <4>2 DEF p
    <3> QED
      BY <1>3, <3>1, <3>2
  <2> DEFINE i == 1 - q * u
             j == -(q * v)
  <2>3. i \in Int /\ j \in Int /\ i * x + j * y = r
    BY <1>3, <2>1, <2>2
  <2> HIDE DEF i, j
  <2>4. Made(r)
    BY <2>3
  <2>5. r \in Nat /\ r < t
    BY <1>4, <2>1
  <2> HIDE DEF Made
  <2>6. r = 0
    BY <1>5, <2>4, <2>5
  <2> QED
    BY <2>6 DEF r
<1>7. y % t = 0
  <2> DEFINE q == y \div t
             r == y % t
  <2>1. q \in Int /\ r \in 0..(t - 1) /\ y = q * t + r
    BY <1>4, DivisionFacts
  <2> HIDE DEF q, r
  <2>2. r = (-(q * u)) * x + (1 - q * v) * y
    <3>1. (-(q * u)) * x + (1 - q * v) * y = y - q * (u * x + v * y)
      BY <1>3, <2>1
    <3>2. y - q * t = r
      <4> DEFINE p == q * t
      <4>1. p \in Int /\ y = p + r /\ r \in Int
        BY <1>4, <2>1
      <4> HIDE DEF p
      <4>2. y - p = r
        BY <4>1
      <4> QED
        BY <4>2 DEF p
    <3> QED
      BY <1>3, <3>1, <3>2
  <2> DEFINE i == -(q * u)
             j == 1 - q * v
  <2>3. i \in Int /\ j \in Int /\ i * x + j * y = r
    BY <1>3, <2>1, <2>2
  <2> HIDE DEF i, j
  <2>4. Made(r)
    BY <2>3
  <2>5. r \in Nat /\ r < t
    BY <1>4, <2>1
  <2> HIDE DEF Made
  <2>6. r = 0
    BY <1>5, <2>4, <2>5
  <2> QED
    BY <2>6 DEF r
<1>8. g \in Nat /\ g > 0 /\ x % g = 0 /\ y % g = 0 /\ t <= g
  <2>1. g \in Nat /\ g > 0 /\ x % g = 0 /\ y % g = 0
    BY GcfDivides
  <2>2. Divisors \in SUBSET (0..y) /\ t \in Divisors
    BY <1>4, <1>6, <1>7
  <2>3. g = Max(Divisors)
    BY DEF Gcf
  <2> HIDE DEF Divisors
  <2>4. t <= Max(Divisors)
    BY <2>2, MaxIsGreatest
  <2> QED
    BY <2>1, <2>3, <2>4
<1> HIDE DEF g, Divisors
<1>9. g <= t
  <2> DEFINE a == x \div g
             b == y \div g
  <2>1. a \in Int /\ x = a * g /\ b \in Int /\ y = b * g
    BY <1>8, DivisionFacts, ExactDivision
  <2> HIDE DEF a, b
  <2>2. (u * a + v * b) * g = t
    <3>1. (u * a + v * b) * g = u * (a * g) + v * (b * g)
      BY <1>3, <1>8, <2>1
    <3> QED
      BY <1>3, <2>1, <3>1
  <2> DEFINE c == u * a + v * b
  <2>3. c \in Int /\ c * g = t
    BY <1>3, <2>1, <2>2
  <2> HIDE DEF c
  <2>4. c > 0
    <3>1. c <= 0 => (-c) \in Nat
      BY <2>3
    <3>2. c <= 0 => (-c) * g \in Nat
      BY <1>8, <3>1, ProductOfNats
    <3>3. (-c) * g = -(c * g)
      BY <1>8, <2>3
    <3> QED
      BY <1>4, <2>3, <3>2, <3>3
  <2>5. g * c >= g /\ g * c = c * g
    BY <1>8, <2>3, <2>4, ProductGrows
  <2> QED
    BY <2>3, <2>5
<1>10. g = t
  BY <1>4, <1>8, <1>9
<1> QED
  BY <1>3, <1>10 DEF g

Coprime(x, y) == \E u, v \in Int : u * x + v * y = 1

LEMMA CoprimeProduct ==
  ASSUME NEW x \in Int, NEW y \in Int, NEW z \in Int, Coprime(x, z), Coprime(y, z)
  PROVE  Coprime(x * y, z)
<1>1. PICK u \in Int, v \in Int : u * x + v * z = 1
  BY DEF Coprime
<1>2. PICK i \in Int, j \in Int : i * y + j * z = 1
  BY DEF Coprime
<1> DEFINE a == u * i
           b == (u * x) * j + v * (i * y + j * z)
<1>3. a \in Int /\ b \in Int
  <2>1. (u * x) * j \in Int /\ v * (i * y + j * z) \in Int
    OBVIOUS
  <2> QED
    BY <2>1
<1>4. a * (x * y) + b * z = (u * x + v * z) * (i * y + j * z)
  OBVIOUS
<1>5. a * (x * y) + b * z = 1
  BY <1>1, <1>2, <1>4
<1> HIDE DEF a, b
<1> QED
  BY <1>3, <1>5 DEF Coprime

LEMMA CoprimeSwapped ==
  ASSUME NEW x \in Int, NEW y \in Int, Coprime(x, y)
  PROVE  Coprime(y, x)
<1>1. PICK u \in Int, v \in Int : u * x + v * y = 1
  BY DEF Coprime
<1>2. v * y + u * x = 1
  <2>1. v * y \in Int /\ u * x \in Int
    OBVIOUS
  <2> QED
    BY <1>1, <2>1
<1> QED
  BY <1>2 DEF Coprime

LEMMA CoprimeFactors ==
  ASSUME NEW x \in Int, NEW y \in Int, NEW k \in Int, NEW l \in Int, Coprime(x * k, y * l)
  PROVE  Coprime(x, y)
<1>1. PICK u \in Int, v \in Int : u * (x * k) + v * (y * l) = 1
  BY DEF Coprime
<1>2. (u * k) * x + (v * l) * y = u * (x * k) + v * (y * l) /\ u * k \in Int /\ v * l \in Int
  OBVIOUS
<1> QED
  BY <1>1, <1>2 DEF Coprime

-----------------------------------------------------------------------------
(* Rounding.  The reference goes by the two whole numbers next to n over d,*)
(* the code by the quotient q and the remainder r of its magnitude.        *)
RoundedMagnitude(q, r, d, sign, rnd) ==
  IF r # 0 /\ RoundsUp(rnd, q, 2 * r > d, 2 * r = d, sign) THEN q + 1 ELSE q

LEMMA SizeFacts ==
  ASSUME NEW n \in Int
  PROVE  /\ Size(n) \in Nat /\ SignOf(n) \in {1, -1} /\ n = SignOf(n) * Size(n)
         /\ SignOf(n) < 0 <=> n < 0
  BY DEF Size, SignOf

LEMMA Neighbours ==
  ASSUME NEW n \in Int, NEW d \in Nat, d > 0, NEW q \in Nat, NEW r \in 0..(d - 1),
         Size(n) = q * d + r
  PROVE  /\ n \div d = IF r # 0 /\ n < 0 THEN -(q + 1) ELSE SignOf(n) * q
         /\ -((-n) \div d) = IF r # 0 /\ ~(n < 0) THEN q + 1 ELSE SignOf(n) * q
<1>1. /\ q \in Int /\ -q \in Int /\ -(q + 1) \in Int
      /\ r # 0 => d - r \in 0..(d - 1)
      /\ r = 0 => 0 \in 0..(d - 1)
  OBVIOUS
<1>2. (q * d + r) \div d = q
  BY <1>1, DivisionIs
<1>3. r = 0 => ((-q) * d + 0) \div d = -q
  BY <1>1, DivisionIs
<1>4. r # 0 => ((-(q + 1)) * d + (d - r)) \div d = -(q + 1)
  BY <1>1, DivisionIs
<1>5. /\ r = 0 => (-q) * d + 0 = -(q * d + r)
      /\ r # 0 => (-(q + 1)) * d + (d - r) = -(q * d + r)
  <2>1. q * d \in Nat
    BY ProductOfNats
  <2>2. (-q) * d = -(q * d) /\ (-(q + 1)) * d = -(q * d) - d
    OBVIOUS
  <2> QED
    BY <2>1, <2>2
<1>6. /\ r = 0 => (-(q * d + r)) \div d = -q
      /\ r # 0 => (-(q * d + r)) \div d = -(q + 1)
  BY <1>3, <1>4, <1>5
<1>7. CASE n < 0
  <2>1. n = -(q * d + r) /\ -n = q * d + r /\ SignOf(n) = -1
    BY <1>7 DEF Size, SignOf
  <2> QED
    BY <1>2, <1>6, <1>7, <2>1
<1>8. CASE ~(n < 0)
  <2>1. n = q * d + r /\ -n = -(q * d + r) /\ SignOf(n) = 1
    BY <1>8 DEF Size, SignOf
  <2> QED
    BY <1>2, <1>6, <1>8, <2>1
<1> QED
  BY <1>7, <1>8

LEMMA NearestIs ==
  ASSUME NEW n \in Int, NEW d \in Nat, d > 0, NEW q \in Nat, NEW r \in 0..(d - 1),
         Size(n) = q * d + r
  PROVE  Nearest(n, d) = IF r = 0 \/ 2 * r < d THEN {SignOf(n) * q}
                         ELSE IF 2 * r > d THEN {SignOf(n) * (q + 1)}
                         ELSE {SignOf(n) * q, SignOf(n) * (q + 1)}
<1> DEFINE s == SignOf(n)
           x == s * q
           y == s * (q + 1)
           near == {n \div d, -((-n) \div d)}
           off(k) == Size(n - k * d)
<1>1. s \in {1, -1} /\ n = s * (q * d + r) /\ (s < 0 <=> n < 0) /\ x \in Int /\ y \in Int /\ x # y
  BY SizeFacts
<1>2. near = IF r = 0 THEN {x} ELSE {x, y}
  <2>1. n \div d = IF r # 0 /\ n < 0 THEN -(q + 1) ELSE x
    BY Neighbours
  <2>2. -((-n) \div d) = IF r # 0 /\ ~(n < 0) THEN q + 1 ELSE x
    BY Neighbours
  <2>3. y = IF n < 0 THEN -(q + 1) ELSE q + 1
    BY <1>1
  <2> HIDE DEF x, y
  <2>4. CASE r = 0
    BY <2>1, <2>2, <2>4
  <2>5. CASE r # 0 /\ n < 0
    BY <2>1, <2>2, <2>3, <2>5
  <2>6. CASE r # 0 /\ ~(n < 0)
    BY <2>1, <2>2, <2>3, <2>6
  <2> QED
    BY <2>4, <2>5, <2>6
<1>3. off(x) = r /\ off(y) = d - r
  <2>1. x * d = s * (q * d) /\ y * d = s * (q * d) + s * d
    BY <1>1
  <2>2. q * d \in Nat
    BY ProductOfNats
  <2> DEFINE p == q * d
  <2>3. n - x * d = s * r /\ n - y * d = s * (r - d)
    <3>1. p \in Nat /\ n = s * (p + r) /\ x * d = s * p /\ y * d = s * p + s * d
      BY <1>1, <2>1, <2>2
    <3> HIDE DEF p, x, y, s
    <3> QED
      BY <1>1, <3>1
  <2> HIDE DEF x, y
  <2> QED
    BY <1>1, <2>3 DEF Size
<1>4. Nearest(n, d) = {k \in near : \A j \in near : off(k) <= off(j)}
  BY DEF Nearest
<1>5. x = SignOf(n) * q /\ y = SignOf(n) * (q + 1)
  OBVIOUS
<1> HIDE DEF s, x, y, near, off
<1>6. CASE r = 0
  BY <1>1, <1>2, <1>3, <1>4, <1>5, <1>6
<1>7. CASE r # 0
  <2>1. Nearest(n, d) = {k \in {x, y} : off(k) <= off(x) /\ off(k) <= off(y)}
    BY <1>2, <1>4, <1>7
  <2>2. CASE 2 * r < d
    <3>1. r <= d - r /\ ~(d - r <= r)
      BY <2>2
    <3>2. Nearest(n, d) = {x}
      BY <1>3, <2>1, <3>1
    <3> QED
      BY <1>5, <2>2, <3>2
  <2>3. CASE 2 * r > d
    <3>1. ~(r <= d - r) /\ d - r <= r
      BY <2>3
    <3>2. Nearest(n, d) = {y}
      BY <1>3, <2>1, <3>1
    <3> QED
      BY <1>5, <1>7, <2>3, <3>2
  <2>4. CASE 2 * r = d
    <3>1. r <= d - r /\ d - r <= r /\ ~(2 * r < d) /\ ~(2 * r > d)
      BY <2>4
    <3>2. Nearest(n, d) = {x, y}
      BY <1>3, <2>1, <3>1
    <3> QED
      BY <1>5, <1>7, <3>1, <3>2
  <2> QED
    BY <2>2, <2>3, <2>4
<1> QED
  BY <1>6, <1>7

LEMMA RoundedToIs ==
  ASSUME NEW n \in Int, NEW d \in Nat, d > 0, NEW q \in Nat, NEW r \in 0..(d - 1),
         Size(n) = q * d + r, NEW rnd \in Roundings
  PROVE  RoundedTo(n, d, rnd) = SignOf(n) * RoundedMagnitude(q, r, d, SignOf(n), rnd)
<1> DEFINE s == SignOf(n)
           x == s * q
           y == s * (q + 1)
           low == n \div d
           high == -((-n) \div d)
           toZero(S) == CHOOSE k \in S : \A j \in S : Size(k) <= Size(j)
           fromZero(S) == CHOOSE k \in S : \A j \in S : Size(k) >= Size(j)
           even(S) == {k \in S : k % 2 = 0}
           T == Nearest(n, d)
<1>1. s \in {1, -1} /\ (s < 0 <=> n < 0) /\ x \in Int /\ y \in Int /\ x # y
      /\ Size(x) = q /\ Size(y) = q + 1
  BY SizeFacts DEF Size
<1>2. /\ low = IF r # 0 /\ s < 0 THEN y ELSE x
      /\ high = IF r # 0 /\ ~(s < 0) THEN y ELSE x
  <2>1. n \div d = IF r # 0 /\ n < 0 THEN -(q + 1) ELSE x
    BY Neighbours
  <2>2. -((-n) \div d) = IF r # 0 /\ ~(n < 0) THEN q + 1 ELSE x
    BY Neighbours
  <2>3. y = IF n < 0 THEN -(q + 1) ELSE q + 1
    BY <1>1
  <2> HIDE DEF x, y
  <2> QED
    BY <1>1, <2>1, <2>2, <2>3
<1>3. {low, high} = IF r = 0 THEN {x} ELSE {x, y}
  BY <1>1, <1>2
<1>4. T = IF r = 0 \/ 2 * r < d THEN {x} ELSE IF 2 * r > d THEN {y} ELSE {x, y}
  BY NearestIs
<1>5. x % 2 = 0 <=> q % 2 # 1
  BY <1>1
<1>6. y % 2 = 0 <=> q % 2 = 1
  BY <1>1
<1>7. RoundedTo(n, d, rnd) =
       CASE rnd = "floor"     -> low
         [] rnd = "ceil"      -> high
         [] rnd = "trunc"     -> toZero({low, high})
         [] rnd = "promote"   -> fromZero({low, high})
         [] rnd = "half down" -> toZero(T)
         [] rnd = "half up"   -> fromZero(T)
         [] rnd = "round"     -> IF Cardinality(T) = 2 THEN CHOOSE k \in even(T) : TRUE
                                 ELSE CHOOSE k \in T : TRUE
  BY DEF RoundedTo
<1> HIDE DEF x, y, low, high, T
<1>8. /\ toZero({x}) = x /\ toZero({y}) = y /\ toZero({x, y}) = x
      /\ fromZero({x}) = x /\ fromZero({y}) = y /\ fromZero({x, y}) = y
  <2>1. q <= q /\ q <= q + 1 /\ ~(q + 1 <= q) /\ q + 1 >= q /\ ~(q >= q + 1) /\ q + 1 >= q + 1
        /\ q + 1 <= q + 1
    OBVIOUS
  <2> QED
    BY <1>1, <2>1
<1>9. Cardinality({x}) = 1 /\ Cardinality({y}) = 1 /\ Cardinality({x, y}) = 2
  <2>1. Cardinality({x}) = 1 /\ Cardinality({y}) = 1
    BY FS_Singleton
  <2>2. IsFiniteSet({x}) /\ y \notin {x} /\ {x} \cup {y} = {x, y}
    BY <1>1, FS_Singleton
  <2>3. Cardinality({x} \cup {y}) = Cardinality({x}) + 1
    BY <2>2, FS_AddElement
  <2>4. Cardinality({x, y}) = Cardinality({x}) + 1
    BY <2>2, <2>3, Zenon
  <2> QED
    BY <2>1, <2>4
<1>10. even({x, y}) = IF q % 2 = 1 THEN {y} ELSE {x}
  BY <1>5, <1>6
<1>11. x = s * q /\ y = s * (q + 1)
  BY DEF x, y
<1> DEFINE up == r # 0 /\ RoundsUp(rnd, q, 2 * r > d, 2 * r = d, s)
<1>12. SignOf(n) * RoundedMagnitude(q, r, d, SignOf(n), rnd) = IF up THEN y ELSE x
  BY <1>11 DEF RoundedMagnitude
<1>13. RoundedTo(n, d, rnd) = IF up THEN y ELSE x
  <2> HIDE DEF toZero, fromZero, even, s
  <2>1. CASE rnd = "floor"
    BY <1>1, <1>2, <1>7, <2>1 DEF RoundsUp
  <2>2. CASE rnd = "ceil"
    BY <1>1, <1>2, <1>7, <2>2 DEF RoundsUp
  <2>3. CASE rnd = "trunc"
    BY <1>3, <1>7, <1>8, <2>3 DEF RoundsUp
  <2>4. CASE rnd = "promote"
    BY <1>3, <1>7, <1>8, <2>4 DEF RoundsUp
  <2>5. CASE rnd = "half down"
    <3>1. RoundedTo(n, d, rnd) = toZero(T)
      BY <1>7, <2>5
    <3>2. up <=> r # 0 /\ 2 * r > d
      BY <2>5 DEF RoundsUp
    <3> HIDE DEF up
    <3>3. CASE r = 0 \/ 2 * r < d
      BY <1>4, <1>8, <3>1, <3>2, <3>3
    <3>4. CASE r # 0 /\ 2 * r > d
      BY <1>4, <1>8, <3>1, <3>2, <3>4
    <3>5. CASE r # 0 /\ 2 * r = d
      BY <1>4, <1>8, <3>1, <3>2, <3>5
    <3> QED
      BY <3>3, <3>4, <3>5
  <2>6. CASE rnd = "half up"
    <3>1. RoundedTo(n, d, rnd) = fromZero(T)
      BY <1>7, <2>6
    <3>2. up <=> r # 0 /\ (2 * r > d \/ 2 * r = d)
      BY <2>6 DEF RoundsUp
    <3> HIDE DEF up
    <3>3. CASE r = 0 \/ 2 * r < d
      BY <1>4, <1>8, <3>1, <3>2, <3>3
    <3>4. CASE r # 0 /\ 2 * r > d
      BY <1>4, <1>8, <3>1, <3>2, <3>4
    <3>5. CASE r # 0 /\ 2 * r = d
      BY <1>4, <1>8, <3>1, <3>2, <3>5
    <3> QED
      BY <3>3, <3>4, <3>5
  <2>7. CASE rnd = "round"
    <3>1. RoundedTo(n, d, rnd) = IF Cardinality(T) = 2 THEN CHOOSE k \in even(T) : TRUE
                                 ELSE CHOOSE k \in T : TRUE
      BY <1>7, <2>7
    <3>2. (CHOOSE k \in {x} : TRUE) = x /\ (CHOOSE k \in {y} : TRUE) = y
      OBVIOUS
    <3>3. up <=> r # 0 /\ (2 * r > d \/ (2 * r = d /\ q % 2 = 1))
      BY <2>7 DEF RoundsUp
    <3> HIDE DEF up
    <3>4. CASE r = 0 \/ 2 * r < d
      BY <1>4, <1>9, <3>1, <3>2, <3>3, <3>4
    <3>5. CASE r # 0 /\ 2 * r > d
      BY <1>4, <1>9, <3>1, <3>2, <3>3, <3>5
    <3>6. CASE r # 0 /\ 2 * r = d
      <4>1. T = {x, y}
        BY <1>4, <3>6
      <4>2. RoundedTo(n, d, rnd) = CHOOSE k \in even({x, y}) : TRUE
        BY <1>9, <3>1, <4>1
      <4> HIDE DEF even
      <4>3. CASE q % 2 = 1
        BY <1>10, <3>2, <3>3, <3>6, <4>2, <4>3
      <4>4. CASE q % 2 # 1
        BY <1>10, <3>2, <3>3, <3>6, <4>2, <4>4
      <4> QED
        BY <4>3, <4>4
    <3> QED
      BY <3>4, <3>5, <3>6
  <2> QED
    BY <2>1, <2>2, <2>3, <2>4, <2>5, <2>6, <2>7 DEF Roundings
<1> QED
  BY <1>12, <1>13

\* The same fraction over a multiple of its denominator rounds alike.
LEMMA ScaledRounding ==
  ASSUME NEW n \in Int, NEW d \in Nat, d > 0, NEW k \in Nat, k > 0, NEW rnd \in Roundings
  PROVE  RoundedTo(n * k, d * k, rnd) = RoundedTo(n, d, rnd)
<1> DEFINE q == Size(n) \div d
           r == Size(n) % d
<1>1. Size(n) \in Nat /\ q \in Nat /\ r \in 0..(d - 1) /\ Size(n) = q * d + r
  <2> DEFINE z == Size(n)
  <2>1. z \in Nat /\ z \in Int /\ z >= 0
    BY SizeFacts
  <2> HIDE DEF z
  <2>2. z \div d \in Nat /\ z % d \in 0..(d - 1) /\ z = (z \div d) * d + (z % d)
    BY <2>1, DivisionFacts
  <2> QED
    BY <2>1, <2>2 DEF z
<1> HIDE DEF q, r
<1>2. n * k \in Int /\ d * k \in Nat /\ d * k > 0 /\ r * k \in Nat /\ r * k < d * k
      /\ (2 * (r * k) > d * k <=> 2 * r > d) /\ (2 * (r * k) = d * k <=> 2 * r = d)
      /\ (r * k = 0 <=> r = 0)
  <2>1. n * k \in Int /\ d * k \in Nat /\ r * k \in Nat
    BY <1>1
  <2>2. d * k >= d
    BY ProductGrows
  <2>3. \A u, v \in Nat : u > v => u * k > v * k
    <3> TAKE u, v \in Nat
    <3>1. (u - v) * k = u * k - v * k
      OBVIOUS
    <3>2. u > v => (u - v) \in Nat /\ u - v > 0
      OBVIOUS
    <3>3. u > v => (u - v) * k > 0
      <4>1. u > v => (u - v) * k >= u - v
        BY <3>2, ProductGrows
      <4> QED
        BY <3>2, <4>1
    <3>4. u * k \in Nat /\ v * k \in Nat
      OBVIOUS
    <3> QED
      BY <3>1, <3>3, <3>4
  <2>4. 2 * (r * k) = (2 * r) * k /\ 2 * r \in Nat /\ r \in Nat /\ 0 * k = 0 /\ r < d
    BY <1>1
  <2>5. /\ d > r => d * k > r * k
        /\ 2 * r > d => (2 * r) * k > d * k
        /\ d > 2 * r => d * k > (2 * r) * k
        /\ r > 0 => r * k > 0 * k
    BY <2>3, <2>4
  <2> QED
    BY <2>1, <2>2, <2>4, <2>5
<1>3. Size(n * k) = q * (d * k) + r * k /\ SignOf(n * k) = SignOf(n)
  <2>1. Size(n * k) = Size(n) * k /\ SignOf(n * k) = SignOf(n)
    <3>1. n < 0 => n * k < 0
      <4>1. (-n) * k = -(n * k)
        OBVIOUS
      <4>2. n < 0 => -n \in Nat /\ (-n) * k >= -n
        BY ProductGrows
      <4> QED
        BY <1>2, <4>1, <4>2
    <3>2. ~(n < 0) => ~(n * k < 0)
      <4>1. ~(n < 0) => n \in Nat
        OBVIOUS
      <4>2. ~(n < 0) => n * k \in Nat
        BY <4>1, ProductOfNats
      <4> QED
        BY <4>2
    <3> QED
      BY <1>2, <3>1, <3>2 DEF Size, SignOf
  <2>2. (q * d + r) * k = q * (d * k) + r * k
    BY <1>1
  <2> QED
    BY <1>1, <2>1, <2>2
<1>4. RoundedTo(n, d, rnd) = SignOf(n) * RoundedMagnitude(q, r, d, SignOf(n), rnd)
  BY <1>1, RoundedToIs
<1> DEFINE N == n * k
           D == d * k
           R == r * k
<1>5. N \in Int /\ D \in Nat /\ D > 0 /\ R \in 0..(D - 1) /\ Size(N) = q * D + R
  BY <1>2, <1>3
<1>6. RoundedTo(N, D, rnd) = SignOf(N) * RoundedMagnitude(q, R, D, SignOf(N), rnd)
  <2> HIDE DEF N, D, R
  <2> QED
    BY <1>1, <1>5, RoundedToIs
<1>7. RoundedMagnitude(q, R, D, SignOf(n), rnd) = RoundedMagnitude(q, r, d, SignOf(n), rnd)
  <2>1. (R # 0 <=> r # 0) /\ (2 * R > D <=> 2 * r > d) /\ (2 * R = D <=> 2 * r = d)
    BY <1>2
  <2> HIDE DEF N, D, R
  <2>2. /\ (2 * R > D) = (2 * r > d)
        /\ (2 * R = D) = (2 * r = d)
        /\ (R # 0) = (r # 0)
    BY <2>1
  <2> QED
    BY <2>2 DEF RoundedMagnitude
<1> QED
  BY <1>3, <1>4, <1>6, <1>7

\* Numbers of the machine are kept, and those one range below them are moved up.
LEMMA WrapIs ==
  ASSUME NEW n \in Int, -Half <= n, n < Half
  PROVE  Wrap(n) = n /\ Wrap(n - Wide) = n
<1>1. Half \in Nat /\ Wide \in Nat /\ Wide > 0 /\ Wide = 2 * Half
  BY PowerFacts
<1> DEFINE W == Wide
           r == n + Half
<1>2. /\ W \in Nat /\ W > 0 /\ r \in 0..(W - 1)
      /\ n + Half = r /\ n - Wide + Half = r - W /\ r - Half = n
  BY <1>1
<1> HIDE DEF W, r
<1>3. (0 * W + r) % W = r /\ ((-1) * W + r) % W = r
  BY <1>2, DivisionIs
<1>4. 0 * W + r = r /\ (-1) * W + r = r - W
  BY <1>2
<1>5. (n + Half) % W = r /\ (n - Wide + Half) % W = r
  BY <1>2, <1>3, <1>4
<1> QED
  BY <1>2, <1>5 DEF Wrap, W

-----------------------------------------------------------------------------
(* What the code does with one number over a positive denominator.         *)
\* n over d is reduced by the common factor g, to m over e.
ReducedBy(n, d, g, m, e) ==
  /\ g > 0 /\ e > 0 /\ n = m * g /\ d = e * g /\ e <= d
  /\ n > 0 => m > 0
  /\ gnc_numeric_reduce(Num(n, d)) = Num(m, e)
  /\ Coprime(m, e)

LEMMA ReducedFraction ==
  ASSUME NEW n \in Int, NEW d \in Nat, d > 0
  PROVE  \E g \in Nat, m \in Int, e \in Nat : ReducedBy(n, d, g, m, e)
<1> DEFINE z == Size(n)
           s == SignOf(n)
           g == Gcf(z, d)
           k == z \div g
           e == d \div g
<1>1. z \in Nat /\ s \in {1, -1} /\ n = s * z /\ (s < 0 <=> n < 0)
  BY SizeFacts
<1>2. g \in Nat /\ g > 0 /\ z % g = 0 /\ d % g = 0
  <2> HIDE DEF z
  <2> QED
    BY <1>1, GcfDivides
<1>3. PICK v, w \in Int : v * z + w * d = g
  <2> HIDE DEF z
  <2> QED
    BY <1>1, Bezout
<1>4. gnc_numeric_reduce(Num(n, d)) = Num(s * k, e)
  <2>1. Size(d) = d /\ SignOf(d) = 1 /\ e \in Int
    <3> HIDE DEF g
    <3> QED
      BY <1>2, DivisionFacts DEF Size, SignOf
  <2>2. Num(n, d).num = n /\ Num(n, d).denom = d
    BY DEF Num
  <2>3. SignOf(d) * (Size(d) \div g) = e
    <3> HIDE DEF g
    <3> QED
      BY <2>1
  <2> HIDE DEF g, k, e
  <2>4. Gcf(Size(n), d) = g
    BY DEF g
  <2> QED
    BY <2>2, <2>3, <2>4 DEF gnc_numeric_reduce, k, z
<1> HIDE DEF z, s, g
<1>5. k \in Nat /\ e \in Nat /\ z = k * g /\ d = e * g
  <2>1. z \in Int /\ d \in Int /\ z >= 0 /\ d >= 0
    BY <1>1
  <2>2. k \in Nat /\ z = k * g
    BY <1>1, <1>2, <2>1, DivisionFacts, ExactDivision
  <2>3. e \in Nat /\ d = e * g
    BY <1>1, <1>2, <2>1, DivisionFacts, ExactDivision
  <2> QED
    BY <2>2, <2>3
<1> HIDE DEF k, e
<1>6. e > 0 /\ e <= d
  <2>1. e = 0 => e * g = 0
    BY <1>2
  <2>2. e <= e * g
    BY <1>2, <1>5, ProductGrows
  <2> QED
    BY <1>5, <2>1, <2>2
<1>7. s * k \in Int /\ n = (s * k) * g
  <2>1. (s * k) * g = s * (k * g)
    BY <1>1, <1>2, <1>5
  <2> QED
    BY <1>1, <1>5, <2>1
<1>8. n > 0 => s * k > 0
  <2>1. k = 0 => z = 0
    BY <1>2, <1>5
  <2> QED
    BY <1>1, <1>5, <2>1
<1>9. Coprime(s * k, e)
  <2>1. (v * k + w * e) * g = 1 * g
    <3>1. (v * k + w * e) * g = v * (k * g) + w * (e * g)
      BY <1>2, <1>3, <1>5
    <3>2. v * (k * g) = v * z /\ w * (e * g) = w * d
      BY <1>5
    <3>3. v * z + w * d = g
      BY <1>3
    <3>4. 1 * g = g
      BY <1>2
    <3> QED
      BY <3>1, <3>2, <3>3, <3>4
  <2>2. v * k + w * e \in Int
    BY <1>3, <1>5
  <2>3. v * k + w * e = 1
    <3> DEFINE c == v * k + w * e
    <3> HIDE DEF c
    <3>1. c \in Int /\ c * g = 1 * g
      BY <2>1, <2>2 DEF c
    <3>2. c = 1
      BY <1>2, <3>1, Cancelled
    <3> QED
      BY <3>2 DEF c
  <2>4. (v * s) * (s * k) + w * e = v * k + w * e /\ v * s \in Int
    BY <1>1, <1>3, <1>5
  <2> QED
    BY <1>3, <2>3, <2>4 DEF Coprime
<1>10. ReducedBy(n, d, g, s * k, e)
  BY <1>2, <1>4, <1>5, <1>6, <1>7, <1>8, <1>9 DEF ReducedBy
<1> QED
  BY <1>2, <1>5, <1>7, <1>10

\* The rounding that both conversions end with, when the remainder that they test
\* is zero, and compares with half of the divisor, as the true one does.
LEMMA RoundedIs ==
  ASSUME NEW n \in Int, NEW d \in Nat, d > 0, NEW q \in Nat, NEW r \in 0..(d - 1),
         Size(n) = q * d + r, q < Half, NEW rnd \in Roundings, NEW denom,
         NEW rem, rem = 0 <=> r = 0, NEW above \in BOOLEAN, above <=> 2 * r > d,
         NEW middle \in BOOLEAN, middle <=> 2 * r = d,
         Size(RoundedTo(n, d, rnd)) # Half
  PROVE  Rounded(q, rem, above, middle, denom, SignOf(n), rnd)
           = Num(RoundedTo(n, d, rnd), denom)
<1> DEFINE s == SignOf(n)
<1>1. s \in {1, -1} /\ Half \in Nat
  BY SizeFacts, PowerFacts
<1> DEFINE up == r # 0 /\ RoundsUp(rnd, q, 2 * r > d, 2 * r = d, s)
<1>2. RoundedTo(n, d, rnd) = s * (IF up THEN q + 1 ELSE q)
  BY RoundedToIs DEF RoundedMagnitude
<1>3. rem # 0 /\ RoundsUp(rnd, q, above, middle, s) <=> up
  <2>1. RoundsUp(rnd, q, above, middle, s) <=> RoundsUp(rnd, q, 2 * r > d, 2 * r = d, s)
    BY DEF RoundsUp, Roundings
  <2> QED
    BY <2>1
<1>4. rnd # "never"
  BY DEF Roundings
<1> HIDE DEF s, up
<1>5. Rounded(q, rem, above, middle, denom, s, rnd)
        = IF up THEN Num(Wrap(s * Wrap(q + 1)), denom) ELSE Num(s * q, denom)
  BY <1>3, <1>4 DEF Rounded
<1>6. ASSUME up  PROVE Wrap(s * Wrap(q + 1)) = s * (q + 1)
  <2>1. Size(s * (q + 1)) # Half
    BY <1>2, <1>6
  <2>2. q + 1 # Half
    BY <1>1, <2>1 DEF Size
  <2>3. q + 1 \in Int /\ -Half <= q + 1 /\ q + 1 < Half
    BY <1>1, <2>2
  <2>4. Wrap(q + 1) = q + 1
    BY <2>3, WrapIs
  <2>5. s * (q + 1) \in Int /\ -Half <= s * (q + 1) /\ s * (q + 1) < Half
    BY <1>1, <2>3
  <2> DEFINE v == s * (q + 1)
  <2> HIDE DEF v
  <2>6. v \in Int /\ -Half <= v /\ v < Half
    BY <2>5 DEF v
  <2>7. Wrap(v) = v
    BY <2>6, WrapIs
  <2> QED
    BY <2>4, <2>7 DEF v
<1>7. s = SignOf(n)
  BY DEF s
<1> QED
  BY <1>2, <1>5, <1>6, <1>7

\* Above and Middle see through the remainder, even where it is Half too low.
LEMMA RemainderTold ==
  ASSUME NEW e \in Nat, e > 0, e < Quarter, NEW r \in 0..(e - 1), NEW rem \in Int,
         rem = r \/ (rem = r - Half /\ r # 0)
  PROVE  /\ rem = 0 <=> r = 0
         /\ Above(rem, e) <=> 2 * r > e
         /\ Middle(rem, e) <=> 2 * r = e
<1>1. Quarter \in Nat /\ Half = 2 * Quarter /\ Wide = 2 * Half
  BY PowerFacts
<1>2. 2 * r \in Int /\ -Half <= 2 * r /\ 2 * r < Half
  BY <1>1
<1> DEFINE v == 2 * r
<1>3. v \in Int /\ -Half <= v /\ v < Half
  BY <1>2
<1> HIDE DEF v
<1>4. Wrap(v) = v /\ Wrap(v - Wide) = v
  BY <1>3, WrapIs
<1>5. Twice(rem) = 2 * r
  <2>1. rem = r => 2 * rem = v
    BY DEF v
  <2>2. rem = r - Half => 2 * rem = v - Wide
    BY <1>1 DEF v
  <2>3. Wrap(2 * rem) = v
    BY <1>4, <2>1, <2>2
  <2> QED
    BY <2>3 DEF Twice, v
<1>6. ~(2 * r < rem)
  BY <1>1
<1> QED
  BY <1>1, <1>5, <1>6 DEF Above, Middle

LEMMA RemainderIs ==
  ASSUME NEW mag \in Nat, NEW neg, NEW e \in Nat, e > 0, e < Half, mag \div e < Half
  PROVE  LET rem == Rem128([neg |-> neg, mag |-> mag], e)
         IN /\ rem \in Int
            /\ rem = (mag % e) \/ (rem = (mag % e) - Half /\ mag % e # 0)
<1> DEFINE q == mag \div e
           r == mag % e
<1>1. Half \in Nat /\ Half > 0
  BY PowerFacts
<1>2. q \in Nat /\ r \in 0..(e - 1) /\ mag = q * e + r /\ q < Half
  BY DivisionFacts
<1>3. Rem128([neg |-> neg, mag |-> mag], e) = (mag % Half) - ((q * e) % Half)
  <2>1. Wrap(q) = q
    <3> HIDE DEF q
    <3>1. q \in Int /\ -Half <= q
      BY <1>1, <1>2
    <3> QED
      BY <1>2, <3>1, WrapIs
  <2>2. [neg |-> neg, mag |-> mag].mag = mag
    OBVIOUS
  <2>3. Div128([neg |-> neg, mag |-> mag], e).mag = q
    BY DEF Div128
  <2> HIDE DEF q
  <2>4. Mult128(q, e).mag = q * e
    BY <1>2 DEF Mult128, Size
  <2> QED
    BY <2>1, <2>2, <2>3, <2>4 DEF Rem128
<1> HIDE DEF q, r
<1> DEFINE p == q * e
           k == p \div Half
           c == p % Half
           H == Half
<1>4. p \in Nat /\ mag = p + r
  BY <1>2, ProductOfNats
<1> DEFINE rem == Rem128([neg |-> neg, mag |-> mag], e)
<1>5. rem = (mag % H) - c /\ r = mag % e
  BY <1>3 DEF r
<1> SUFFICES rem \in Int /\ (rem = r \/ (rem = r - H /\ r # 0))
  <2> HIDE DEF rem
  <2> QED
    BY <1>5 DEF rem
<1> HIDE DEF p, rem
<1>6. k \in Int /\ c \in 0..(H - 1) /\ p = k * H + c
  BY <1>1, <1>4, DivisionFacts
<1> HIDE DEF k, c
<1>7. H \in Nat /\ H > 0 /\ r < H
  BY <1>1, <1>2
<1>8. CASE c + r < H
  <2>1. c + r \in 0..(H - 1) /\ mag = k * H + (c + r)
    <3> HIDE DEF H
    <3> QED
      BY <1>2, <1>4, <1>6, <1>7, <1>8
  <2> HIDE DEF H
  <2>2. mag % H = c + r
    BY <1>6, <1>7, <2>1, DivisionIs
  <2>3. (mag % H) - c = r
    BY <1>2, <1>6, <2>2
  <2> QED
    BY <1>2, <1>5, <2>3
<1>9. CASE c + r >= H
  <2>1. c + r - H \in 0..(H - 1) /\ mag = (k + 1) * H + (c + r - H) /\ r # 0
    <3> HIDE DEF H
    <3>1. (k + 1) * H = k * H + H /\ k * H \in Int
      BY <1>6, <1>7
    <3>2. r \in Int /\ c \in Int /\ c < H /\ r >= 0 /\ r < H /\ c + r >= H
      BY <1>2, <1>6, <1>7, <1>9
    <3>3. mag = k * H + c + r
      BY <1>4, <1>6
    <3> DEFINE x == k * H
               y == (k + 1) * H
    <3> HIDE DEF x, y
    <3>4. y = x + H /\ x \in Int /\ mag = x + c + r
      BY <3>1, <3>3 DEF x, y
    <3>5. c + r - H \in 0..(H - 1) /\ mag = y + (c + r - H) /\ r # 0
      BY <1>7, <3>2, <3>4
    <3> QED
      BY <3>5 DEF y
  <2> HIDE DEF H
  <2>2. mag % H = c + r - H
    <3> DEFINE j == k + 1
               s == c + r - H
    <3>1. j \in Int /\ s \in 0..(H - 1) /\ mag = j * H + s
      BY <1>6, <2>1
    <3> HIDE DEF j, s
    <3>2. mag % H = s
      BY <1>7, <3>1, DivisionIs
    <3> QED
      BY <3>2 DEF s
  <2>3. (mag % H) - c = r - H
    BY <1>2, <1>6, <1>7, <2>2
  <2> QED
    BY <1>2, <1>5, <1>7, <2>1, <2>3
<1> QED
  BY <1>2, <1>6, <1>7, <1>8, <1>9

LEMMA SizeOfProduct ==
  ASSUME NEW m \in Int, NEW k \in Nat, k > 0
  PROVE  Size(m * k) = Size(m) * k /\ SignOf(m * k) = SignOf(m)
<1>1. m * k \in Int
  OBVIOUS
<1>2. m < 0 => m * k < 0
  <2>1. (-m) * k = -(m * k)
    OBVIOUS
  <2>2. m < 0 => -m \in Nat /\ (-m) * k >= -m
    BY ProductGrows
  <2> QED
    BY <1>1, <2>1, <2>2
<1>3. ~(m < 0) => ~(m * k < 0)
  <2>1. ~(m < 0) => m \in Nat
    OBVIOUS
  <2>2. ~(m < 0) => m * k \in Nat
    BY <2>1, ProductOfNats
  <2> QED
    BY <2>2
<1> QED
  BY <1>1, <1>2, <1>3 DEF Size, SignOf

\* How m over d is put over denom: by the fraction k over e in lowest terms, with a
\* quotient q, a remainder r and rem, what the code takes for that remainder.
MadeBy(m, d, denom, rnd, k, e, q, r, rem) ==
  /\ k > 0 /\ e > 0 /\ e <= d /\ r < e /\ q < Half /\ Size(m * k) = q * e + r
  /\ rem = r \/ (rem = r - Half /\ r # 0)
  /\ ToDenominator(Num(m, d), denom, rnd)
       = Rounded(q, rem, Above(rem, e), Middle(rem, e), denom, SignOf(m * k), rnd)

LEMMA MadeOverBy ==
  ASSUME NEW m \in Int, NEW d \in Nat, d > 0, d < Half, NEW denom \in Nat, denom > 0, NEW rnd,
         Valid(ToDenominator(Num(m, d), denom, rnd))
  PROVE  \E g \in Nat, k \in Nat, e \in Nat, q \in Nat, r \in Nat, rem \in Int :
           g > 0 /\ denom = k * g /\ d = e * g /\ MadeBy(m, d, denom, rnd, k, e, q, r, rem)
<1>a. PICK g \in Nat, k \in Int, e \in Nat : ReducedBy(denom, d, g, k, e)
  <2>1. denom \in Int
    OBVIOUS
  <2> QED
    BY <2>1, ReducedFraction
<1>1. /\ g > 0 /\ e > 0 /\ denom = k * g /\ d = e * g /\ e <= d
      /\ denom > 0 => k > 0
      /\ gnc_numeric_reduce(Num(denom, d)) = Num(k, e)
  BY <1>a DEF ReducedBy
<1>2. k \in Nat /\ k > 0 /\ e < Half /\ Half \in Nat
  BY <1>1, PowerFacts
<1> DEFINE n == m * k
           mag == Size(n)
           q == mag \div e
           r == mag % e
           neg == (m < 0) # (k < 0)
           rem == Rem128([neg |-> neg, mag |-> mag], e)
<1>3. n \in Int /\ mag \in Nat /\ SignOf(n) = SignOf(m) /\ mag = Size(m) * k
  <2>1. n \in Int
    BY <1>2
  <2>2. SignOf(n) = SignOf(m) /\ mag = Size(m) * k
    BY <1>2, SizeOfProduct
  <2> HIDE DEF n
  <2>3. mag \in Nat
    BY <2>1, SizeFacts
  <2> QED
    BY <2>1, <2>2, <2>3
<1>4. Mult128(m, k) = [neg |-> neg, mag |-> mag]
  <2>1. Size(k) = k
    BY <1>2 DEF Size
  <2> QED
    BY <1>3, <2>1 DEF Mult128
<1>5. Div128(Mult128(m, k), e).mag = q
  BY <1>4 DEF Div128
<1>6. /\ Num(m, d).num = m /\ Num(m, d).denom = d
      /\ Num(k, e).num = k /\ Num(k, e).denom = e
  BY DEF Num
<1> HIDE DEF neg, n
<1>7. ToDenominator(Num(m, d), denom, rnd)
        = IF q >= Half THEN Error(ErrorOverflow)
          ELSE Rounded(q, rem, Above(rem, e), Middle(rem, e), denom, SignOf(n), rnd)
  <2> HIDE DEF q
  <2>1. gnc_numeric_reduce(Num(denom, Num(m, d).denom)) = Num(k, e)
    BY <1>1, <1>6
  <2> QED
    BY <1>3, <1>4, <1>5, <1>6, <2>1 DEF ToDenominator, Big
<1> HIDE DEF mag
<1>8. q \in Nat /\ r \in 0..(e - 1) /\ mag = q * e + r
  <2>1. mag \in Int /\ mag >= 0
    BY <1>3
  <2> QED
    BY <1>1, <1>3, <2>1, DivisionFacts
<1>9. ~(q >= Half)
  <2>1. ~Valid(Error(ErrorOverflow))
    BY DEF Valid, Error, Num
  <2> HIDE DEF q, rem
  <2> QED
    BY <1>7, <2>1
<1>10. rem \in Int /\ (rem = r \/ (rem = r - Half /\ r # 0))
  <2>1. mag \div e < Half
    BY <1>2, <1>8, <1>9
  <2> HIDE DEF neg
  <2> QED
    BY <1>1, <1>2, <1>3, <2>1, RemainderIs
<1> HIDE DEF q, r, rem
<1>11. r \in Nat /\ r < e /\ q < Half /\ mag = Size(m * k)
  BY <1>2, <1>8, <1>9 DEF mag, n
<1>12. MadeBy(m, d, denom, rnd, k, e, q, r, rem)
  BY <1>1, <1>2, <1>7, <1>8, <1>9, <1>10, <1>11 DEF MadeBy, n
<1> QED
  BY <1>1, <1>2, <1>8, <1>10, <1>11, <1>12

\* A conversion to a positive denominator, rounded
LEMMA MadeOver ==
  ASSUME NEW m \in Int, NEW d \in Nat, d > 0, d < Quarter,
         NEW denom \in Nat, denom > 0, NEW rnd \in Roundings,
         Size(RoundedTo(m * denom, d, rnd)) # Half,
         Valid(ToDenominator(Num(m, d), denom, rnd))
  PROVE  ToDenominator(Num(m, d), denom, rnd) = Num(RoundedTo(m * denom, d, rnd), denom)
<1>1. Quarter \in Nat /\ d < Half
  BY PowerFacts
<1>2. PICK g \in Nat, k \in Nat, e \in Nat, q \in Nat, r \in Nat, rem \in Int :
        g > 0 /\ denom = k * g /\ d = e * g /\ MadeBy(m, d, denom, rnd, k, e, q, r, rem)
  BY <1>1, MadeOverBy
<1> DEFINE n == m * k
           above == Above(rem, e)
           middle == Middle(rem, e)
<1>3. /\ k > 0 /\ e > 0 /\ e < Quarter /\ r \in 0..(e - 1) /\ q < Half /\ Size(n) = q * e + r
      /\ rem = r \/ (rem = r - Half /\ r # 0)
      /\ ToDenominator(Num(m, d), denom, rnd) = Rounded(q, rem, above, middle, denom, SignOf(n), rnd)
  BY <1>1, <1>2 DEF MadeBy
<1>4. n \in Int /\ n * g = m * denom
  <2>1. (m * k) * g = m * (k * g)
    BY <1>2
  <2> QED
    BY <1>2, <2>1
<1>5. RoundedTo(n, e, rnd) = RoundedTo(m * denom, d, rnd)
  <2>1. RoundedTo(n * g, e * g, rnd) = RoundedTo(n, e, rnd)
    <3> HIDE DEF n
    <3> QED
      BY <1>2, <1>3, <1>4, ScaledRounding
  <2> QED
    BY <1>2, <1>4, <2>1
<1>6. /\ rem = 0 <=> r = 0
      /\ above \in BOOLEAN /\ (above <=> 2 * r > e)
      /\ middle \in BOOLEAN /\ (middle <=> 2 * r = e)
  <2>1. above \in BOOLEAN /\ middle \in BOOLEAN
    BY DEF Above, Middle
  <2>2. (rem = 0 <=> r = 0) /\ (above <=> 2 * r > e) /\ (middle <=> 2 * r = e)
    BY <1>3, RemainderTold
  <2> QED
    BY <2>1, <2>2
<1>7. Size(RoundedTo(n, e, rnd)) # Half
  BY <1>5
<1> HIDE DEF above, middle, n
<1>8. Rounded(q, rem, above, middle, denom, SignOf(n), rnd) = Num(RoundedTo(n, e, rnd), denom)
  BY <1>3, <1>4, <1>6, <1>7, RoundedIs
<1> QED
  BY <1>3, <1>5, <1>8

LEMMA ConvertedUp ==
  ASSUME NEW m \in Int, NEW d \in Nat, d > 0, d < Quarter,
         NEW denom \in Nat, denom > 0, NEW rnd \in Roundings,
         Size(RoundedTo(m * denom, d, rnd)) # Half,
         Valid(gnc_numeric_convert(Num(m, d), denom, How("exact", rnd)))
  PROVE  gnc_numeric_convert(Num(m, d), denom, How("exact", rnd))
           = Num(RoundedTo(m * denom, d, rnd), denom)
<1> DEFINE n == m * denom
           to == RoundedTo(n, d, rnd)
<1>1. Num(m, d).num = m /\ Num(m, d).denom = d /\ How("exact", rnd).rnd = rnd
  BY DEF Num, How
<1>2. Valid(Num(m, d)) /\ denom # DenomAuto /\ Whole(Num(m, d)) = Num(m, d) /\ ~(denom < 0)
  BY <1>1 DEF Valid, DenomAuto, Whole
<1>3. gnc_numeric_convert(Num(m, d), denom, How("exact", rnd))
        = IF d = denom THEN Num(m, d)
          ELSE IF m = 0 THEN Num(0, denom) ELSE ToDenominator(Num(m, d), denom, rnd)
  BY <1>1, <1>2 DEF gnc_numeric_convert
<1>4. n \in Int /\ Size(n) = Size(m) * denom /\ SignOf(n) = SignOf(m)
      /\ Size(m) \in Nat /\ m = SignOf(m) * Size(m)
  BY SizeOfProduct, SizeFacts
<1>5. CASE d = denom
  <2>1. Size(n) = Size(m) * d + 0 /\ 0 \in 0..(d - 1)
    BY <1>4, <1>5
  <2> HIDE DEF n
  <2>2. to = SignOf(n) * RoundedMagnitude(Size(m), 0, d, SignOf(n), rnd)
    BY <1>4, <2>1, RoundedToIs
  <2>3. to = m
    BY <1>4, <2>2 DEF RoundedMagnitude
  <2> QED
    BY <1>3, <1>5, <2>3 DEF n
<1>6. CASE d # denom /\ m = 0
  <2>1. Size(n) = 0 * d + 0 /\ 0 \in 0..(d - 1) /\ SignOf(n) \in {1, -1}
    BY <1>4, <1>6 DEF Size, SignOf
  <2> HIDE DEF n
  <2>2. to = SignOf(n) * RoundedMagnitude(0, 0, d, SignOf(n), rnd)
    BY <1>4, <2>1, RoundedToIs
  <2>3. to = 0
    BY <2>1, <2>2 DEF RoundedMagnitude
  <2> QED
    BY <1>3, <1>6, <2>3 DEF n
<1>7. CASE d # denom /\ m # 0
  <2>1. gnc_numeric_convert(Num(m, d), denom, How("exact", rnd))
          = ToDenominator(Num(m, d), denom, rnd)
    BY <1>3, <1>7
  <2> QED
    BY <2>1, MadeOver
<1> QED
  BY <1>5, <1>6, <1>7

\* A conversion to a multiple of the whole number k.
LEMMA ConvertedDown ==
  ASSUME NEW m \in Int, Size(m) < Half, NEW d \in Nat, d > 0, NEW k \in Nat, k > 0,
         d * k < Quarter, NEW rnd \in Roundings, Size(RoundedTo(m, d * k, rnd)) # Half
  PROVE  gnc_numeric_convert(Num(m, d), -k, How("exact", rnd))
           = Num(RoundedTo(m, d * k, rnd), -k)
<1> DEFINE base == d * k
           mag == Size(m)
           q == mag \div base
           r == mag % base
           to == RoundedTo(m, base, rnd)
<1>1. Num(m, d).num = m /\ Num(m, d).denom = d /\ How("exact", rnd).rnd = rnd
  BY DEF Num, How
<1>2. Valid(Num(m, d)) /\ -k # DenomAuto /\ Whole(Num(m, d)) = Num(m, d) /\ -k < 0 /\ d # -k
      /\ -(-k) = k
  BY <1>1 DEF Valid, DenomAuto, Whole
<1>3. gnc_numeric_convert(Num(m, d), -k, How("exact", rnd))
        = IF m = 0 THEN Num(0, -k) ELSE ToReciprocal(Num(m, d), k, rnd)
  BY <1>1, <1>2 DEF gnc_numeric_convert
<1>4. Quarter \in Nat /\ Half \in Nat /\ Half = 2 * Quarter
  BY PowerFacts
<1>5. base \in Nat /\ base > 0 /\ base < Quarter
  BY ProductGrows
<1>6. mag \in Nat /\ mag < Half /\ SignOf(m) \in {1, -1}
  BY SizeFacts
<1> HIDE DEF base, mag
<1>7. q \in Nat /\ r \in 0..(base - 1) /\ mag = q * base + r /\ q < Half
  <2>1. mag \in Int /\ mag >= 0
    BY <1>6
  <2>2. q \in Nat /\ r \in 0..(base - 1) /\ mag = q * base + r /\ q <= mag
    BY <1>5, <2>1, DivisionFacts
  <2> HIDE DEF q, r
  <2> QED
    BY <1>4, <1>6, <2>2
<1> DEFINE above == Twice(r) > base
           middle == Twice(r) = base
<1>8. /\ above \in BOOLEAN /\ (above <=> 2 * r > base)
      /\ middle \in BOOLEAN /\ (middle <=> 2 * r = base)
  <2> HIDE DEF q, r
  <2> DEFINE v == 2 * r
  <2>1. v \in Int /\ -Half <= v /\ v < Half
    BY <1>4, <1>5, <1>7
  <2> HIDE DEF v
  <2>2. Wrap(v) = v
    BY <2>1, WrapIs
  <2>3. Twice(r) = 2 * r
    BY <2>2 DEF Twice, v
  <2> QED
    BY <2>3
<1>9. Wrap(base) = base
  <2>1. base \in Int /\ -Half <= base /\ base < Half
    BY <1>4, <1>5
  <2> QED
    BY <2>1, WrapIs
<1>10. ToReciprocal(Num(m, d), k, rnd) = Rounded(q, r, above, middle, -k, SignOf(m), rnd)
  <2>1. Wrap(Num(m, d).denom * k) = base
    BY <1>1, <1>9 DEF base
  <2> HIDE DEF q, r
  <2> QED
    BY <1>1, <2>1 DEF ToReciprocal, q, r, mag
<1>11. Size(m) = q * base + r
  BY <1>7 DEF mag
<1>12. Size(to) # Half
  BY DEF base
<1> HIDE DEF q, r, above, middle
<1>13. Rounded(q, r, above, middle, -k, SignOf(m), rnd) = Num(to, -k)
  <2>1. r = 0 <=> r = 0
    OBVIOUS
  <2> QED
    BY <1>5, <1>7, <1>8, <1>11, <1>12, <2>1, RoundedIs
<1>14. m = 0 => to = 0
  <2>1. m = 0 => mag = 0
    BY DEF mag, Size
  <2>2. m = 0 => q = 0 /\ r = 0
    <3>1. 0 = 0 * base + 0 /\ 0 \in 0..(base - 1)
      BY <1>5
    <3>2. 0 \div base = 0 /\ 0 % base = 0
      BY <1>5
    <3> QED
      BY <2>1, <3>2 DEF q, r
  <2>3. to = SignOf(m) * RoundedMagnitude(q, r, base, SignOf(m), rnd)
    BY <1>5, <1>7, <1>11, RoundedToIs
  <2> QED
    BY <1>6, <2>2, <2>3 DEF RoundedMagnitude
<1> QED
  BY <1>3, <1>10, <1>13, <1>14 DEF base

\* A number equal to the exact result is rounded as that one is.
LEMMA OnceRounded ==
  ASSUME NEW m \in Int, NEW d \in Nat, d > 0, d < Quarter,
         NEW n \in Int, NEW e \in Nat, e > 0, m * e = n * d,
         NEW denom \in Nat, denom > 0, NEW rnd \in Roundings
  PROVE  IsRounded(gnc_numeric_convert(Num(m, d), denom, How("exact", rnd)),
                   Num(n, e), denom, rnd)
<1> DEFINE to == RoundedTo(n * denom, e, rnd)
           made == gnc_numeric_convert(Num(m, d), denom, How("exact", rnd))
<1>1. RoundedTo(m * denom, d, rnd) = to
  <2>1. RoundedTo((m * denom) * e, d * e, rnd) = RoundedTo(m * denom, d, rnd)
    BY ScaledRounding
  <2>2. RoundedTo((n * denom) * d, e * d, rnd) = RoundedTo(n * denom, e, rnd)
    BY ScaledRounding
  <2>3. (m * denom) * e = (n * denom) * d /\ d * e = e * d
    <3>1. (m * denom) * e = (m * e) * denom /\ (n * denom) * d = (n * d) * denom
      OBVIOUS
    <3> QED
      BY <3>1
  <2> QED
    BY <2>1, <2>2, <2>3
<1>2. Num(n, e).num = n /\ Num(n, e).denom = e
  BY DEF Num
<1>3. Valid(made) /\ Size(to) # Half => made = Num(to, denom)
  <2> SUFFICES ASSUME Valid(made), Size(to) # Half  PROVE made = Num(to, denom)
    OBVIOUS
  <2>1. made = Num(RoundedTo(m * denom, d, rnd), denom)
    BY <1>1, ConvertedUp
  <2> QED
    BY <1>1, <2>1
<1> HIDE DEF to, made
<1>4. IsRounded(made, Num(n, e), denom, rnd) <=>
        (Valid(made) /\ Size(to) # Half => made = Num(to, denom))
  BY <1>2 DEF IsRounded, to
<1> QED
  BY <1>3, <1>4 DEF made

\* An error counts as rounded.
LEMMA ErrorsCount ==
  ASSUME NEW r, NEW exact, NEW denom, NEW rnd, ~Valid(r)
  PROVE  IsRounded(r, exact, denom, rnd)
BY DEF IsRounded

LEMMA LcdIs ==
  ASSUME NEW m, NEW n, NEW d \in Nat, d > 0, d < Half, NEW e \in Nat, e > 0, e < Half, d # e
  PROVE  LET lcd == gnc_numeric_lcd(Num(m, d), Num(n, e))
         IN \/ lcd = ErrorArg
            \/ /\ lcd \in Nat /\ lcd > 0 /\ lcd < Half /\ lcd <= d * e
               /\ lcd % d = 0 /\ lcd % e = 0
<1> DEFINE g == Gcf(d, e)
           k == e \div g
           lcd == gnc_numeric_lcd(Num(m, d), Num(n, e))
<1>1. Half \in Nat /\ Wide \in Nat /\ Wide = 2 * Half
  BY PowerFacts
<1>2. g \in Nat /\ g > 0 /\ d % g = 0 /\ e % g = 0
  BY GcfDivides
<1>3. Num(m, d).denom = d /\ Num(n, e).denom = e /\ Size(d) = d /\ Size(e) = e
  BY DEF Num, Size
<1>4. d % d = 0 /\ e % e = 0 /\ d <= d * e /\ e <= d * e
  <2>1. 1 * d = d /\ 1 * e = e /\ e * d = d * e
    OBVIOUS
  <2>2. (1 * d) % d = 0 /\ (1 * e) % e = 0
    BY MultipleDivided
  <2>3. d <= d * e /\ e <= e * d
    BY ProductGrows
  <2> QED
    BY <2>1, <2>2, <2>3
<1>5. Unsigned(d) = d /\ Unsigned(e) = e
  <2> DEFINE W == Wide
  <2>1. W \in Nat /\ W > 0 /\ d \in 0..(W - 1) /\ e \in 0..(W - 1)
    BY <1>1
  <2> HIDE DEF W
  <2>2. (0 * W + d) % W = d /\ (0 * W + e) % W = e
    BY <2>1, DivisionIs
  <2>3. 0 * W + d = d /\ 0 * W + e = e
    BY <2>1
  <2> QED
    BY <2>2, <2>3 DEF Unsigned, W
<1> DEFINE j == d \div g
<1> HIDE DEF g, lcd
<1>6. k \in Nat /\ k <= e /\ e = k * g /\ j \in Nat /\ d = j * g
  <2>1. d \in Int /\ e \in Int /\ d >= 0 /\ e >= 0
    OBVIOUS
  <2> QED
    BY <1>2, <2>1, DivisionFacts, ExactDivision
<1> HIDE DEF k, j
<1>7. k > 0
  <2>1. k = 0 => k * g = 0
    BY <1>2
  <2> QED
    BY <1>6, <2>1
<1>8. Lcm128(d, e).mag = d * k
  <2>1. k \in Int /\ -Half <= k /\ k < Half
    BY <1>1, <1>6
  <2>2. Wrap(k) = k
    BY <2>1, WrapIs
  <2>3. Lcm128(d, e) = Mult128(d, k)
    BY <1>5, <2>2 DEF Lcm128, g, k
  <2>4. Size(k) = k
    BY <1>6 DEF Size
  <2> QED
    BY <1>3, <2>3, <2>4 DEF Mult128
<1>9. d * k \in Nat /\ d * k > 0 /\ d * k <= d * e /\ (d * k) % d = 0 /\ (d * k) % e = 0
  <2>1. d * k \in Nat /\ d * k >= d
    BY <1>6, <1>7, ProductGrows
  <2>2. d * k <= d * e
    <3>1. (d * k) * g = d * e
      BY <1>2, <1>6
    <3>2. (d * k) * g >= d * k
      BY <1>2, <2>1, ProductGrows
    <3> QED
      BY <3>1, <3>2
  <2>3. d * k = k * d /\ d * k = j * e
    BY <1>2, <1>6
  <2>4. (k * d) % d = 0 /\ (j * e) % e = 0
    BY <1>6, MultipleDivided
  <2> QED
    BY <2>1, <2>2, <2>3, <2>4
<1>10. lcd \in {d, e, ErrorArg, d * k}
       /\ (lcd = d => d % e = 0 \/ d = d * k) /\ (lcd = e => e % d = 0 \/ e = d * k)
       /\ (lcd = d * k => d * k < Half)
  <2> DEFINE down == e < d /\ d % e = 0
             up == d < e /\ e % d = 0
  <2>1. lcd = CASE down -> d [] up -> e
                [] OTHER -> IF Big(Lcm128(d, e)) THEN ErrorArg ELSE Lcm128(d, e).mag
    BY <1>3 DEF lcd, gnc_numeric_lcd
  <2>2. ~(down /\ up) /\ ErrorArg = -1
    BY DEF ErrorArg
  <2>3. CASE down
    BY <2>1, <2>2, <2>3
  <2>4. CASE up
    BY <2>1, <2>2, <2>4
  <2>5. CASE ~down /\ ~up
    <3>1. ~Big(Lcm128(d, e)) => d * k < Half
      BY <1>1, <1>8, <1>9 DEF Big
    <3>2. -1 # d * k
      BY <1>9
    <3> QED
      BY <1>8, <2>1, <2>2, <2>5, <3>1, <3>2
  <2> QED
    BY <2>3, <2>4, <2>5
<1>11. CASE lcd = d
  BY <1>4, <1>9, <1>10, <1>11 DEF lcd
<1>12. CASE lcd = e
  BY <1>4, <1>9, <1>10, <1>12 DEF lcd
<1>13. CASE lcd = d * k
  BY <1>9, <1>10, <1>13 DEF lcd
<1>14. CASE lcd = ErrorArg
  BY <1>14 DEF lcd
<1> QED
  BY <1>10, <1>11, <1>12, <1>13, <1>14

-----------------------------------------------------------------------------
(* The operations.  Each gives an error or a number that is equal to the   *)
(* exact result, n over e, and over no greater a denominator.              *)
Found(r, n, e) ==
  Valid(r) => \E m \in Int, d \in Nat :
                d > 0 /\ d < Half /\ d <= e /\ r = Num(m, d) /\ m * e = n * d

LEMMA SignedIs ==
  ASSUME NEW b \in BOOLEAN, NEW k
  PROVE  Signed([neg |-> b, mag |-> k]) = IF b THEN -k ELSE k
BY DEF Signed

LEMMA SignedProduct ==
  ASSUME NEW x \in Int, NEW y \in Int
  PROVE  /\ Mult128(x, y).mag \in Nat
         /\ Signed(Mult128(x, y)) = x * y
         /\ x >= 0 /\ y >= 0 => Mult128(x, y).mag = x * y
<1> DEFINE s == Size(x)
           t == Size(y)
<1>1. /\ s \in Nat /\ (x < 0 => x = -s) /\ (~(x < 0) => x = s) /\ (x = 0 <=> s = 0)
      /\ t \in Nat /\ (y < 0 => y = -t) /\ (~(y < 0) => y = t) /\ (y = 0 <=> t = 0)
  BY DEF Size
<1>2. Mult128(x, y) = [neg |-> (x < 0) # (y < 0), mag |-> s * t]
  BY DEF Mult128
<1> HIDE DEF s, t
<1>3. s * t \in Nat
  BY <1>1, ProductOfNats
<1>4. Signed(Mult128(x, y)) = IF (x < 0) # (y < 0) THEN -(s * t) ELSE s * t
  <2> DEFINE b == (x < 0) # (y < 0)
  <2>1. b \in BOOLEAN
    OBVIOUS
  <2> HIDE DEF b
  <2>2. Signed([neg |-> b, mag |-> s * t]) = IF b THEN -(s * t) ELSE s * t
    BY <2>1, SignedIs
  <2> QED
    BY <1>2, <2>2 DEF b
<1>5. CASE x < 0 /\ y < 0
  <2>1. x * y = s * t /\ ~((x < 0) # (y < 0)) /\ ~(x >= 0)
    <3>1. (-s) * (-t) = s * t
      BY <1>1
    <3>2. (x < 0) = (y < 0)
      BY <1>5
    <3> QED
      BY <1>1, <1>5, <3>1, <3>2
  <2> QED
    BY <1>2, <1>3, <1>4, <2>1
<1>6. CASE x < 0 /\ ~(y < 0)
  <2>1. x * y = -(s * t) /\ (x < 0) # (y < 0) /\ ~(x >= 0)
    <3>1. (-s) * t = -(s * t)
      BY <1>1
    <3> QED
      BY <1>1, <1>6, <3>1
  <2> QED
    BY <1>2, <1>3, <1>4, <2>1
<1>7. CASE ~(x < 0) /\ y < 0
  <2>1. x * y = -(s * t) /\ (x < 0) # (y < 0) /\ ~(y >= 0)
    <3>1. s * (-t) = -(s * t)
      BY <1>1
    <3> QED
      BY <1>1, <1>7, <3>1
  <2> QED
    BY <1>2, <1>3, <1>4, <2>1
<1>8. CASE ~(x < 0) /\ ~(y < 0)
  <2>1. x * y = s * t /\ ~((x < 0) # (y < 0))
    <3>1. (x < 0) = (y < 0)
      BY <1>8
    <3> QED
      BY <1>1, <1>8, <3>1
  <2> QED
    BY <1>2, <1>3, <1>4, <2>1
<1> QED
  BY <1>5, <1>6, <1>7, <1>8

LEMMA SumFound ==
  ASSUME NEW m \in Int, NEW n \in Int,
         NEW d \in Nat, d > 0, d < Half, NEW e \in Nat, e > 0, e < Half,
         d = e => Size(m + n) < Half
  PROVE  Found(Sum(Num(m, d), Num(n, e)), m * e + n * d, d * e)
<1> DEFINE x == Num(m, d)
           y == Num(n, e)
<1>1. x.num = m /\ x.denom = d /\ y.num = n /\ y.denom = e
  BY DEF Num
<1> HIDE DEF x, y
<1>2. Quarter \in Nat /\ Half \in Nat /\ d * e \in Nat /\ d <= d * e
  BY PowerFacts, ProductGrows
<1>3. CASE d = e
  <2>1. Wrap(m + n) = m + n
    <3> DEFINE v == m + n
    <3>1. v \in Int /\ -Half <= v /\ v < Half
      BY <1>2, <1>3 DEF Size
    <3> HIDE DEF v
    <3>2. Wrap(v) = v
      BY <3>1, WrapIs
    <3> QED
      BY <3>2 DEF v
  <2>2. Sum(x, y) = Num(m + n, d)
    BY <1>1, <1>3, <2>1 DEF Sum
  <2>3. (m + n) * (d * e) = (m * e + n * d) * d
    <3>1. (m + n) * (d * d) = (m * d + n * d) * d
      OBVIOUS
    <3> QED
      BY <1>3, <3>1
  <2>4. m + n \in Int /\ d \in Nat /\ d > 0 /\ d < Half /\ d <= d * e
    BY <1>2
  <2>5. Found(Sum(x, y), m * e + n * d, d * e)
    <3> DEFINE u == m * e + n * d
               w == d * e
    <3> HIDE DEF u, w
    <3> QED
      BY <2>2, <2>3, <2>4 DEF Found, u, w
  <2> QED
    BY <2>5 DEF x, y
<1>4. CASE d # e
  <2> DEFINE lcd == gnc_numeric_lcd(x, y)
             i == lcd \div d
             j == lcd \div e
             cx == Mult128(m, i)
             cy == Mult128(n, j)
             sum == Add128(cx, cy)
  <2>1. \/ lcd = ErrorArg
        \/ /\ lcd \in Nat /\ lcd > 0 /\ lcd < Half /\ lcd <= d * e
           /\ lcd % d = 0 /\ lcd % e = 0
    BY <1>4, LcdIs DEF x, y
  <2>2. Sum(x, y) = IF lcd = ErrorArg THEN Error(ErrorOverflow)
                    ELSE IF Big(cx) \/ Big(cy) \/ Big(sum) THEN Error(ErrorOverflow)
                    ELSE Num(Signed(sum), lcd)
    <3> HIDE DEF lcd
    <3> QED
      BY <1>1, <1>4 DEF Sum, lcd
  <2>3. ~Valid(Error(ErrorOverflow))
    BY DEF Valid, Error, Num
  <2> HIDE DEF lcd
  <2> SUFFICES ASSUME Valid(Sum(x, y))
               PROVE  \E a \in Int, c \in Nat :
                        c > 0 /\ c < Half /\ c <= d * e /\ Sum(x, y) = Num(a, c)
                        /\ a * (d * e) = (m * e + n * d) * c
    BY DEF Found, x, y
  <2>4. lcd # ErrorArg /\ Sum(x, y) = Num(Signed(sum), lcd)
    BY <2>2, <2>3
  <2>5. /\ lcd \in Nat /\ lcd > 0 /\ lcd < Half /\ lcd <= d * e
        /\ lcd % d = 0 /\ lcd % e = 0
    BY <2>1, <2>4
  <2>6. i \in Nat /\ lcd = i * d /\ j \in Nat /\ lcd = j * e
    <3>1. lcd \in Int /\ lcd >= 0
      BY <2>5
    <3> QED
      BY <2>5, <3>1, DivisionFacts, ExactDivision
  <2> HIDE DEF i, j
  <2>7. Signed(sum) = m * i + n * j
    <3>1. i \in Int /\ j \in Int
      BY <2>6
    <3>2. Signed(cx) = m * i /\ Signed(cy) = n * j
      BY <3>1, SignedProduct
    <3> HIDE DEF cx, cy
    <3> DEFINE v == m * i + n * j
    <3>3. v \in Int
      BY <2>6
    <3> HIDE DEF v
    <3>4. sum = [neg |-> v < 0, mag |-> Size(v)]
      BY <3>2 DEF Add128, v
    <3> DEFINE b == v < 0
    <3>5. b \in BOOLEAN
      OBVIOUS
    <3> HIDE DEF b
    <3>6. Signed(sum) = IF b THEN -Size(v) ELSE Size(v)
      <4>1. Signed([neg |-> b, mag |-> Size(v)]) = IF b THEN -Size(v) ELSE Size(v)
        BY <3>5, SignedIs
      <4> QED
        BY <3>4, <4>1 DEF b
    <3>7. Signed(sum) = v
      BY <3>3, <3>6 DEF b, Size
    <3> QED
      BY <3>7 DEF v
  <2> HIDE DEF sum
  <2>8. (m * i + n * j) * (d * e) = (m * e + n * d) * lcd
    <3>1. (m * i) * (d * e) = (m * e) * (i * d) /\ (n * j) * (d * e) = (n * d) * (j * e)
      BY <2>6
    <3>2. (m * i) * (d * e) = (m * e) * lcd /\ (n * j) * (d * e) = (n * d) * lcd
      BY <2>6, <3>1
    <3>3. /\ (m * i + n * j) * (d * e) = (m * i) * (d * e) + (n * j) * (d * e)
          /\ (m * e + n * d) * lcd = (m * e) * lcd + (n * d) * lcd
      BY <2>5, <2>6
    <3> QED
      BY <3>2, <3>3
  <2>9. m * i + n * j \in Int
    BY <2>6
  <2> QED
    BY <2>4, <2>5, <2>7, <2>8, <2>9
<1> QED
  BY <1>3, <1>4

\* The fractions a over p and b over s, whose product is that of m over d and n over e
SameProductBy(c, m, n, d, e, a, b, p, s) ==
  /\ c = << Num(a, p), Num(b, s) >>
  /\ p > 0 /\ s > 0 /\ p * s <= d * e
  /\ (a * b) * (d * e) = (m * n) * (p * s)
  /\ Coprime(a * b, p * s)

LEMMA CrossReducedIs ==
  ASSUME NEW m \in Int, NEW n \in Int, NEW d \in Nat, d > 0, NEW e \in Nat, e > 0
  PROVE  \E a \in Int, b \in Int, p \in Nat, s \in Nat :
           SameProductBy(CrossReduced(Num(m, d), Num(n, e)), m, n, d, e, a, b, p, s)
<1>a. PICK g \in Nat, a \in Int, p \in Nat : ReducedBy(m, d, g, a, p)
  BY ReducedFraction
<1>1. /\ g > 0 /\ p > 0 /\ m = a * g /\ d = p * g /\ p <= d
      /\ gnc_numeric_reduce(Num(m, d)) = Num(a, p) /\ Coprime(a, p)
  BY <1>a DEF ReducedBy
<1>b. PICK h \in Nat, b \in Int, s \in Nat : ReducedBy(n, e, h, b, s)
  BY ReducedFraction
<1>2. /\ h > 0 /\ s > 0 /\ n = b * h /\ e = s * h /\ s <= e
      /\ gnc_numeric_reduce(Num(n, e)) = Num(b, s) /\ Coprime(b, s)
  BY <1>b DEF ReducedBy
<1>c. PICK i \in Nat, b1 \in Int, p1 \in Nat : ReducedBy(b, p, i, b1, p1)
  BY <1>1, ReducedFraction
<1>3. /\ i > 0 /\ p1 > 0 /\ b = b1 * i /\ p = p1 * i /\ p1 <= p
      /\ gnc_numeric_reduce(Num(b, p)) = Num(b1, p1) /\ Coprime(b1, p1)
  BY <1>c DEF ReducedBy
<1>d. PICK j \in Nat, a1 \in Int, s1 \in Nat : ReducedBy(a, s, j, a1, s1)
  BY <1>2, ReducedFraction
<1>4. /\ j > 0 /\ s1 > 0 /\ a = a1 * j /\ s = s1 * j /\ s1 <= s
      /\ gnc_numeric_reduce(Num(a, s)) = Num(a1, s1) /\ Coprime(a1, s1)
  BY <1>d DEF ReducedBy
<1>5. CrossReduced(Num(m, d), Num(n, e)) = << Num(b1, p1), Num(a1, s1) >>
  <2>1. Num(a, p).num = a /\ Num(a, p).denom = p /\ Num(b, s).num = b /\ Num(b, s).denom = s
    BY DEF Num
  <2> QED
    BY <1>1, <1>2, <1>3, <1>4, <2>1 DEF CrossReduced
<1>6. p1 * s1 <= d * e
  <2>1. p1 <= d /\ s1 <= e
    BY <1>1, <1>2, <1>3, <1>4
  <2> QED
    BY <2>1, ProductsOrdered
<1>7. (b1 * a1) * (d * e) = (m * n) * (p1 * s1)
  <2>1. d = (p1 * i) * g /\ e = (s1 * j) * h /\ m = (a1 * j) * g /\ n = (b1 * i) * h
    BY <1>1, <1>2, <1>3, <1>4
  <2>2. (b1 * a1) * (((p1 * i) * g) * ((s1 * j) * h)) = (((a1 * j) * g) * ((b1 * i) * h)) * (p1 * s1)
    OBVIOUS
  <2> QED
    BY <2>1, <2>2
<1>8. Coprime(b1 * a1, p1 * s1)
  <2>1. Coprime(b1, s1) /\ Coprime(a1, p1)
    <3>1. Coprime(b1 * i, s1 * j) /\ Coprime(a1 * j, p1 * i)
      BY <1>1, <1>2, <1>3, <1>4
    <3>2. b1 \in Int /\ s1 \in Int /\ i \in Int /\ j \in Int /\ a1 \in Int /\ p1 \in Int
      OBVIOUS
    <3> QED
      BY <3>1, <3>2, CoprimeFactors
  <2>2. Coprime(b1 * a1, p1) /\ Coprime(b1 * a1, s1)
    <3>1. b1 \in Int /\ s1 \in Int /\ a1 \in Int /\ p1 \in Int
      OBVIOUS
    <3> QED
      BY <1>3, <1>4, <2>1, <3>1, CoprimeProduct
  <2> DEFINE u == b1 * a1
  <2>3. u \in Int /\ p1 \in Int /\ s1 \in Int
    OBVIOUS
  <2> HIDE DEF u
  <2>4. Coprime(p1, u) /\ Coprime(s1, u)
    BY <2>2, <2>3, CoprimeSwapped DEF u
  <2>5. Coprime(p1 * s1, u) /\ p1 * s1 \in Int
    BY <2>3, <2>4, CoprimeProduct
  <2>6. Coprime(u, p1 * s1)
    BY <2>3, <2>5, CoprimeSwapped
  <2> QED
    BY <2>6 DEF u
<1>9. SameProductBy(CrossReduced(Num(m, d), Num(n, e)), m, n, d, e, b1, a1, p1, s1)
  BY <1>3, <1>4, <1>5, <1>6, <1>7, <1>8 DEF SameProductBy
<1> QED
  BY <1>9

\* A product that can be written at all is found by reducing crosswise.
LEMMA ProductFits ==
  ASSUME NEW m \in Int, NEW n \in Int, NEW d \in Nat, d > 0, NEW e \in Nat, e > 0,
         LET p == gnc_numeric_reduce(Num(m * n, d * e))
         IN Size(p.num) < Half /\ p.denom < Half
  PROVE  Fits(InLowestTerms("mul", Num(m, d), Num(n, e)))
<1> DEFINE x == Num(m, d)
           y == Num(n, e)
           c == CrossReduced(x, y)
<1>1. x.num = m /\ x.denom = d /\ y.num = n /\ y.denom = e
  BY DEF Num
<1>2. CASE ~TooBig(x, y)
  <2>1. InLowestTerms("mul", x, y) = << Mult128(m, n), Mult128(d, e) >>
    BY <1>1, <1>2 DEF InLowestTerms
  <2>2. ~Big(Mult128(m, n)) /\ ~Big(Mult128(d, e))
    BY <1>1, <1>2 DEF TooBig
  <2> QED
    BY <2>1, <2>2 DEF Fits
<1>3. CASE TooBig(x, y)
  <2>1. PICK a \in Int, b \in Int, p \in Nat, s \in Nat :
          SameProductBy(c, m, n, d, e, a, b, p, s)
    BY CrossReducedIs
  <2>2. /\ c = << Num(a, p), Num(b, s) >> /\ p > 0 /\ s > 0
        /\ (a * b) * (d * e) = (m * n) * (p * s) /\ Coprime(a * b, p * s)
    BY <2>1 DEF SameProductBy
  <2> DEFINE nume == m * n
             deno == d * e
             u == a * b
             k == p * s
  <2>3. /\ nume \in Int /\ deno \in Nat /\ deno > 0 /\ u \in Int /\ k \in Nat /\ k > 0
        /\ u * deno = nume * k
    <3>1. d * e \in Nat /\ d * e >= d /\ p * s \in Nat /\ p * s >= p
      BY <2>2, ProductGrows
    <3> QED
      BY <2>2, <3>1
  <2> HIDE DEF nume, deno
  <2>4. PICK g \in Nat, i \in Int, j \in Nat : ReducedBy(nume, deno, g, i, j)
    BY <2>3, ReducedFraction
  <2>5. /\ g > 0 /\ j > 0 /\ nume = i * g /\ deno = j * g
        /\ gnc_numeric_reduce(Num(nume, deno)) = Num(i, j)
    BY <2>4 DEF ReducedBy
  <2>6. Size(i) < Half /\ j < Half
    <3>1. gnc_numeric_reduce(Num(m * n, d * e)) = Num(i, j)
      BY <2>5 DEF nume, deno
    <3>2. Num(i, j).num = i /\ Num(i, j).denom = j
      BY DEF Num
    <3> QED
      BY <3>1, <3>2
  <2>7. PICK f \in Int, h \in Int : f * u + h * k = 1
    BY <2>2 DEF Coprime
  <2> HIDE DEF u, k
  <2>8. u * j = i * k
    <3>1. (u * j) * g = u * (j * g) /\ (i * k) * g = (i * g) * k
      BY <2>3, <2>4
    <3>2. (u * j) * g = (i * k) * g /\ u * j \in Int /\ i * k \in Int
      BY <2>3, <2>5, <3>1
    <3> QED
      BY <2>5, <3>2, Cancelled
  <2> DEFINE w == f * i + h * j
  <2>9. w \in Int /\ j = k * w /\ i = u * w
    <3>1. w \in Int
      BY <2>7
    <3>2. j * (f * u + h * k) = f * (u * j) + (h * j) * k
          /\ i * (f * u + h * k) = (f * i) * u + h * (i * k)
      BY <2>3, <2>7
    <3>3. k * w = f * (i * k) + (h * j) * k /\ u * w = (f * i) * u + h * (u * j)
      BY <2>3, <2>7
    <3>4. j * 1 = j /\ i * 1 = i
      OBVIOUS
    <3> HIDE DEF w
    <3> QED
      BY <2>7, <2>8, <3>1, <3>2, <3>3, <3>4
  <2> HIDE DEF w
  <2>10. w > 0
    <3>1. w <= 0 => -w \in Nat
      BY <2>9
    <3>2. w <= 0 => k * (-w) \in Nat
      BY <2>3, <3>1, ProductOfNats
    <3>3. k * (-w) = -(k * w)
      BY <2>3, <2>9
    <3> QED
      BY <2>5, <2>9, <3>2, <3>3
  <2>11. k < Half /\ Size(u) < Half
    <3>1. w \in Nat
      BY <2>9, <2>10
    <3>2. Half \in Nat
      BY PowerFacts
    <3>3. k <= j
      BY <2>3, <2>9, <2>10, <3>1, ProductGrows
    <3>4. Size(i) = Size(u) * w /\ Size(u) \in Nat
      BY <2>3, <2>9, <2>10, <3>1, SizeOfProduct, SizeFacts
    <3>5. Size(u) <= Size(u) * w /\ Size(u) * w \in Nat
      BY <2>10, <3>1, <3>4, ProductGrows
    <3> QED
      BY <2>3, <2>6, <3>2, <3>3, <3>4, <3>5
  <2>12. InLowestTerms("mul", x, y) = << Mult128(a, b), Mult128(p, s) >>
    <3>1. c[1].num = a /\ c[1].denom = p /\ c[2].num = b /\ c[2].denom = s
      BY <2>2 DEF Num
    <3> HIDE DEF x, y, c
    <3> QED
      BY <1>3, <3>1 DEF InLowestTerms, c
  <2>13. Mult128(a, b).mag = Size(u) /\ Mult128(p, s).mag = k
    <3>1. p \in Int /\ s \in Int /\ p >= 0 /\ s >= 0
      OBVIOUS
    <3>2. Mult128(p, s).mag = k
      BY <3>1, SignedProduct DEF k
    <3> DEFINE l == Mult128(a, b)
    <3>3. l = [neg |-> l.neg, mag |-> l.mag] /\ l.neg \in BOOLEAN
      BY DEF Mult128
    <3>4. l.mag \in Nat /\ Signed(l) = u
      BY SignedProduct DEF u
    <3> HIDE DEF l
    <3>5. u = IF l.neg THEN -l.mag ELSE l.mag
      BY <3>3, <3>4, SignedIs
    <3>6. Size(u) = l.mag
      BY <3>3, <3>4, <3>5 DEF Size
    <3> QED
      BY <3>2, <3>6 DEF l
  <2>14. Size(u) \in Nat /\ Half \in Nat
    BY <2>3, SizeFacts, PowerFacts
  <2> DEFINE f1 == Mult128(a, b)
             f2 == Mult128(p, s)
             lowest == InLowestTerms("mul", x, y)
  <2>15. lowest[1] = f1 /\ lowest[2] = f2
    BY <2>12
  <2>16. ~(f1.mag >= Half) /\ ~(f2.mag >= Half)
    BY <2>3, <2>11, <2>13, <2>14
  <2> HIDE DEF f1, f2, lowest
  <2>17. Fits(lowest)
    BY <2>15, <2>16 DEF Fits, Big
  <2> QED
    BY <2>17 DEF lowest
<1> QED
  BY <1>2, <1>3

\* The exact product, where it fits in lowest terms.
ProductBy(m, d, n, e, i, j) ==
  /\ gnc_numeric_mul(Num(m, d), Num(n, e), DenomAuto, How("exact", "never")) = Num(i, j)
  /\ j > 0 /\ j < Half /\ Size(i) < Half /\ i * (d * e) = (m * n) * j
  /\ ~TooBig(Num(m, d), Num(n, e)) => i = m * n /\ j = d * e

LEMMA ProductThatFits ==
  ASSUME NEW m \in Int, NEW n \in Int, NEW d \in Nat, d > 0, NEW e \in Nat, e > 0,
         Fits(InLowestTerms("mul", Num(m, d), Num(n, e)))
  PROVE  \E i \in Int, j \in Nat : ProductBy(m, d, n, e, i, j)
<1> DEFINE x == Num(m, d)
           y == Num(n, e)
           how == How("exact", "never")
           f == InLowestTerms("mul", x, y)
<1>1. x.num = m /\ x.denom = d /\ y.num = n /\ y.denom = e /\ how.rnd = "never" /\ how.type = "exact"
  BY DEF Num, How
<1>2. Valid(x) /\ Valid(y) /\ Whole(x) = x /\ Whole(y) = y
  BY <1>1 DEF Valid, Whole
<1> HIDE DEF x, y, how
<1> DEFINE c == IF TooBig(x, y) THEN CrossReduced(x, y) ELSE <<x, y>>
<1>3. PICK a \in Int, b \in Int, p \in Nat, s \in Nat :
        /\ c = << Num(a, p), Num(b, s) >> /\ p > 0 /\ s > 0
        /\ (a * b) * (d * e) = (m * n) * (p * s)
        /\ ~TooBig(x, y) => a * b = m * n /\ p * s = d * e
  <2>1. CASE TooBig(x, y)
    <3>1. PICK a \in Int, b \in Int, p \in Nat, s \in Nat :
            SameProductBy(CrossReduced(x, y), m, n, d, e, a, b, p, s)
      BY CrossReducedIs DEF x, y
    <3>2. /\ c = << Num(a, p), Num(b, s) >> /\ p > 0 /\ s > 0
          /\ (a * b) * (d * e) = (m * n) * (p * s)
      BY <2>1, <3>1 DEF SameProductBy
    <3> HIDE DEF c
    <3> QED
      BY <2>1, <3>2
  <2>2. CASE ~TooBig(x, y)
    <3>1. c = << Num(m, d), Num(n, e) >>
      BY <2>2 DEF x, y
    <3> HIDE DEF c
    <3> QED
      BY <3>1
  <2> QED
    BY <2>1, <2>2
<1>4. f = << Mult128(c[1].num, c[2].num), Mult128(c[1].denom, c[2].denom) >>
  BY DEF InLowestTerms
<1>5. Fits(f)
  BY DEF x, y
<1> HIDE DEF c, f
<1>6. c[1].num = a /\ c[1].denom = p /\ c[2].num = b /\ c[2].denom = s
  BY <1>3 DEF Num
<1>7. ~Big(Mult128(a, b)) /\ ~Big(Mult128(p, s))
  BY <1>4, <1>5, <1>6 DEF Fits
<1> DEFINE i == a * b
           j == p * s
<1>8. Signed(Mult128(a, b)) = i /\ Mult128(p, s).mag = j /\ Size(i) < Half /\ j < Half
  <2>1. p \in Int /\ s \in Int /\ p >= 0 /\ s >= 0
    OBVIOUS
  <2>2. Mult128(p, s).mag = j /\ j \in Nat
    BY <2>1, SignedProduct, ProductOfNats
  <2> DEFINE l == Mult128(a, b)
  <2>3. l = [neg |-> l.neg, mag |-> l.mag] /\ l.neg \in BOOLEAN
    BY DEF Mult128
  <2>4. l.mag \in Nat /\ Signed(l) = i
    BY SignedProduct
  <2>5. ~(l.mag >= Half) /\ ~(j >= Half)
    <3> HIDE DEF j, l
    <3>1. ~Big(l)
      BY <1>7 DEF l
    <3> QED
      BY <1>7, <2>2, <3>1 DEF Big
  <2> HIDE DEF l, i, j
  <2>6. i = IF l.neg THEN -l.mag ELSE l.mag
    BY <2>3, <2>4, SignedIs
  <2>7. Size(i) = l.mag
    BY <2>3, <2>4, <2>6 DEF Size
  <2>8. Half \in Nat
    BY PowerFacts
  <2> QED
    BY <2>2, <2>4, <2>5, <2>7, <2>8 DEF l
<1>9. i \in Int /\ j \in Nat /\ j > 0 /\ i * (d * e) = (m * n) * j
  <2>1. p * s \in Nat /\ p * s >= p
    BY <1>3, ProductGrows
  <2> QED
    BY <1>3, <2>1
<1>10. ~TooBig(x, y) => i = m * n /\ j = d * e
  BY <1>3
<1> HIDE DEF i, j
<1>11. Multiply(x, y, "never") = Num(i, j)
  BY <1>6, <1>7, <1>8 DEF Multiply, Product, c
<1>12. Valid(Num(i, j))
  BY <1>9 DEF Valid, Num
<1>13. gnc_numeric_mul(x, y, DenomAuto, how) = gnc_numeric_convert(Num(i, j), DenomAuto, how)
  <2>1. ~Fixed(DenomAuto, how) /\ LcdTo(x, y, FixedTo(x, y, DenomAuto, how), how) = DenomAuto
    BY <1>1 DEF Fixed, LcdTo, FixedTo
  <2> QED
    BY <1>1, <1>2, <1>11, <1>12, <2>1 DEF gnc_numeric_mul
<1>14. gnc_numeric_convert(Num(i, j), DenomAuto, how) = Num(i, j)
  BY <1>1, <1>12 DEF gnc_numeric_convert
<1>15. gnc_numeric_mul(x, y, DenomAuto, how) = Num(i, j)
  BY <1>13, <1>14
<1>16. ProductBy(m, d, n, e, i, j)
  BY <1>8, <1>9, <1>10, <1>15 DEF x, y, how, ProductBy
<1> QED
  BY <1>9, <1>16

\* The reduction of an overlong fraction, where the remainder it starts from is
\* the true one.
LEMMA OverlongReduced ==
  ASSUME NEW v \in Int, NEW mag \in Nat, NEW d \in Nat, d > 0, d < Half,
         NEW f, f.mag = mag, Signed(f) = v, f = [neg |-> f.neg, mag |-> f.mag], f.neg \in BOOLEAN,
         Rem128(f, d) = mag % d, NEW n \in Int, NEW e \in Nat, v * e = n * d, d <= e
  PROVE  Found(Reduce128(f, d), n, e)
<1> DEFINE t == mag % d
           g == IF t > 0 THEN Gcf(d, t) ELSE d
           k == mag \div g
           j == d \div g
           q == mag \div d
           s == IF f.neg THEN -1 ELSE 1
<1>1. t \in 0..(d - 1) /\ q \in Nat /\ mag = q * d + t
  BY DivisionFacts
<1> HIDE DEF t, q
<1>2. g \in Nat /\ g > 0 /\ d % g = 0 /\ t % g = 0
  <2>1. CASE t > 0
    BY <1>1, <2>1, GcfDivides
  <2>2. CASE t = 0
    <3>1. (1 * d) % d = 0 /\ (0 * d) % d = 0 /\ 1 * d = d /\ 0 * d = 0
      BY MultipleDivided
    <3> QED
      BY <2>2, <3>1
  <2> QED
    BY <1>1, <2>1, <2>2
<1> HIDE DEF g
<1>3. j \in Nat /\ d = j * g /\ j <= d
  BY <1>2, DivisionFacts, ExactDivision
<1> HIDE DEF j
<1>4. k \in Nat /\ mag = k * g
  <2>1. PICK i \in Int : t = i * g
    <3>1. t \in Int /\ t \div g \in Int /\ t = (t \div g) * g
      BY <1>1, <1>2, DivisionFacts, ExactDivision
    <3> QED
      BY <3>1
  <2>2. mag = (q * j + i) * g
    <3>1. (q * j + i) * g = q * (j * g) + i * g
      BY <1>1, <1>2, <1>3, <2>1
    <3> QED
      BY <1>1, <1>3, <2>1, <3>1
  <2> DEFINE c == q * j + i
  <2>3. c \in Int
    BY <1>1, <1>3, <2>1
  <2> HIDE DEF c
  <2>4. (c * g) \div g = c
    BY <1>2, <2>3, MultipleDivided
  <2>5. k = c /\ mag = c * g
    BY <2>2, <2>4 DEF c
  <2>6. mag >= 0 => k \in Nat
    BY <1>2, DivisionFacts
  <2> QED
    BY <2>5, <2>6
<1> HIDE DEF k
<1>5. j > 0
  <2>1. j = 0 => j * g = 0
    BY <1>2
  <2> QED
    BY <1>3, <2>1
<1>6. Reduce128(f, d) = IF k >= Half THEN Error(ErrorOverflow) ELSE Num(s * k, j)
  <2>1. Div128(f, g) = [neg |-> f.neg, mag |-> k]
    BY DEF Div128, k
  <2>2. Signed([neg |-> f.neg, mag |-> k]) = s * k
    BY <1>4, SignedIs
  <2>3. Reduce128(f, d) = IF Big(Div128(f, g)) THEN Error(ErrorOverflow)
                          ELSE Num(Signed(Div128(f, g)), j)
    BY DEF Reduce128, g, j, t
  <2>4. Big(Div128(f, g)) <=> k >= Half
    BY <2>1 DEF Big
  <2> QED
    BY <2>1, <2>2, <2>3, <2>4
<1>7. v = s * (k * g)
  <2>1. Signed([neg |-> f.neg, mag |-> mag]) = IF f.neg THEN -mag ELSE mag
    BY SignedIs
  <2>2. v = s * mag
    BY <2>1
  <2> HIDE DEF s
  <2> QED
    BY <1>4, <2>2
<1>8. s \in {1, -1}
  OBVIOUS
<1> HIDE DEF s
<1>9. (s * k) * e = n * j
  <2>1. ((s * k) * e) * g = v * e
    <3>1. ((s * k) * e) * g = (s * (k * g)) * e
      BY <1>2, <1>4, <1>8
    <3> QED
      BY <1>7, <3>1
  <2>2. (n * j) * g = n * d
    BY <1>2, <1>3
  <2>3. (s * k) * e \in Int /\ n * j \in Int
    BY <1>3, <1>4, <1>8
  <2> QED
    BY <1>2, <2>1, <2>2, <2>3, Cancelled
<1>10. s * k \in Int /\ j < Half /\ j <= e
  BY <1>3, <1>4, <1>8, PowerFacts
<1>11. ~Valid(Error(ErrorOverflow))
  BY DEF Valid, Error, Num
<1> DEFINE u == s * k
<1> HIDE DEF u
<1>12. Reduce128(f, d) = Num(u, j) \/ ~Valid(Reduce128(f, d))
  BY <1>6, <1>11 DEF u
<1>13. u \in Int /\ u * e = n * j
  BY <1>9, <1>10 DEF u
<1> QED
  BY <1>3, <1>5, <1>10, <1>12, <1>13 DEF Found

LEMMA ProductIsFound ==
  ASSUME NEW m \in Int, NEW n \in Int, NEW d \in Nat, d > 0, NEW e \in Nat, e > 0, NEW rnd,
         LET f == InLowestTerms("mul", Num(m, d), Num(n, e))
         IN Fits(f) \/ (rnd = "never" /\ ~Straddles(f))
  PROVE  Found(Multiply(Num(m, d), Num(n, e), rnd), m * n, d * e)
<1> DEFINE x == Num(m, d)
           y == Num(n, e)
           c == IF TooBig(x, y) THEN CrossReduced(x, y) ELSE <<x, y>>
<1>1. PICK a \in Int, b \in Int, p \in Nat, s \in Nat :
        /\ c = << Num(a, p), Num(b, s) >>
        /\ p > 0 /\ s > 0 /\ p * s <= d * e
        /\ (a * b) * (d * e) = (m * n) * (p * s)
  <2>1. CASE TooBig(x, y)
    <3>1. PICK a \in Int, b \in Int, p \in Nat, s \in Nat : SameProductBy(c, m, n, d, e, a, b, p, s)
      BY <2>1, CrossReducedIs
    <3> HIDE DEF c
    <3> QED
      BY <3>1 DEF SameProductBy
  <2>2. CASE ~TooBig(x, y)
    <3>1. d * e \in Nat
      BY ProductOfNats
    <3> DEFINE P(a, b, p, s) == /\ c = << Num(a, p), Num(b, s) >>
                                /\ p > 0 /\ s > 0 /\ p * s <= d * e
                                /\ (a * b) * (d * e) = (m * n) * (p * s)
    <3>2. c = << Num(m, d), Num(n, e) >>
      BY <2>2
    <3> HIDE DEF c
    <3>3. P(m, n, d, e)
      BY <3>1, <3>2
    <3> QED
      BY <3>3
  <2> QED
    BY <2>1, <2>2
<1> DEFINE f == Mult128(c[1].num, c[2].num)
           g == Mult128(c[1].denom, c[2].denom)
<1>2. Fits(<<f, g>>) \/ (rnd = "never" /\ ~Straddles(<<f, g>>))
  <2> HIDE DEF c
  <2>1. InLowestTerms("mul", x, y) = <<f, g>>
    BY DEF InLowestTerms, c
  <2> QED
    BY <2>1
<1>3. Multiply(x, y, rnd) = Product(c, rnd)
  BY DEF Multiply
<1> HIDE DEF c
<1>4. c[1].num = a /\ c[1].denom = p /\ c[2].num = b /\ c[2].denom = s
  BY <1>1 DEF Num
<1>5. Product(c, rnd) = CASE ~Big(f) /\ ~Big(g) -> Num(Signed(f), g.mag)
                          [] (Big(f) \/ Big(g)) /\ rnd = "never" ->
                               IF Big(g) THEN Error(ErrorOverflow) ELSE Reduce128(f, g.mag)
                          [] OTHER -> Shifted(f, g)
  BY DEF Product
<1>6. /\ Signed(f) = a * b /\ g.mag = p * s /\ f.mag \in Nat
      /\ f = [neg |-> f.neg, mag |-> f.mag] /\ f.neg \in BOOLEAN
  <2>1. p \in Int /\ s \in Int /\ p >= 0 /\ s >= 0
    OBVIOUS
  <2>2. Mult128(a, b) = [neg |-> Mult128(a, b).neg, mag |-> Mult128(a, b).mag]
        /\ Mult128(a, b).neg \in BOOLEAN
    BY DEF Mult128
  <2> QED
    BY <1>4, <2>1, <2>2, SignedProduct
<1>7. a * b \in Int /\ p * s \in Nat /\ p * s > 0 /\ p * s <= d * e
  <2>1. p * s \in Nat /\ p * s >= p
    BY <1>1, ProductGrows
  <2> QED
    BY <1>1, <2>1
<1> DEFINE u == m * n
           w == d * e
           v == a * b
           k == p * s
           r == Multiply(x, y, rnd)
<1>8. /\ v \in Int /\ k \in Nat /\ k > 0 /\ k <= w /\ v * w = u * k /\ u \in Int /\ w \in Nat
      /\ Signed(f) = v /\ g.mag = k
  BY <1>1, <1>6, <1>7, ProductOfNats
<1> HIDE DEF x, y, u, w, v, k, f, g
<1>9. CASE ~Big(f) /\ ~Big(g)
  <2>1. r = Num(v, k)
    BY <1>3, <1>5, <1>8, <1>9
  <2>2. k < Half
    BY <1>8, <1>9, PowerFacts DEF Big
  <2> HIDE DEF r
  <2> QED
    BY <1>8, <2>1, <2>2 DEF Found, r, u, w, x, y
<1>10. CASE Big(f) \/ Big(g)
  <2>1. rnd = "never" /\ ~Straddles(<<f, g>>)
    BY <1>2, <1>10 DEF Fits
  <2>2. CASE Big(g)
    <3>1. r = Error(ErrorOverflow)
      BY <1>3, <1>5, <1>10, <2>1, <2>2
    <3> HIDE DEF r
    <3> QED
      BY <3>1 DEF Found, Valid, Error, Num, r, u, w, x, y
  <2>3. CASE ~Big(g)
    <3>1. r = Reduce128(f, k)
      BY <1>3, <1>5, <1>8, <1>10, <2>1, <2>3
    <3>2. Rem128(f, k) = f.mag % k
      BY <1>8, <1>10, <2>1, <2>3 DEF Straddles
    <3>3. k < Half
      BY <1>8, <2>3, PowerFacts DEF Big
    <3>4. Found(Reduce128(f, k), u, w)
      BY <1>6, <1>8, <3>2, <3>3, OverlongReduced
    <3> QED
      BY <3>1, <3>4 DEF u, w, x, y
  <2> QED
    BY <2>2, <2>3
<1> QED
  BY <1>9, <1>10

\* Two fractions whose quotient is that of m over d and n over e
SameRatio(f, m, n, d, e) ==
  \E a \in Nat, c \in Nat, b \in Nat, p \in Nat :
    /\ f = << Mult128(a, c), Mult128(b, p) >>
    /\ b > 0 /\ p > 0 /\ b * p <= n * d
    /\ (a * c) * (n * d) = (m * e) * (b * p)

LEMMA RatioIs ==
  ASSUME NEW m \in Nat, NEW n \in Nat, n > 0, NEW d \in Nat, d > 0, NEW e \in Nat, e > 0
  PROVE  SameRatio(Ratio(Num(m, d), Num(n, e)), m, n, d, e)
<1> DEFINE x == Num(m, d)
           y == Num(n, e)
           f == Ratio(x, y)
           rx == gnc_numeric_reduce(x)
           ry == gnc_numeric_reduce(y)
           fn == Gcf(rx.num, ry.num)
           fd == Gcf(ry.denom, rx.denom)
           plain == << Mult128(m, e), Mult128(n, d) >>
           short == << Mult128(rx.num \div fn, ry.denom \div fd),
                       Mult128(ry.num \div fn, rx.denom \div fd) >>
<1>1. f = short \/ f = plain
  <2>1. x.num = m /\ x.denom = d /\ y.num = n /\ y.denom = e
    BY DEF Num
  <2> HIDE DEF x, y
  <2> QED
    BY <2>1 DEF Ratio
<1> HIDE DEF f
<1>2. CASE f = plain
  <2>1. n * d \in Nat
    BY ProductOfNats
  <2>2. f = << Mult128(m, e), Mult128(n, d) >> /\ n * d <= n * d
        /\ (m * e) * (n * d) = (m * e) * (n * d)
    BY <1>2, <2>1
  <2>3. SameRatio(f, m, n, d, e)
    BY <2>2 DEF SameRatio
  <2> QED
    BY <2>3 DEF f
<1>3. CASE f = short
  <2>0. m \in Int /\ n \in Int
    OBVIOUS
  <2>1. PICK g \in Nat, i \in Int, p \in Nat : ReducedBy(m, d, g, i, p)
    BY <2>0, ReducedFraction
  <2>2. PICK h \in Nat, j \in Int, s \in Nat : ReducedBy(n, e, h, j, s)
    BY <2>0, ReducedFraction
  <2>3. /\ g > 0 /\ p > 0 /\ m = i * g /\ d = p * g /\ p <= d /\ rx = Num(i, p)
        /\ h > 0 /\ s > 0 /\ n = j * h /\ e = s * h /\ s <= e /\ j > 0 /\ ry = Num(j, s)
    BY <2>1, <2>2 DEF ReducedBy
  <2>4. i \in Nat /\ j \in Nat
    <3>1. i < 0 => -i \in Nat /\ (-i) * g >= -i
      BY <2>3, ProductGrows
    <3>2. (-i) * g = -(i * g)
      OBVIOUS
    <3> QED
      BY <2>3, <3>1, <3>2
  <2>5. rx.num = i /\ rx.denom = p /\ ry.num = j /\ ry.denom = s
    BY <2>3 DEF Num
  <2> DEFINE a == i \div fn
             b == j \div fn
             c == s \div fd
             t == p \div fd
  <2>6. fn = Gcf(i, j) /\ fd = Gcf(s, p)
    BY <2>5
  <2>7. fn \in Nat /\ fn > 0 /\ i % fn = 0 /\ j % fn = 0
    BY <2>3, <2>4, <2>6, GcfDivides
  <2>8. fd \in Nat /\ fd > 0 /\ s % fd = 0 /\ p % fd = 0
    BY <2>3, <2>6, GcfDivides
  <2>9. f = << Mult128(a, c), Mult128(b, t) >>
    BY <1>3, <2>5
  <2> HIDE DEF fn, fd, rx, ry, short
  <2>10. /\ a \in Nat /\ i = a * fn /\ b \in Nat /\ b <= j /\ j = b * fn
         /\ c \in Nat /\ s = c * fd /\ t \in Nat /\ t <= p /\ p = t * fd
    <3>1. i \in Int /\ i >= 0 /\ j \in Int /\ j >= 0 /\ s \in Int /\ s >= 0 /\ p \in Int /\ p >= 0
      BY <2>4
    <3>2. a \in Nat /\ i = a * fn
      BY <2>7, <3>1, DivisionFacts, ExactDivision
    <3>3. b \in Nat /\ b <= j /\ j = b * fn
      BY <2>7, <3>1, DivisionFacts, ExactDivision
    <3>4. c \in Nat /\ s = c * fd
      BY <2>8, <3>1, DivisionFacts, ExactDivision
    <3>5. t \in Nat /\ t <= p /\ p = t * fd
      BY <2>8, <3>1, DivisionFacts, ExactDivision
    <3> QED
      BY <3>2, <3>3, <3>4, <3>5
  <2> HIDE DEF a, b, c, t
  <2>11. b > 0 /\ t > 0
    <3>1. (b = 0 => b * fn = 0) /\ (t = 0 => t * fd = 0)
      BY <2>7, <2>8
    <3> QED
      BY <2>3, <2>10, <3>1
  <2>12. b * t <= n * d
    <3>1. j <= n
      BY <2>3, <2>4, ProductGrows
    <3>2. b <= n /\ t <= d
      BY <2>3, <2>4, <2>10, <3>1
    <3> QED
      BY <2>10, <3>2, ProductsOrdered
  <2>13. (a * c) * (n * d) = (m * e) * (b * t)
    <3>1. /\ m = (a * fn) * g /\ d = (t * fd) * g
          /\ n = (b * fn) * h /\ e = (c * fd) * h
      BY <2>3, <2>10
    <3>2. (a * c) * (((b * fn) * h) * ((t * fd) * g)) = (((a * fn) * g) * ((c * fd) * h)) * (b * t)
      BY <2>7, <2>8, <2>10
    <3> QED
      BY <3>1, <3>2
  <2>14. SameRatio(f, m, n, d, e)
    BY <2>9, <2>10, <2>11, <2>12, <2>13 DEF SameRatio
  <2> QED
    BY <2>14 DEF f
<1> QED
  BY <1>1, <1>2, <1>3

LEMMA QuotientIsFound ==
  ASSUME NEW m \in Int, NEW n \in Int, n # 0, Size(n) < Half,
         NEW d \in Nat, d > 0, NEW e \in Nat, e > 0, NEW rnd,
         LET f == InLowestTerms("div", Num(m, d), Num(n, e))
         IN Fits(f) \/ (rnd = "never" /\ ~Straddles(f))
  PROVE  Found(Divide(Num(m, d), Num(n, e), rnd), (SignOf(n) * m) * e, Size(n) * d)
<1> DEFINE x == Num(m, d)
           y == Num(n, e)
           mm == Size(m)
           nn == Size(n)
           s == SignOf(m)
           t == SignOf(n)
           ratio == Ratio(Num(mm, d), Num(nn, e))
           r == Divide(x, y, rnd)
           u == (t * m) * e
           w == nn * d
<1>1. x.num = m /\ x.denom = d /\ y.num = n /\ y.denom = e
  BY DEF Num
<1>2. /\ mm \in Nat /\ s \in {1, -1} /\ m = s * mm
      /\ nn \in Nat /\ nn > 0 /\ nn < Half /\ t \in {1, -1} /\ n = t * nn
  BY DEF Size, SignOf
<1> HIDE DEF mm, nn, s, t
<1>3. t * m \in Int /\ u \in Int /\ w \in Nat /\ nn <= w
  <2>1. nn * d \in Nat /\ nn <= nn * d
    BY <1>2, ProductGrows
  <2>2. t * m \in Int
    BY <1>2
  <2> DEFINE z == t * m
  <2>3. z \in Int /\ u = z * e
    BY <2>2
  <2> HIDE DEF z, u
  <2>4. z * e \in Int
    BY <2>3
  <2> QED
    BY <2>1, <2>2, <2>3, <2>4
<1>4. CASE d = e
  <2>1. r = Num(t * m, nn)
    BY <1>1, <1>4 DEF Divide, t, nn
  <2>2. (t * m) * w = u * nn
    <3> DEFINE z == t * m
    <3>1. z \in Int
      BY <1>3
    <3> HIDE DEF z
    <3>2. z * (nn * d) = (z * d) * nn
      BY <1>2, <3>1
    <3> QED
      BY <1>4, <3>2 DEF z
  <2> HIDE DEF u, w, r
  <2>3. Found(r, u, w)
    BY <1>2, <1>3, <2>1, <2>2 DEF Found
  <2> QED
    BY <2>3 DEF r, u, w, t, nn
<1>5. CASE d # e
  <2>1. PICK a \in Nat, c \in Nat, b \in Nat, p \in Nat :
          /\ ratio = << Mult128(a, c), Mult128(b, p) >>
          /\ b > 0 /\ p > 0 /\ b * p <= nn * d
          /\ (a * c) * (nn * d) = (mm * e) * (b * p)
    <3> HIDE DEF ratio
    <3>1. SameRatio(ratio, mm, nn, d, e)
      BY <1>2, RatioIs DEF ratio
    <3> QED
      BY <3>1 DEF SameRatio
  <2> DEFINE nume == ratio[1]
             deno == ratio[2]
             q == Quotient(ratio, rnd)
             v == a * c
             k == b * p
             l == mm * e
  <2>2. /\ v \in Nat /\ k \in Nat /\ k > 0 /\ k <= w /\ l \in Nat /\ v * w = l * k
    <3>1. k \in Nat /\ k >= b
      BY <2>1, ProductGrows
    <3>2. v \in Nat /\ l \in Nat
      BY <1>2, ProductOfNats
    <3> QED
      BY <2>1, <3>1, <3>2
  <2>3. /\ Signed(nume) = v /\ nume.mag = v /\ deno.mag = k
        /\ nume = [neg |-> nume.neg, mag |-> nume.mag] /\ nume.neg \in BOOLEAN
    <3>1. a \in Int /\ c \in Int /\ b \in Int /\ p \in Int /\ a >= 0 /\ c >= 0 /\ b >= 0 /\ p >= 0
      OBVIOUS
    <3>2. ratio[1] = Mult128(a, c) /\ ratio[2] = Mult128(b, p)
      BY <2>1
    <3>3. Mult128(a, c) = [neg |-> Mult128(a, c).neg, mag |-> Mult128(a, c).mag]
          /\ Mult128(a, c).neg \in BOOLEAN
      BY DEF Mult128
    <3> HIDE DEF ratio
    <3> QED
      BY <3>1, <3>2, <3>3, SignedProduct
  <2>4. Fits(ratio) \/ (rnd = "never" /\ ~Straddles(ratio))
    <3>1. InLowestTerms("div", x, y) = ratio
      BY <1>1 DEF InLowestTerms, mm, nn
    <3> HIDE DEF ratio
    <3> QED
      BY <3>1
  <2>5. r = IF Valid(q) THEN Num((s * t) * q.num, q.denom) ELSE Error(ErrorOverflow)
    BY <1>1, <1>5 DEF Divide, s, t, mm, nn
  <2>6. q = CASE ~Big(nume) /\ ~Big(deno) -> Num(nume.mag, deno.mag)
              [] Big(nume) /\ ~Big(deno) /\ Valid(Reduce128(nume, deno.mag)) ->
                   Reduce128(nume, deno.mag)
              [] OTHER -> IF rnd = "never" THEN Error(ErrorOverflow) ELSE Shifted(nume, deno)
    BY DEF Quotient
  <2> HIDE DEF ratio, q, nume, deno, r, v, k, l, u, w
  <2>7. Found(q, l, w)
    <3>1. ~Valid(Error(ErrorOverflow))
      BY DEF Valid, Error, Num
    <3>2. CASE ~Big(nume) /\ ~Big(deno)
      <4>1. q = Num(v, k) /\ k < Half
        BY <2>2, <2>3, <2>6, <3>2, PowerFacts DEF Big
      <4> QED
        BY <2>2, <4>1 DEF Found
    <3>3. CASE Big(nume) \/ Big(deno)
      <4>1. rnd = "never" /\ ~Straddles(ratio)
        BY <2>4, <3>3 DEF Fits, nume, deno
      <4>2. CASE ~Valid(q)
        BY <4>2 DEF Found
      <4>3. CASE Valid(q)
        <5>1. Big(nume) /\ ~Big(deno) /\ q = Reduce128(nume, k)
          BY <2>3, <2>6, <3>1, <3>3, <4>1, <4>3
        <5>2. k < Half
          BY <2>2, <2>3, <5>1, PowerFacts DEF Big
        <5>3. Rem128(nume, k) = v % k
          BY <2>3, <4>1, <5>1 DEF Straddles, nume, deno
        <5>4. v \in Int /\ l \in Int /\ w \in Nat
          BY <1>3, <2>2
        <5>5. Found(Reduce128(nume, k), l, w)
          BY <2>2, <2>3, <5>2, <5>3, <5>4, OverlongReduced
        <5> QED
          BY <5>1, <5>5
      <4> QED
        BY <4>2, <4>3
    <3> QED
      BY <3>2, <3>3
  <2>8. Found(r, u, w)
    <3>1. ~Valid(Error(ErrorOverflow))
      BY DEF Valid, Error, Num
    <3>2. CASE ~Valid(q)
      BY <2>5, <3>1, <3>2 DEF Found
    <3>3. CASE Valid(q)
      <4>1. PICK i \in Int, j \in Nat : j > 0 /\ j < Half /\ j <= w /\ q = Num(i, j) /\ i * w = l * j
        BY <2>7, <3>3 DEF Found
      <4> DEFINE z == (s * t) * i
      <4>2. r = Num(z, j) /\ z \in Int
        <5>1. q.num = i /\ q.denom = j
          BY <4>1 DEF Num
        <5> QED
          BY <1>2, <2>5, <3>3, <5>1
      <4>3. z * w = u * j
        <5>1. z * w = (s * t) * (i * w)
          BY <1>2, <1>3
        <5>2. u * j = (s * t) * (l * j)
          <6>1. u = (s * t) * l
            <7>1. (t * (s * mm)) * e = (s * t) * (mm * e)
              BY <1>2
            <7> QED
              BY <1>2, <7>1 DEF u, l
          <6> QED
            BY <1>2, <2>2, <6>1
        <5> QED
          BY <4>1, <5>1, <5>2
      <4> HIDE DEF z
      <4> QED
        BY <4>1, <4>2, <4>3 DEF Found
    <3> QED
      BY <3>2, <3>3
  <2> QED
    BY <2>8 DEF r, u, w, t, nn
<1> QED
  BY <1>4, <1>5

LEMMA FoundIsRounded ==
  ASSUME NEW r, NEW n \in Int, NEW e \in Nat, e > 0, e < Quarter, Found(r, n, e),
         NEW denom \in Nat, denom > 0, NEW rnd \in Roundings, NEW res,
         Valid(r) => res = gnc_numeric_convert(r, denom, How("exact", rnd)),
         ~Valid(r) => ~Valid(res)
  PROVE  IsRounded(res, Num(n, e), denom, rnd)
<1>1. CASE ~Valid(r)
  BY <1>1, ErrorsCount
<1>2. CASE Valid(r)
  <2>1. PICK m \in Int, d \in Nat : d > 0 /\ d < Quarter /\ r = Num(m, d) /\ m * e = n * d
    BY <1>2, PowerFacts DEF Found
  <2>2. IsRounded(gnc_numeric_convert(Num(m, d), denom, How("exact", rnd)), Num(n, e), denom, rnd)
    BY <2>1, OnceRounded
  <2> QED
    BY <1>2, <2>1, <2>2
<1> QED
  BY <1>1, <1>2

LEMMA OperationIsRounded ==
  ASSUME NEW m \in Int, NEW n \in Int, Size(n) < Half,
         NEW d \in Nat, d > 0, d < Half, NEW e \in Nat, e > 0, e < Half,
         NEW op \in Operations, NEW denom \in Nat, denom > 0, NEW rnd \in Roundings,
         Fits(InLowestTerms(op, Num(m, d), Num(n, e))), SumFits(op, Num(m, d), Num(n, e)),
         op = "div" => n # 0, Exact(op, Num(m, d), Num(n, e)).denom < Quarter
  PROVE  IsRounded(Apply(op, Num(m, d), Num(n, e), denom, How("exact", rnd)),
                   Exact(op, Num(m, d), Num(n, e)), denom, rnd)
<1> DEFINE x == Num(m, d)
           y == Num(n, e)
           how == How("exact", rnd)
           res == Apply(op, x, y, denom, how)
           mi == -n
           z == Num(mi, e)
<1>1. /\ x.num = m /\ x.denom = d /\ y.num = n /\ y.denom = e /\ z.num = mi /\ z.denom = e
      /\ how.type = "exact" /\ how.rnd = rnd /\ mi \in Int
  BY DEF Num, How
<1>2. /\ Valid(x) /\ Valid(y) /\ Valid(z) /\ Whole(x) = x /\ Whole(y) = y /\ Whole(z) = z
      /\ ~Fixed(denom, how)
      /\ \A u, v : FixedTo(u, v, denom, how) = denom /\ LcdTo(u, v, denom, how) = denom
  BY <1>1 DEF Valid, Whole, Fixed, FixedTo, LcdTo, DenomAuto
<1>3. ~Valid(Error(ErrorOverflow))
  BY DEF Valid, Error, Num
<1>4. d * e \in Nat /\ d * e > 0
  BY ProductGrows
<1> HIDE DEF x, y, z, mi, how
<1>5. \A v : Valid(v) /\ Whole(v) = v =>
         gnc_numeric_add(x, v, denom, how)
           = IF Valid(Sum(x, v)) THEN gnc_numeric_convert(Sum(x, v), denom, how) ELSE Sum(x, v)
  BY <1>2 DEF gnc_numeric_add, AddUp
<1>6. CASE op = "add"
  <2>1. Exact(op, x, y) = Num(m * e + n * d, d * e)
    BY <1>1, <1>6 DEF Exact
  <2>2. d * e < Quarter
    <3>1. Exact(op, x, y).denom = d * e
      BY <2>1 DEF Num
    <3> QED
      BY <3>1 DEF x, y
  <2>3. d = e => Size(m + n) < Half
    <3>1. SumFits(op, x, y)
      BY DEF x, y
    <3> QED
      BY <1>1, <1>6, <3>1 DEF SumFits
  <2>4. Found(Sum(x, y), m * e + n * d, d * e)
    BY <2>3, SumFound DEF x, y
  <2>5. res = IF Valid(Sum(x, y)) THEN gnc_numeric_convert(Sum(x, y), denom, how) ELSE Sum(x, y)
    BY <1>2, <1>5, <1>6 DEF Apply
  <2> DEFINE u == m * e + n * d
             w == d * e
             r == Sum(x, y)
  <2>6. u \in Int /\ w \in Nat /\ w > 0 /\ w < Quarter /\ Found(r, u, w)
        /\ (Valid(r) => res = gnc_numeric_convert(r, denom, How("exact", rnd)))
        /\ (~Valid(r) => ~Valid(res))
    BY <1>4, <2>2, <2>4, <2>5 DEF how
  <2> HIDE DEF u, w, r, res
  <2>7. IsRounded(res, Num(u, w), denom, rnd)
    BY <2>6, FoundIsRounded
  <2> QED
    BY <2>1, <2>7 DEF u, w, res, x, y, how
<1>7. CASE op = "sub"
  <2>1. Exact(op, x, y) = Num(m * e - n * d, d * e)
    BY <1>1, <1>7 DEF Exact
  <2>2. d * e < Quarter
    <3>1. Exact(op, x, y).denom = d * e
      BY <2>1 DEF Num
    <3> QED
      BY <3>1 DEF x, y
  <2>3. d = e => Size(m + mi) < Half
    <3>1. SumFits(op, x, y)
      BY DEF x, y
    <3>2. m - n = m + mi
      BY DEF mi
    <3> QED
      BY <1>1, <1>7, <3>1, <3>2 DEF SumFits
  <2>4. Found(Sum(x, z), m * e + mi * d, d * e)
    BY <1>1, <2>3, SumFound DEF x, z
  <2>5. res = IF Valid(Sum(x, z)) THEN gnc_numeric_convert(Sum(x, z), denom, how) ELSE Sum(x, z)
    <3>1. res = gnc_numeric_add(x, Num(-y.num, y.denom), denom, how)
      BY <1>7 DEF Apply, gnc_numeric_sub
    <3>2. Num(-y.num, y.denom) = z
      BY <1>1 DEF z, mi
    <3> QED
      BY <1>2, <1>5, <3>1, <3>2
  <2> DEFINE u == m * e + mi * d
             w == d * e
             r == Sum(x, z)
  <2>6. u \in Int /\ w \in Nat /\ w > 0 /\ w < Quarter /\ Found(r, u, w)
        /\ (Valid(r) => res = gnc_numeric_convert(r, denom, How("exact", rnd)))
        /\ (~Valid(r) => ~Valid(res))
    BY <1>1, <1>4, <2>2, <2>4, <2>5 DEF how
  <2>7. m * e - n * d = u
    <3>1. (-n) * d = -(n * d)
      OBVIOUS
    <3> QED
      BY <3>1 DEF mi
  <2> HIDE DEF u, w, r, res
  <2>8. IsRounded(res, Num(u, w), denom, rnd)
    BY <2>6, FoundIsRounded
  <2> QED
    BY <2>1, <2>7, <2>8 DEF w, res, x, y, how
<1>8. CASE op = "mul"
  <2>1. Exact(op, x, y) = Num(m * n, d * e)
    BY <1>1, <1>8 DEF Exact
  <2>2. d * e < Quarter
    <3>1. Exact(op, x, y).denom = d * e
      BY <2>1 DEF Num
    <3> QED
      BY <3>1 DEF x, y
  <2> DEFINE u == m * n
             w == d * e
             r == Multiply(x, y, rnd)
  <2>3. Found(r, u, w)
    <3>1. Fits(InLowestTerms("mul", Num(m, d), Num(n, e)))
      BY <1>8
    <3> QED
      BY <3>1, ProductIsFound DEF x, y
  <2>4. res = IF Valid(r) THEN gnc_numeric_convert(r, denom, how) ELSE Error(ErrorOverflow)
    <3>1. res = gnc_numeric_mul(x, y, denom, how)
      BY <1>8 DEF Apply
    <3> HIDE DEF res
    <3> QED
      BY <1>1, <1>2, <3>1 DEF gnc_numeric_mul
  <2>5. u \in Int /\ w \in Nat /\ w > 0 /\ w < Quarter
        /\ (Valid(r) => res = gnc_numeric_convert(r, denom, How("exact", rnd)))
        /\ (~Valid(r) => ~Valid(res))
    BY <1>3, <1>4, <2>2, <2>4 DEF how
  <2> HIDE DEF u, w, r, res
  <2>6. IsRounded(res, Num(u, w), denom, rnd)
    BY <2>3, <2>5, FoundIsRounded
  <2> QED
    BY <2>1, <2>6 DEF u, w, res, x, y, how
<1>9. CASE op = "div"
  <2> DEFINE u == (SignOf(n) * m) * e
             w == Size(n) * d
             r == Divide(x, y, rnd)
  <2>1. Exact(op, x, y) = Num(u, w)
    BY <1>1, <1>9 DEF Exact
  <2>2. w < Quarter
    <3>1. Exact(op, x, y).denom = w
      BY <2>1 DEF Num
    <3> QED
      BY <3>1 DEF x, y
  <2>3. Found(r, u, w)
    <3>1. Fits(InLowestTerms("div", Num(m, d), Num(n, e))) /\ n # 0
      BY <1>9
    <3> QED
      BY <3>1, QuotientIsFound DEF x, y
  <2>4. res = IF Valid(r) THEN gnc_numeric_convert(r, denom, how) ELSE r
    <3>1. res = gnc_numeric_div(x, y, denom, how)
      BY <1>9 DEF Apply
    <3> HIDE DEF res
    <3>2. y.num # 0
      BY <1>1, <1>9
    <3> QED
      BY <1>1, <1>2, <3>1, <3>2 DEF gnc_numeric_div
  <2>5. u \in Int /\ w \in Nat /\ w > 0
    <3>1. Size(n) \in Nat /\ Size(n) > 0 /\ SignOf(n) \in {1, -1}
      BY <1>9 DEF Size, SignOf
    <3>2. Size(n) * d \in Nat /\ Size(n) * d >= Size(n)
      BY <3>1, ProductGrows
    <3>3. SignOf(n) * m \in Int
      BY <3>1
    <3> QED
      BY <3>1, <3>2, <3>3
  <2>6. (Valid(r) => res = gnc_numeric_convert(r, denom, How("exact", rnd)))
        /\ (~Valid(r) => ~Valid(res))
    BY <2>4 DEF how
  <2> HIDE DEF u, w, r, res
  <2>7. IsRounded(res, Num(u, w), denom, rnd)
    BY <2>2, <2>3, <2>5, <2>6, FoundIsRounded
  <2> QED
    BY <2>1, <2>7 DEF res, x, y, how
<1> QED
  BY <1>6, <1>7, <1>8, <1>9 DEF Operations

LEMMA ConversionIsRounded ==
  ASSUME NEW m \in Int, Size(m) < Half, NEW d \in Nat, d > 0,
         NEW denom \in Int, denom # 0, NEW rnd \in Roundings, d * Max({1, -denom}) < Quarter
  PROVE  IsRounded(gnc_numeric_convert(Num(m, d), denom, How("exact", rnd)), Num(m, d), denom, rnd)
<1>1. \A i, j \in Int : i >= j => Max({j, i}) = i /\ Max({i, j}) = i
  BY DEF Max
<1>2. CASE denom > 0
  <2>1. Max({1, -denom}) = 1
    BY <1>1, <1>2
  <2>2. d < Quarter
    BY <2>1
  <2>3. denom \in Nat
    BY <1>2
  <2>4. m * d = m * d
    OBVIOUS
  <2> QED
    BY <1>2, <2>2, <2>3, <2>4, OnceRounded
<1>3. CASE denom < 0
  <2> DEFINE k == -denom
             to == RoundedTo(m, d * k, rnd)
             made == gnc_numeric_convert(Num(m, d), denom, How("exact", rnd))
  <2>1. k \in Nat /\ k > 0 /\ denom = -k /\ Max({1, -denom}) = k /\ ~(denom > 0)
    BY <1>1, <1>3
  <2>2. d * k < Quarter
    BY <2>1
  <2>3. Num(m, d).num = m /\ Num(m, d).denom = d
    BY DEF Num
  <2>4. Size(to) # Half => made = Num(to, denom)
    <3> HIDE DEF k
    <3> QED
      BY <2>1, <2>2, ConvertedDown
  <2>5. IsRounded(made, Num(m, d), denom, rnd) <=>
          (Valid(made) /\ Size(to) # Half => made = Num(to, denom))
    <3> HIDE DEF made
    <3> QED
      BY <2>1, <2>3 DEF IsRounded
  <2> QED
    BY <2>4, <2>5
<1> QED
  BY <1>2, <1>3

-----------------------------------------------------------------------------
(* The same where no rounding is allowed.                                  *)
LEMMA MadeOverExactly ==
  ASSUME NEW m \in Int, NEW d \in Nat, d > 0, d < Half, NEW denom \in Nat, denom > 0,
         Valid(ToDenominator(Num(m, d), denom, "never"))
  PROVE  \E k \in Int : ToDenominator(Num(m, d), denom, "never") = Num(k, denom)
                        /\ k * d = m * denom
<1>1. PICK g \in Nat, k \in Nat, e \in Nat, q \in Nat, r \in Nat, rem \in Int :
        g > 0 /\ denom = k * g /\ d = e * g /\ MadeBy(m, d, denom, "never", k, e, q, r, rem)
  BY MadeOverBy
<1> DEFINE n == m * k
           s == SignOf(n)
           made == ToDenominator(Num(m, d), denom, "never")
<1>2. /\ e > 0 /\ r < e /\ Size(n) = q * e + r /\ e < Half
      /\ rem = r \/ (rem = r - Half /\ r # 0)
      /\ made = Rounded(q, rem, Above(rem, e), Middle(rem, e), denom, s, "never")
  BY <1>1, PowerFacts DEF MadeBy
<1>3. rem = 0 <=> r = 0
  BY <1>2, PowerFacts
<1>4. made = IF rem # 0 THEN Error(ErrorRemainder) ELSE Num(s * q, denom)
  <2> HIDE DEF s
  <2> QED
    BY <1>2 DEF Rounded
<1>5. ~Valid(Error(ErrorRemainder))
  BY DEF Valid, Error, Num
<1> HIDE DEF made
<1>6. r = 0 /\ made = Num(s * q, denom)
  <2>1. Valid(made)
    BY DEF made
  <2> HIDE DEF s
  <2> QED
    BY <1>3, <1>4, <1>5, <2>1
<1>7. n \in Int
  BY <1>1
<1>8. s \in {1, -1} /\ n = s * Size(n)
  <2> HIDE DEF n
  <2> QED
    BY <1>7, SizeFacts
<1> HIDE DEF s
<1>9. n = (s * q) * e /\ s * q \in Int
  <2>1. n = s * (q * e)
    BY <1>1, <1>2, <1>6, <1>8
  <2> QED
    BY <1>1, <1>8, <2>1
<1>10. (s * q) * d = m * denom
  <2> DEFINE z == s * q
  <2>1. z \in Int /\ z * e = m * k
    BY <1>9
  <2> HIDE DEF z
  <2>2. z * (e * g) = (z * e) * g /\ m * (k * g) = (m * k) * g
    BY <1>1, <2>1
  <2> QED
    BY <1>1, <2>1, <2>2 DEF z
<1> QED
  BY <1>6, <1>9, <1>10 DEF made

\* An error, or a number with the value of n over e
Worth(r, n, e) ==
  Valid(r) => \E m \in Int, d \in Nat : d > 0 /\ r = Num(m, d) /\ m * e = n * d

LEMMA ConvertedExactly ==
  ASSUME NEW m \in Int, NEW d \in Nat, d > 0, d < Half, NEW type \in Denoms, NEW to \in Nat,
         to = DenomAuto => type # "lcd"
  PROVE  Worth(gnc_numeric_convert(Num(m, d), to, How(type, "never")), m, d)
<1> DEFINE how == How(type, "never")
           made == gnc_numeric_convert(Num(m, d), to, how)
<1>1. Num(m, d).num = m /\ Num(m, d).denom = d /\ how.rnd = "never" /\ how.type = type
  BY DEF Num, How
<1>2. Valid(Num(m, d)) /\ Whole(Num(m, d)) = Num(m, d) /\ ~(to < 0) /\ DenomAuto = 0
  BY <1>1 DEF Valid, DenomAuto, Whole
<1> HIDE DEF how
<1>3. made = IF to = 0
             THEN IF type = "reduce" THEN gnc_numeric_reduce(Num(m, d))
                  ELSE IF type = "fixed" THEN Error(ErrorDenomDiff) ELSE Num(m, d)
             ELSE IF d = to THEN Num(m, d)
                  ELSE IF m = 0 THEN Num(0, to) ELSE ToDenominator(Num(m, d), to, "never")
  BY <1>1, <1>2 DEF gnc_numeric_convert
<1>4. Worth(Num(m, d), m, d)
  <2>1. m * d = m * d
    OBVIOUS
  <2> QED
    BY <2>1 DEF Worth
<1>5. Worth(gnc_numeric_reduce(Num(m, d)), m, d)
  <2>a. PICK g \in Nat, k \in Int, e \in Nat : ReducedBy(m, d, g, k, e)
    BY ReducedFraction
  <2>1. /\ g > 0 /\ e > 0 /\ m = k * g /\ d = e * g
        /\ gnc_numeric_reduce(Num(m, d)) = Num(k, e)
    BY <2>a DEF ReducedBy
  <2>2. k * (e * g) = (k * g) * e
    BY <2>1
  <2>3. k * d = m * e
    BY <2>1, <2>2
  <2> QED
    BY <2>1, <2>3 DEF Worth
<1>6. m = 0 /\ to > 0 => Worth(Num(0, to), m, d)
  <2>1. 0 * d = 0 * to
    OBVIOUS
  <2> QED
    BY <2>1 DEF Worth
<1>7. to > 0 => Worth(ToDenominator(Num(m, d), to, "never"), m, d)
  BY MadeOverExactly DEF Worth
<1>8. Worth(Error(ErrorDenomDiff), m, d)
  BY DEF Worth, Valid, Error, Num
<1> QED
  BY <1>3, <1>4, <1>5, <1>6, <1>7, <1>8 DEF how

\* The value is that of the exact result if it is that of what was found.
LEMMA WorthTheSame ==
  ASSUME NEW r, NEW n \in Int, NEW e \in Nat, e > 0, Found(r, n, e),
         NEW type \in Denoms, NEW to \in Nat, to = DenomAuto => type # "lcd", NEW res,
         Valid(r) => res = gnc_numeric_convert(r, to, How(type, "never")),
         ~Valid(r) => ~Valid(res)
  PROVE  Worth(res, n, e)
<1>1. CASE ~Valid(res)
  BY <1>1 DEF Worth
<1>2. CASE Valid(res)
  <2>1. PICK m \in Int, d \in Nat : d > 0 /\ d < Half /\ r = Num(m, d) /\ m * e = n * d
    BY <1>2 DEF Found
  <2>2. Worth(res, m, d)
    BY <1>2, <2>1, ConvertedExactly
  <2>3. PICK k \in Int, c \in Nat : c > 0 /\ res = Num(k, c) /\ k * d = m * c
    BY <1>2, <2>2 DEF Worth
  <2>4. k * e = n * c
    <3>1. (k * e) * d = (k * d) * e /\ (n * c) * d = (n * d) * c /\ (m * c) * e = (m * e) * c
      OBVIOUS
    <3>2. (k * e) * d = (n * c) * d /\ k * e \in Int /\ n * c \in Int
      BY <2>1, <2>3, <3>1
    <3> QED
      BY <2>1, <3>2, Cancelled
  <2> QED
    BY <2>3, <2>4 DEF Worth
<1> QED
  BY <1>1, <1>2

LEMMA TargetIs ==
  ASSUME NEW m, NEW n, NEW d \in Nat, d > 0, d < Half, NEW e \in Nat, e > 0, e < Half,
         NEW type \in Denoms, type = "lcd" => ~NoLcd(Num(m, d), Num(n, e))
  PROVE  LET how == How(type, "never")
             x == Num(m, d)
             y == Num(n, e)
             to == LcdTo(x, y, FixedTo(x, y, DenomAuto, how), how)
         IN to \in Nat /\ (to = DenomAuto => type # "lcd") /\ (type = "fixed" => to = Common(x, y))
<1> DEFINE how == How(type, "never")
           x == Num(m, d)
           y == Num(n, e)
           to == LcdTo(x, y, FixedTo(x, y, DenomAuto, how), how)
<1>1. how.type = type /\ x.denom = d /\ y.denom = e /\ DenomAuto = 0
  BY DEF How, Num, DenomAuto
<1> HIDE DEF how, x, y
<1>2. Common(x, y) \in {d, e}
  BY <1>1 DEF Common
<1>3. FixedTo(x, y, DenomAuto, how) = IF type = "fixed" THEN Common(x, y) ELSE 0
  BY <1>1 DEF FixedTo, Fixed
<1>4. CASE type = "lcd"
  <2>1. to = gnc_numeric_lcd(x, y)
    BY <1>1, <1>3, <1>4 DEF LcdTo
  <2>2. to # ErrorArg
    BY <1>4, <2>1 DEF NoLcd, x, y
  <2>3. CASE d = e
    <3>1. to = d
      BY <1>1, <2>1, <2>3 DEF gnc_numeric_lcd
    <3> QED
      BY <1>1, <1>4, <3>1 DEF how, x, y
  <2>4. CASE d # e
    <3>1. to \in Nat /\ to > 0
      BY <2>1, <2>2, <2>4, LcdIs DEF x, y
    <3> HIDE DEF to
    <3>2. to # DenomAuto
      BY <1>1, <3>1
    <3> QED
      BY <1>4, <3>1, <3>2 DEF to, how, x, y
  <2> QED
    BY <2>3, <2>4
<1>5. CASE type = "fixed"
  <2>1. to = Common(x, y)
    BY <1>1, <1>2, <1>3, <1>5 DEF LcdTo
  <2> QED
    BY <1>1, <1>2, <1>5, <2>1 DEF how, x, y
<1>6. CASE type \notin {"lcd", "fixed"}
  <2>1. to = 0
    BY <1>1, <1>3, <1>6 DEF LcdTo
  <2> QED
    BY <1>6, <2>1 DEF how, x, y
<1> QED
  BY <1>4, <1>5, <1>6

LEMMA SumIsExact ==
  ASSUME NEW m \in Int, Size(m) < Half, NEW n \in Int, Size(n) < Half,
         NEW d \in Nat, d > 0, d < Half, NEW e \in Nat, e > 0, e < Half,
         d = e => Size(m + n) < Half,
         NEW type \in Denoms, type = "lcd" => ~NoLcd(Num(m, d), Num(n, e))
  PROVE  Worth(gnc_numeric_add(Num(m, d), Num(n, e), DenomAuto, How(type, "never")),
               m * e + n * d, d * e)
<1> DEFINE how == How(type, "never")
           x == Num(m, d)
           y == Num(n, e)
           res == gnc_numeric_add(x, y, DenomAuto, how)
           u == m * e + n * d
           w == d * e
<1>1. /\ x.num = m /\ x.denom = d /\ y.num = n /\ y.denom = e
      /\ how.type = type /\ DenomAuto = 0
  BY DEF How, Num, DenomAuto
<1>2. u \in Int /\ w \in Nat /\ w > 0 /\ d <= w /\ e <= w
  <2>1. d * e \in Nat /\ d * e >= d /\ e * d >= e /\ e * d = d * e
    BY ProductGrows
  <2> QED
    BY <2>1
<1>3. Valid(x) /\ Valid(y) /\ Whole(x) = x /\ Whole(y) = y
  BY <1>1 DEF Valid, Whole
<1> DEFINE to == LcdTo(x, y, FixedTo(x, y, DenomAuto, how), how)
<1>4. to \in Nat /\ (to = DenomAuto => type # "lcd") /\ (type = "fixed" => to = Common(x, y))
  BY TargetIs
<1>5. Fixed(DenomAuto, how) <=> type = "fixed"
  BY <1>1 DEF Fixed
<1>6. CASE type # "fixed"
  <2> DEFINE r == Sum(x, y)
  <2>1. Found(r, u, w)
    BY SumFound
  <2> HIDE DEF how, x, y
  <2>2. res = AddUp(x, y, FixedTo(x, y, DenomAuto, how), how)
    BY <1>3, <1>5, <1>6 DEF gnc_numeric_add
  <2>3. res = IF Valid(r) THEN gnc_numeric_convert(r, to, how) ELSE r
    BY <2>2 DEF AddUp
  <2>4. (Valid(r) => res = gnc_numeric_convert(r, to, How(type, "never")))
        /\ (~Valid(r) => ~Valid(res))
    BY <2>3 DEF how
  <2> HIDE DEF r, to, u, w, res
  <2>5. Worth(res, u, w)
    BY <1>2, <1>4, <2>1, <2>4, WorthTheSame
  <2> QED
    BY <2>5 DEF res, u, w, how, x, y
<1>7. CASE type = "fixed" /\ Differ(x, y)
  <2> HIDE DEF how, x, y
  <2>1. res = Error(ErrorDenomDiff)
    BY <1>3, <1>5, <1>7 DEF gnc_numeric_add
  <2> HIDE DEF res
  <2> QED
    BY <2>1 DEF Worth, Valid, Error, Num, res, how, x, y
<1>8. CASE type = "fixed" /\ ~Differ(x, y)
  <2> DEFINE c == Common(x, y)
             xx == Num(m, c)
             yy == Num(n, c)
             r == Sum(xx, yy)
  <2>1. c \in Nat /\ c > 0 /\ c < Half /\ c <= w /\ c = to
        /\ (d = e \/ (n = 0 /\ c = d) \/ (m = 0 /\ n # 0 /\ c = e)) /\ (d = e => c = d)
    <3> HIDE DEF x, y, w, to
    <3> QED
      BY <1>1, <1>2, <1>4, <1>8 DEF Common, Differ
  <2> HIDE DEF c, to
  <2>2. xx.num = m /\ xx.denom = c /\ yy.num = n /\ yy.denom = c
        /\ Valid(xx) /\ Valid(yy) /\ Whole(xx) = xx /\ Whole(yy) = yy
    BY <2>1 DEF Num, Valid, Whole
  <2>3. Wrap(m + n) = m + n
    <3> DEFINE v == m + n
    <3>1. v \in Int /\ -Half <= v /\ v < Half
      BY <2>1, PowerFacts DEF Size
    <3> HIDE DEF v
    <3>2. Wrap(v) = v
      BY <3>1, WrapIs
    <3> QED
      BY <3>2 DEF v
  <2> HIDE DEF xx, yy
  <2>4. r = Num(m + n, c)
    BY <2>2, <2>3 DEF Sum
  <2>5. (m + n) * w = u * c
    <3>1. d = e => (m + n) * (d * d) = (m * d + n * d) * d
      OBVIOUS
    <3>2. n = 0 => (m + n) * (d * e) = (m * e + n * d) * d
      <4>1. (m + 0) * (d * e) = (m * e + 0 * d) * d
        OBVIOUS
      <4> QED
        BY <4>1
    <3>3. m = 0 => (m + n) * (d * e) = (m * e + n * d) * e
      <4>1. (0 + n) * (d * e) = (0 * e + n * d) * e
        OBVIOUS
      <4> QED
        BY <4>1
    <3> QED
      BY <2>1, <3>1, <3>2, <3>3
  <2>6. Found(r, u, w)
    <3>1. m + n \in Int
      OBVIOUS
    <3> HIDE DEF r, u, w
    <3> QED
      BY <2>1, <2>4, <2>5, <3>1 DEF Found
  <2>7. res = AddUp(xx, yy, c, how)
    <3>1. FixedTo(x, y, DenomAuto, how) = c
      BY <1>5, <1>8 DEF FixedTo, c
    <3>2. Num(x.num, Common(x, y)) = xx /\ Num(y.num, Common(x, y)) = yy
      BY <1>1 DEF xx, yy, c
    <3> HIDE DEF x, y, how
    <3> QED
      BY <1>3, <1>5, <1>8, <2>2, <3>1, <3>2 DEF gnc_numeric_add
  <2>8. LcdTo(xx, yy, c, how) = c
    BY <1>1, <2>1 DEF LcdTo
  <2> HIDE DEF how
  <2>9. res = IF Valid(r) THEN gnc_numeric_convert(r, c, how) ELSE r
    BY <2>7, <2>8 DEF AddUp
  <2>10. (Valid(r) => res = gnc_numeric_convert(r, to, How(type, "never")))
        /\ (~Valid(r) => ~Valid(res))
    BY <2>1, <2>9 DEF how
  <2> HIDE DEF r, u, w, res
  <2>11. Worth(res, u, w)
    BY <1>2, <1>4, <2>6, <2>10, WorthTheSame
  <2> QED
    BY <2>11 DEF res, u, w, how, x, y
<1> QED
  BY <1>6, <1>7, <1>8

LEMMA OperationIsExact ==
  ASSUME NEW m \in Int, Size(m) < Half, NEW n \in Int, Size(n) < Half,
         NEW d \in Nat, d > 0, d < Half, NEW e \in Nat, e > 0, e < Half,
         NEW op \in Operations, op = "div" => n # 0, SumFits(op, Num(m, d), Num(n, e)),
         ~Straddles(InLowestTerms(op, Num(m, d), Num(n, e))),
         NEW type \in Denoms, type = "lcd" => ~NoLcd(Num(m, d), Num(n, e))
  PROVE  \E u \in Int, w \in Nat :
           /\ Exact(op, Num(m, d), Num(n, e)) = Num(u, w)
           /\ Worth(Apply(op, Num(m, d), Num(n, e), DenomAuto, How(type, "never")), u, w)
<1> DEFINE how == How(type, "never")
           x == Num(m, d)
           y == Num(n, e)
           mi == -n
           z == Num(mi, e)
           res == Apply(op, x, y, DenomAuto, how)
           to == LcdTo(x, y, FixedTo(x, y, DenomAuto, how), how)
<1>1. /\ x.num = m /\ x.denom = d /\ y.num = n /\ y.denom = e /\ z.num = mi /\ z.denom = e
      /\ how.type = type /\ how.rnd = "never" /\ DenomAuto = 0 /\ mi \in Int /\ Size(mi) < Half
  BY DEF How, Num, DenomAuto, Size
<1>2. d * e \in Nat /\ d * e > 0
  BY ProductGrows
<1>3. Valid(x) /\ Valid(y) /\ Whole(x) = x /\ Whole(y) = y
  BY <1>1 DEF Valid, Whole
<1>4. to \in Nat /\ (to = DenomAuto => type # "lcd")
  BY TargetIs
<1>5. Fixed(DenomAuto, how) <=> type = "fixed"
  BY <1>1 DEF Fixed
<1>6. /\ ~Valid(Error(ErrorDenomDiff)) /\ ~Valid(Error(ErrorOverflow)) /\ ~Valid(Error(ErrorArg))
  BY DEF Valid, Error, Num
<1> HIDE DEF x, y, z, mi, how, to
<1>7. CASE op = "add"
  <2> DEFINE u == m * e + n * d
  <2>1. Exact(op, x, y) = Num(u, d * e)
    BY <1>1, <1>7 DEF Exact
  <2>2. d = e => Size(m + n) < Half
    <3>1. SumFits(op, x, y)
      BY DEF x, y
    <3> QED
      BY <1>1, <1>7, <3>1 DEF SumFits
  <2>3. Worth(res, u, d * e)
    <3>1. Worth(gnc_numeric_add(x, y, DenomAuto, how), u, d * e)
      BY <2>2, SumIsExact DEF x, y, how
    <3> QED
      BY <1>7, <3>1 DEF Apply
  <2>4. u \in Int
    OBVIOUS
  <2> HIDE DEF u
  <2> QED
    BY <1>2, <2>1, <2>3, <2>4 DEF x, y, how
<1>8. CASE op = "sub"
  <2> DEFINE u == m * e + mi * d
  <2>1. Exact(op, x, y) = Num(u, d * e)
    <3>1. (-n) * d = -(n * d)
      OBVIOUS
    <3>2. m * e - n * d = u
      BY <3>1 DEF mi
    <3> QED
      BY <1>1, <1>8, <3>2 DEF Exact
  <2>2. d = e => Size(m + mi) < Half
    <3>1. SumFits(op, x, y)
      BY DEF x, y
    <3>2. m - n = m + mi
      BY DEF mi
    <3> QED
      BY <1>1, <1>8, <3>1, <3>2 DEF SumFits
  <2>3. type = "lcd" => ~NoLcd(x, z)
    <3>1. gnc_numeric_lcd(x, z) = gnc_numeric_lcd(x, y)
      BY <1>1 DEF gnc_numeric_lcd
    <3>2. type = "lcd" => ~NoLcd(x, y)
      BY DEF x, y
    <3> QED
      BY <3>1, <3>2 DEF NoLcd
  <2>4. Worth(res, u, d * e)
    <3>1. Worth(gnc_numeric_add(x, z, DenomAuto, how), u, d * e)
      BY <1>1, <2>2, <2>3, SumIsExact DEF x, z, how
    <3>2. Num(-y.num, y.denom) = z
      BY <1>1 DEF z, mi
    <3> QED
      BY <1>8, <3>1, <3>2 DEF Apply, gnc_numeric_sub
  <2>5. u \in Int
    BY <1>1
  <2> HIDE DEF u
  <2> QED
    BY <1>2, <2>1, <2>4, <2>5 DEF x, y, how
<1>9. CASE op = "mul"
  <2> DEFINE u == m * n
             w == d * e
             r == Multiply(x, y, "never")
  <2>1. Exact(op, x, y) = Num(u, w)
    BY <1>1, <1>9 DEF Exact
  <2>2. u \in Int /\ w \in Nat /\ w > 0
    BY <1>2
  <2>3. Found(r, u, w)
    <3>1. ~Straddles(InLowestTerms("mul", Num(m, d), Num(n, e)))
      BY <1>9
    <3> QED
      BY <3>1, ProductIsFound DEF x, y
  <2>4. CASE type = "fixed" /\ Differ(x, y)
    <3>1. res = Error(ErrorDenomDiff)
      BY <1>3, <1>5, <1>9, <2>4 DEF Apply, gnc_numeric_mul
    <3> HIDE DEF res, u, w
    <3>2. Worth(res, u, w)
      BY <1>6, <3>1 DEF Worth
    <3> QED
      BY <2>1, <2>2, <3>2 DEF x, y, how, res
  <2>5. CASE ~(type = "fixed" /\ Differ(x, y))
    <3>1. res = IF Valid(r) THEN gnc_numeric_convert(r, to, how) ELSE Error(ErrorOverflow)
      BY <1>1, <1>3, <1>5, <1>9, <2>5 DEF Apply, gnc_numeric_mul, to
    <3>2. (Valid(r) => res = gnc_numeric_convert(r, to, How(type, "never")))
          /\ (~Valid(r) => ~Valid(res))
      BY <1>6, <3>1 DEF how
    <3> HIDE DEF r, u, w, res
    <3>3. Worth(res, u, w)
      BY <1>4, <2>2, <2>3, <3>2, WorthTheSame
    <3> QED
      BY <2>1, <2>2, <3>3 DEF x, y, how, res
  <2> QED
    BY <2>4, <2>5
<1>10. CASE op = "div"
  <2> DEFINE u == (SignOf(n) * m) * e
             w == Size(n) * d
             r == Divide(x, y, "never")
  <2>1. Exact(op, x, y) = Num(u, w)
    BY <1>1, <1>10 DEF Exact
  <2>2. u \in Int /\ w \in Nat /\ w > 0
    <3>1. Size(n) \in Nat /\ Size(n) > 0 /\ SignOf(n) \in {1, -1}
      BY <1>10 DEF Size, SignOf
    <3>2. Size(n) * d \in Nat /\ Size(n) * d >= Size(n)
      BY <3>1, ProductGrows
    <3>3. SignOf(n) * m \in Int
      BY <3>1
    <3> QED
      BY <3>1, <3>2, <3>3
  <2>3. Found(r, u, w)
    <3>1. ~Straddles(InLowestTerms("div", Num(m, d), Num(n, e))) /\ n # 0
      BY <1>10
    <3> QED
      BY <3>1, QuotientIsFound DEF x, y
  <2>4. CASE type = "fixed" /\ d # e
    <3>1. res = Error(ErrorDenomDiff)
      BY <1>1, <1>3, <1>5, <1>10, <2>4 DEF Apply, gnc_numeric_div
    <3> HIDE DEF res, u, w
    <3>2. Worth(res, u, w)
      BY <1>6, <3>1 DEF Worth
    <3> QED
      BY <2>1, <2>2, <3>2 DEF x, y, how, res
  <2>5. CASE ~(type = "fixed" /\ d # e)
    <3>1. res = IF Valid(r) THEN gnc_numeric_convert(r, to, how) ELSE r
      <4>1. res = gnc_numeric_div(x, y, DenomAuto, how)
        BY <1>10 DEF Apply
      <4>2. y.num # 0
        BY <1>1, <1>10
      <4> HIDE DEF res
      <4> QED
        BY <1>1, <1>3, <1>5, <2>5, <4>1, <4>2 DEF gnc_numeric_div, to
    <3>2. (Valid(r) => res = gnc_numeric_convert(r, to, How(type, "never")))
          /\ (~Valid(r) => ~Valid(res))
      BY <3>1 DEF how
    <3> HIDE DEF r, u, w, res
    <3>3. Worth(res, u, w)
      BY <1>4, <2>2, <2>3, <3>2, WorthTheSame
    <3> QED
      BY <2>1, <2>2, <3>3 DEF x, y, how, res
  <2> QED
    BY <2>4, <2>5
<1> QED
  BY <1>7, <1>8, <1>9, <1>10 DEF Operations

-----------------------------------------------------------------------------
(* The theorems: a state is two operands, and they stay as they are.       *)
LEMMA OperandsAre ==
  ASSUME ReckonInit, operands # <<>>
  PROVE  \E m \in Int, n \in Int, d \in Nat, e \in Nat :
           /\ operands[1] = Num(m, d) /\ Size(m) < Half /\ d > 0 /\ d < Half
           /\ operands[2] = Num(n, e) /\ Size(n) < Half /\ e > 0 /\ e < Half
<1>1. operands \in Numbers \X Numbers
  BY DEF ReckonInit
<1>2. PICK m \in Numerators, d \in Denominators : operands[1] = Num(m, d)
  BY <1>1 DEF Numbers
<1>3. PICK n \in Numerators, e \in Denominators : operands[2] = Num(n, e)
  BY <1>1 DEF Numbers
<1>4. /\ m \in Int /\ Size(m) < Half /\ d \in Nat /\ d > 0 /\ d < Half
      /\ n \in Int /\ Size(n) < Half /\ e \in Nat /\ e > 0 /\ e < Half
  BY PowerFacts, ReckoningAssumption DEF Size
<1> QED
  BY <1>2, <1>3, <1>4

LEMMA OperandsStay == ReckonSpec => []ReckonInit
<1>1. ReckonInit /\ [FALSE]_operands => ReckonInit'
  BY DEF ReckonInit, Numbers
<1> QED
  BY <1>1, PTL DEF ReckonSpec

(* Whatever the width of the machine's integers and whatever the numbers,  *)
(* rounding happens once and in the way that was asked for.                *)
THEOREM RoundedOnceAlways == ReckonSpec => []RoundedOnce
<1>1. ReckonInit => RoundedOnce
  <2> SUFFICES ASSUME ReckonInit, operands # <<>>,
                      NEW denom \in Targets, NEW rnd \in Roundings
               PROVE  LET a == operands[1]
                          b == operands[2]
                      IN /\ a.denom * Max({1, -denom}) < Quarter =>
                              IsRounded(gnc_numeric_convert(a, denom, How("exact", rnd)), a, denom, rnd)
                         /\ \A op \in Operations :
                              /\ denom > 0 /\ Fits(InLowestTerms(op, a, b)) /\ SumFits(op, a, b)
                              /\ (op = "div" => b.num # 0) /\ Exact(op, a, b).denom < Quarter
                              => IsRounded(Apply(op, a, b, denom, How("exact", rnd)),
                                           Exact(op, a, b), denom, rnd)
    BY DEF RoundedOnce
  <2>1. PICK m \in Int, n \in Int, d \in Nat, e \in Nat :
          /\ operands[1] = Num(m, d) /\ Size(m) < Half /\ d > 0 /\ d < Half
          /\ operands[2] = Num(n, e) /\ Size(n) < Half /\ e > 0 /\ e < Half
    BY OperandsAre
  <2>2. denom \in Int /\ denom # 0 /\ (denom > 0 => denom \in Nat)
    BY PowerFacts, ReckoningAssumption
  <2>3. Num(m, d).denom = d /\ Num(n, e).num = n
    BY DEF Num
  <2>4. d * Max({1, -denom}) < Quarter =>
          IsRounded(gnc_numeric_convert(Num(m, d), denom, How("exact", rnd)), Num(m, d), denom, rnd)
    BY <2>1, <2>2, ConversionIsRounded
  <2>5. ASSUME NEW op \in Operations, denom > 0, Fits(InLowestTerms(op, Num(m, d), Num(n, e))),
               SumFits(op, Num(m, d), Num(n, e)), op = "div" => n # 0,
               Exact(op, Num(m, d), Num(n, e)).denom < Quarter
        PROVE  IsRounded(Apply(op, Num(m, d), Num(n, e), denom, How("exact", rnd)),
                         Exact(op, Num(m, d), Num(n, e)), denom, rnd)
    BY <2>1, <2>2, <2>5, OperationIsRounded
  <2> QED
    BY <2>1, <2>3, <2>4, <2>5
<1> QED
  BY <1>1, OperandsStay, PTL

(* Whatever the width and the numbers, a result that is not rounded is     *)
(* exact or an error: no intermediate overflow goes unnoticed.             *)
THEOREM ExactOrErrorAlways == ReckonSpec => []ExactOrError
<1>1. ReckonInit => ExactOrError
  <2> SUFFICES ASSUME ReckonInit, operands # <<>>, NEW op \in Operations,
                      op = "div" => operands[2].num # 0,
                      SumFits(op, operands[1], operands[2]),
                      ~Straddles(InLowestTerms(op, operands[1], operands[2]))
               PROVE  Exactly(op, operands[1], operands[2])
    BY DEF ExactOrError
  <2>1. PICK m \in Int, n \in Int, d \in Nat, e \in Nat :
          /\ operands[1] = Num(m, d) /\ Size(m) < Half /\ d > 0 /\ d < Half
          /\ operands[2] = Num(n, e) /\ Size(n) < Half /\ e > 0 /\ e < Half
    BY OperandsAre
  <2>2. op = "div" => n # 0
    BY <2>1 DEF Num
  <2> SUFFICES ASSUME NEW type \in Denoms,
                      Valid(Apply(op, Num(m, d), Num(n, e), DenomAuto, How(type, "never"))),
                      type = "lcd" => ~NoLcd(Num(m, d), Num(n, e))
               PROVE  LET r == Apply(op, Num(m, d), Num(n, e), DenomAuto, How(type, "never"))
                      IN r.denom > 0 /\ Equal(r, Exact(op, Num(m, d), Num(n, e)))
    BY <2>1 DEF Exactly
  <2> DEFINE r == Apply(op, Num(m, d), Num(n, e), DenomAuto, How(type, "never"))
  <2>3. PICK u \in Int, w \in Nat : Exact(op, Num(m, d), Num(n, e)) = Num(u, w) /\ Worth(r, u, w)
    BY <2>1, <2>2, OperationIsExact
  <2>4. PICK k \in Int, c \in Nat : c > 0 /\ r = Num(k, c) /\ k * w = u * c
    BY <2>3 DEF Worth
  <2> HIDE DEF r
  <2>5. Num(u, w).num = u /\ Num(u, w).denom = w /\ r.num = k /\ r.denom = c
    BY <2>4 DEF Num
  <2> QED
    BY <2>3, <2>4, <2>5 DEF Equal, r
<1> QED
  BY <1>1, OperandsStay, PTL

(* Whatever the width and the numbers, gnc_numeric_mul misses no product   *)
(* that can be written in lowest terms.                                    *)
THEOREM ProductFoundAlways == ReckonSpec => []ProductFound
<1>1. ReckonInit => ProductFound
  <2> SUFFICES ASSUME ReckonInit, operands # <<>>,
                      LET p == gnc_numeric_reduce(Exact("mul", operands[1], operands[2]))
                      IN Size(p.num) < Half /\ p.denom < Half
               PROVE  Valid(gnc_numeric_mul(operands[1], operands[2], DenomAuto,
                                            How("exact", "never")))
    BY DEF ProductFound
  <2>1. PICK m \in Int, n \in Int, d \in Nat, e \in Nat :
          /\ operands[1] = Num(m, d) /\ Size(m) < Half /\ d > 0 /\ d < Half
          /\ operands[2] = Num(n, e) /\ Size(n) < Half /\ e > 0 /\ e < Half
    BY OperandsAre
  <2>2. Exact("mul", Num(m, d), Num(n, e)) = Num(m * n, d * e)
    BY DEF Exact, Num
  <2>3. Fits(InLowestTerms("mul", Num(m, d), Num(n, e)))
    BY <2>1, <2>2, ProductFits
  <2> DEFINE r == gnc_numeric_mul(Num(m, d), Num(n, e), DenomAuto, How("exact", "never"))
  <2>a. PICK i \in Int, j \in Nat : ProductBy(m, d, n, e, i, j)
    BY <2>1, <2>3, ProductThatFits
  <2>4. \E u \in Int, v \in Nat : r = Num(u, v) /\ v > 0
    BY <2>a DEF ProductBy
  <2> HIDE DEF r
  <2>5. Valid(r)
    BY <2>4 DEF Valid, Num
  <2> QED
    BY <2>1, <2>5 DEF r
<1> QED
  BY <1>1, OperandsStay, PTL

-----------------------------------------------------------------------------
(* Decimals.  What is left of the denominator times a power of ten is what *)
(* the denominator is to be, and is unless some product did not fit.       *)
LEMMA TensFacts ==
  /\ Tens[0] = 1
  /\ \A n \in 0..Bits : Tens[n] \in Nat /\ Tens[n] > 0
  /\ \A n \in 1..Bits : Tens[n] = 10 * Tens[n - 1]
<1> DEFINE S == Nat \ {0}
           step == [p \in (1..Bits) \X S |-> 10 * p[2]]
<1>1. Bits \in Nat /\ 1 \in S
  BY NumericAssumption
<1>2. \A n \in 1..Bits, x \in S : step[<<n, x>>] = 10 * x
  OBVIOUS
<1>3. \A x \in S : 10 * x \in S
  OBVIOUS
<1> HIDE DEF S, step
<1>4. PICK f : IsLoop(f, 1, step, S, Bits)
  <2>1. \A n \in 1..Bits, x \in S : step[<<n, x>>] \in S
    BY <1>2, <1>3
  <2> QED
    BY <1>1, <2>1, LoopExists
<1>5. f = [n \in 0..Bits |-> IF n = 0 THEN 1 ELSE 10 * f[n - 1]]
  <2>1. f = [n \in 0..Bits |-> IF n = 0 THEN 1 ELSE step[<<n, f[n - 1]>>]]
        /\ \A n \in 0..Bits : f[n] \in S
    BY <1>4 DEF IsLoop
  <2>2. \A n \in 0..Bits : n # 0 => n - 1 \in 0..Bits /\ n \in 1..Bits
    BY <1>1
  <2>3. \A n \in 0..Bits : n # 0 => step[<<n, f[n - 1]>>] = 10 * f[n - 1]
    BY <1>2, <2>1, <2>2
  <2> QED
    BY <2>1, <2>3
<1>6. Tens = [n \in 0..Bits |-> IF n = 0 THEN 1 ELSE 10 * Tens[n - 1]]
  BY <1>5 DEF Tens
<1>7. ASSUME NEW n \in 1..Bits  PROVE Tens[n] = 10 * Tens[n - 1]
  <2>1. n \in 0..Bits /\ n # 0
    BY <1>1
  <2> QED
    BY <1>6, <2>1
<1> DEFINE T == {n \in 0..Bits : Tens[n] \in S}
<1>8. 0 \in T
  BY <1>1, <1>6
<1>9. ASSUME NEW n \in 0..(Bits - 1), n \in T  PROVE n + 1 \in T
  <2>1. n + 1 \in 1..Bits /\ (n + 1) - 1 = n /\ n + 1 \in 0..Bits
    BY <1>1
  <2>2. Tens[n + 1] = 10 * Tens[n]
    BY <1>7, <2>1
  <2> QED
    BY <1>3, <1>9, <2>1, <2>2
<1>10. \A n \in 0..Bits : Tens[n] \in S
  <2> HIDE DEF T
  <2>1. \A n \in 0..Bits : n \in T
    BY <1>1, <1>8, <1>9, UpTo
  <2> QED
    BY <2>1 DEF T
<1>11. Tens[0] = 1
  BY <1>1, <1>6
<1> QED
  BY <1>7, <1>10, <1>11 DEF S

\* A number times one: its value is kept, and it is left as it is if need be.
TimesOneBy(r, m, e, k, i, j) ==
  /\ r = Num(i, j) /\ j > 0 /\ j < Half /\ Size(i) < Half /\ i * e = m * j
  /\ Size(m) * k < Half /\ e * k < Half => i = m * k /\ j = e * k

LEMMA TimesOne ==
  ASSUME NEW m \in Int, Size(m) < Half, NEW e \in Nat, e > 0, e < Half,
         NEW k \in Nat, k > 0
  PROVE  \E i \in Int, j \in Nat :
           TimesOneBy(gnc_numeric_mul(Num(m, e), Num(k, k), DenomAuto, How("exact", "never")),
                      m, e, k, i, j)
<1>1. k \in Int /\ Half \in Nat
  BY PowerFacts
<1> DEFINE nume == m * k
           deno == e * k
<1>2. nume \in Int /\ deno \in Nat /\ deno > 0
  <2>1. e * k \in Nat /\ e * k >= e
    BY ProductGrows
  <2> QED
    BY <1>1, <2>1
<1>3. Fits(InLowestTerms("mul", Num(m, e), Num(k, k)))
  <2> HIDE DEF nume, deno
  <2>1. PICK g \in Nat, i \in Int, j \in Nat : ReducedBy(nume, deno, g, i, j)
    BY <1>2, ReducedFraction
  <2>2. /\ g > 0 /\ j > 0 /\ nume = i * g /\ deno = j * g
        /\ gnc_numeric_reduce(Num(nume, deno)) = Num(i, j) /\ Coprime(i, j)
    BY <2>1 DEF ReducedBy
  <2>3. i * e = m * j
    <3>1. (i * e) * (g * k) = (i * g) * (e * k) /\ (m * j) * (g * k) = (m * k) * (j * g)
      BY <1>1
    <3>2. (i * g) * (e * k) = (m * k) * (j * g)
      <4>1. nume * deno = nume * deno
        OBVIOUS
      <4>2. (i * g) * deno = nume * (j * g)
        BY <2>2, <4>1
      <4> QED
        BY <4>2 DEF nume, deno
    <3>3. g * k \in Nat /\ g * k > 0
      <4>1. g * k \in Nat /\ g * k >= g
        BY ProductGrows
      <4> QED
        BY <2>2, <4>1
    <3>4. i * e \in Int /\ m * j \in Int
      OBVIOUS
    <3> QED
      BY <3>1, <3>2, <3>3, <3>4, Cancelled
  <2>4. PICK f \in Int, h \in Int : f * i + h * j = 1
    BY <2>2 DEF Coprime
  <2> DEFINE w == f * m + h * e
  <2>5. w \in Int /\ e = j * w /\ m = i * w
    <3>1. w \in Int
      OBVIOUS
    <3>2. m * (f * i + h * j) = (f * m) * i + h * (m * j)
          /\ e * (f * i + h * j) = f * (i * e) + (h * e) * j
      OBVIOUS
    <3>3. i * w = (f * m) * i + h * (i * e) /\ j * w = f * (m * j) + (h * e) * j
      OBVIOUS
    <3>4. m * 1 = m /\ e * 1 = e
      OBVIOUS
    <3> HIDE DEF w
    <3> QED
      BY <2>3, <2>4, <3>1, <3>2, <3>3, <3>4
  <2> HIDE DEF w
  <2>6. w > 0
    <3>1. w <= 0 => -w \in Nat
      BY <2>5
    <3>2. w <= 0 => j * (-w) \in Nat
      BY <3>1, ProductOfNats
    <3>3. j * (-w) = -(j * w)
      BY <2>5
    <3> QED
      BY <2>5, <3>2, <3>3
  <2>7. j < Half /\ Size(i) < Half
    <3>1. w \in Nat
      BY <2>5, <2>6
    <3>2. j <= e
      BY <2>5, <2>6, <3>1, ProductGrows
    <3>3. Size(m) = Size(i) * w /\ Size(i) \in Nat
      BY <2>5, <2>6, <3>1, SizeOfProduct, SizeFacts
    <3>4. Size(i) <= Size(i) * w /\ Size(i) * w \in Nat
      BY <2>6, <3>1, <3>3, ProductGrows
    <3> QED
      BY <1>1, <3>2, <3>3, <3>4
  <2>8. LET p == gnc_numeric_reduce(Num(m * k, e * k)) IN Size(p.num) < Half /\ p.denom < Half
    <3>1. gnc_numeric_reduce(Num(m * k, e * k)) = Num(i, j)
      BY <2>2 DEF nume, deno
    <3>2. Num(i, j).num = i /\ Num(i, j).denom = j
      BY DEF Num
    <3> QED
      BY <2>7, <3>1, <3>2
  <2> QED
    BY <1>1, <2>8, ProductFits
<1>a. PICK i \in Int, j \in Nat : ProductBy(m, e, k, k, i, j)
  BY <1>1, <1>3, ProductThatFits
<1>4. /\ gnc_numeric_mul(Num(m, e), Num(k, k), DenomAuto, How("exact", "never")) = Num(i, j)
      /\ j > 0 /\ j < Half /\ Size(i) < Half /\ i * (e * k) = (m * k) * j
      /\ ~TooBig(Num(m, e), Num(k, k)) => i = m * k /\ j = e * k
  BY <1>a DEF ProductBy
<1>5. i * e = m * j
  <2>1. (i * e) * k = i * (e * k) /\ (m * j) * k = (m * k) * j
    BY <1>1
  <2>2. i * e \in Int /\ m * j \in Int
    OBVIOUS
  <2> QED
    BY <1>4, <2>1, <2>2, Cancelled
<1>6. Size(m) * k < Half /\ e * k < Half => ~TooBig(Num(m, e), Num(k, k))
  <2>1. Num(m, e).num = m /\ Num(m, e).denom = e /\ Num(k, k).num = k /\ Num(k, k).denom = k
    BY DEF Num
  <2>2. Mult128(m, k).mag = Size(m) * k /\ Mult128(e, k).mag = e * k
    <3>1. Size(k) = k /\ Size(e) = e
      BY DEF Size
    <3> QED
      BY <3>1 DEF Mult128
  <2>3. Size(m) * k \in Nat /\ e * k \in Nat
    BY SizeFacts, ProductOfNats
  <2> DEFINE u == Mult128(m, k)
             v == Mult128(e, k)
  <2>4. TooBig(Num(m, e), Num(k, k)) <=> Big(u) \/ Big(v)
    BY <2>1 DEF TooBig
  <2> HIDE DEF u, v
  <2> QED
    BY <1>1, <2>2, <2>3, <2>4 DEF Big, u, v
<1> QED
  BY <1>4, <1>5, <1>6 DEF TimesOneBy

\* A number on its way to a power of ten, from n over d: either it has the
\* denominator it is to have by now, or that one has become too big for it.
Fractions == [num : Int, denom : Int]
Due(s) == s.fraction * Tens[s.places]
Underway(n, d) ==
  {s \in [num : Fractions, fraction : Nat, places : 0..Bits, ok : BOOLEAN] :
     /\ s.num.denom > 0 /\ s.num.denom < Half /\ Size(s.num.num) < Half
     /\ s.num.num * d = n * s.num.denom
     /\ s.fraction > 0
     /\ s.fraction # 1 => s.fraction * Power[s.places] < Half
     /\ s.num.denom = Due(s) \/ Size(n) * Due(s) >= Half * d \/ Due(s) >= Half}

LEMMA PlaceMade ==
  ASSUME NEW n \in Int, NEW d \in Nat, d > 0, NEW s \in Underway(n, d), s.fraction # 1,
         NEW k \in Nat, NEW by \in Nat, <<k, by>> \in {<<1, 10>>, <<2, 5>>, <<5, 2>>},
         NEW left \in Nat, s.fraction = left * by, NEW i \in Int, NEW j \in Nat,
         TimesOneBy(Num(i, j), s.num.num, s.num.denom, k, i, j)
  PROVE  [num |-> Num(i, j), fraction |-> left, places |-> s.places + 1, ok |-> TRUE]
           \in Underway(n, d)
<1> DEFINE m == s.num.num
           e == s.num.denom
           p == s.places
           f == s.fraction
           ten == Tens[p]
           due == f * ten
           next == left * Tens[p + 1]
<1>1. /\ m \in Int /\ e \in Nat /\ e > 0 /\ e < Half /\ Size(m) < Half /\ m * d = n * e
      /\ f \in Nat /\ f > 0 /\ p \in 0..Bits /\ f * Power[p] < Half
      /\ e = due \/ Size(n) * due >= Half * d \/ due >= Half
  BY DEF Underway, Due, Fractions
<1>2. /\ j > 0 /\ j < Half /\ Size(i) < Half /\ i * e = m * j
      /\ Size(m) * k < Half /\ e * k < Half => i = m * k /\ j = e * k
  BY DEF TimesOneBy
<1>18. k > 0 /\ by > 1 /\ k * by = 10
  OBVIOUS
<1>3. Bits \in Nat /\ Half \in Nat /\ Half > 0 /\ Size(n) \in Nat /\ Size(m) \in Nat
  BY <1>1, NumericAssumption, PowerFacts, SizeFacts
<1>4. p + 1 \in 1..Bits
  <2>1. ~(p = Bits)
    <3>1. ASSUME p = Bits  PROVE FALSE
      <4>1. f * Wide < Half /\ Wide \in Nat /\ Wide > 0 /\ Wide >= Half
        BY <1>1, <1>3, <3>1, PowerFacts DEF Wide
      <4>2. Wide * f >= Wide /\ Wide * f = f * Wide /\ Wide * f \in Nat
        BY <1>1, <4>1, ProductGrows
      <4> QED
        BY <1>3, <4>1, <4>2
    <3> QED
      BY <3>1
  <2>2. p \in 0..Bits /\ Bits \in Nat
    BY <1>1, <1>3
  <2> HIDE DEF p
  <2> QED
    BY <2>1, <2>2
<1>5. (p + 1) - 1 = p /\ p + 1 \in 1..(2 * Bits) /\ p \in 0..(2 * Bits) /\ p + 1 \in 0..Bits
  BY <1>1, <1>3, <1>4
<1>6. ten \in Nat /\ ten > 0 /\ Tens[p + 1] = 10 * ten
  BY <1>1, <1>4, <1>5, TensFacts
<1>7. Power[p] \in Nat /\ Power[p] > 0 /\ Power[p + 1] = 2 * Power[p]
  BY <1>5, Powers
<1>8. f = left * by
  OBVIOUS
<1>9. s \in [num : Fractions, fraction : Nat, places : 0..Bits, ok : BOOLEAN]
  BY DEF Underway
<1> HIDE DEF m, e, p, f, ten
<1>10. left > 0
  <2>1. left = 0 => left * by = 0
    OBVIOUS
  <2> QED
    BY <1>1, <1>8, <2>1
<1>11. left * Power[p + 1] < Half
  <2> DEFINE pow == Power[p]
  <2>1. pow \in Nat /\ f * pow < Half /\ Power[p + 1] = 2 * pow
    BY <1>1, <1>7
  <2> HIDE DEF pow
  <2>2. left * 2 <= left * by
    BY ProductsOrdered
  <2>3. left * 2 \in Nat /\ left * by \in Nat
    BY <1>1, <1>8
  <2>4. (left * 2) * pow <= (left * by) * pow
    BY <2>1, <2>3, <2>2, ProductsOrdered
  <2>5. left * (2 * pow) = (left * 2) * pow /\ (left * 2) * pow \in Nat /\ (left * by) * pow \in Nat
    BY <2>1, <2>3, ProductOfNats
  <2> QED
    BY <1>3, <1>8, <2>1, <2>4, <2>5
<1>12. i * d = n * j
  <2>1. (i * d) * e = (i * e) * d /\ (n * j) * e = (n * e) * j /\ (m * j) * d = (m * d) * j
    BY <1>1
  <2>2. (i * d) * e = (n * j) * e /\ i * d \in Int /\ n * j \in Int
    BY <1>1, <1>2, <2>1
  <2> QED
    BY <1>1, <2>2, Cancelled
<1>13. next = due * k /\ due \in Nat /\ due * k \in Nat /\ due * k >= due
  <2>1. next = left * (10 * ten)
    BY <1>6
  <2>2. left * ((k * by) * ten) = ((left * by) * ten) * k
    BY <1>6
  <2>3. due \in Nat
    BY <1>1, <1>6, ProductOfNats
  <2>4. next = due * k
    BY <1>8, <2>1, <2>2
  <2> HIDE DEF due, next
  <2> QED
    BY <2>3, <2>4, ProductGrows
<1> HIDE DEF due, next
<1>14. j = next \/ Size(n) * next >= Half * d \/ next >= Half
  <2> DEFINE z == Size(n)
             y == Size(m)
  <2>1. z \in Nat /\ y \in Nat /\ y * d = z * e
    <3>1. Size(m * d) = Size(m) * d /\ Size(n * e) = Size(n) * e
      BY <1>1, SizeOfProduct
    <3> QED
      BY <1>1, <1>3, <3>1
  <2> HIDE DEF z, y
  <2>2. CASE e = due
    <3>1. CASE y * k < Half /\ e * k < Half
      <4>1. j = e * k
        BY <1>2, <3>1 DEF y
      <4> QED
        BY <1>13, <2>2, <4>1
    <3>2. CASE ~(e * k < Half)
      BY <1>3, <1>13, <2>2, <3>2
    <3>3. CASE ~(y * k < Half)
      <4>1. z * (e * k) = (z * e) * k /\ (y * d) * k = (y * k) * d
        BY <1>1, <2>1
      <4>2. y * k \in Nat /\ Half <= y * k
        BY <1>3, <2>1, <3>3, ProductOfNats
      <4>3. Half * d <= (y * k) * d
        BY <1>3, <4>2, ProductsOrdered
      <4>4. z * next = (y * k) * d
        BY <1>13, <2>1, <2>2, <4>1
      <4> QED
        BY <4>3, <4>4 DEF z
    <3> QED
      BY <3>1, <3>2, <3>3
  <2>3. CASE z * due >= Half * d
    <3>1. z * due <= z * next
      BY <1>13, <2>1, ProductsOrdered
    <3>2. z * due \in Nat /\ z * next \in Nat /\ Half * d \in Nat
      BY <1>3, <1>13, <2>1, ProductOfNats
    <3> QED
      BY <2>3, <3>1, <3>2 DEF z
  <2>4. CASE due >= Half
    BY <1>3, <1>13, <2>4
  <2> QED
    BY <1>1, <2>2, <2>3, <2>4 DEF z
<1> DEFINE t == [num |-> Num(i, j), fraction |-> left, places |-> p + 1, ok |-> TRUE]
<1>15. /\ t.num.num = i /\ t.num.denom = j /\ t.fraction = left /\ t.places = p + 1
       /\ t \in [num : Fractions, fraction : Nat, places : 0..Bits, ok : BOOLEAN]
  BY <1>5 DEF Num, Fractions
<1>16. Due(t) = next
  BY <1>15 DEF Due, next
<1> HIDE DEF t
<1>17. t \in Underway(n, d)
  BY <1>2, <1>10, <1>11, <1>12, <1>14, <1>15, <1>16 DEF Underway
<1> QED
  BY <1>17 DEF t, p

LEMMA PlaceKept ==
  ASSUME NEW n \in Int, NEW d \in Nat, d > 0, NEW s \in Underway(n, d)
  PROVE  /\ OnePlace(s) \in Underway(n, d)
         /\ OnePlace(s).ok /\ OnePlace(s).fraction # 1 =>
              s.ok /\ s.fraction # 1 /\ OnePlace(s).places = s.places + 1
<1> DEFINE m == s.num.num
           e == s.num.denom
           f == s.fraction
           one == How("exact", "never")
           place(i, j, left) ==
             [num |-> Num(i, j), fraction |-> left, places |-> s.places + 1, ok |-> TRUE]
<1>1. /\ m \in Int /\ e \in Nat /\ e > 0 /\ e < Half /\ Size(m) < Half /\ f \in Nat /\ f > 0
      /\ s.num = Num(m, e) /\ s.ok \in BOOLEAN
  BY DEF Underway, Fractions, Num
<1>2. \A i \in Int, j \in Nat : j > 0 => Valid(Num(i, j)) = TRUE
  BY DEF Valid, Num
<1>3. \A k \in {2, 5} : \E i \in Int, j \in Nat :
        TimesOneBy(gnc_numeric_mul(s.num, Num(k, k), DenomAuto, one), m, e, k, i, j)
  <2> HIDE DEF m, e, one
  <2>1. \A k \in {2, 5} : k \in Nat /\ k > 0
    OBVIOUS
  <2> QED
    BY <1>1, <2>1, TimesOne DEF one
<1>4. CASE f = 1 \/ ~s.ok
  BY <1>4 DEF OnePlace
<1>5. ASSUME f # 1, s.ok, f % 10 = 0
      PROVE  /\ OnePlace(s) \in Underway(n, d)
             /\ OnePlace(s).places = s.places + 1
  <2>1. OnePlace(s) = place(m, e, f \div 10)
    <3>1. OnePlace(s) = [num |-> s.num, fraction |-> f \div 10, places |-> s.places + 1,
                         ok |-> Valid(s.num)]
      <4> DEFINE last == f % 10
      <4>1. last = 0 /\ last # 5 /\ ~(last \in {2, 4, 6, 8}) /\ ~(f = 1 \/ ~s.ok)
        BY <1>5
      <4> HIDE DEF last
      <4> QED
        BY <1>5, <4>1 DEF OnePlace, last
    <3>2. Valid(s.num) = TRUE
      BY <1>1, <1>2
    <3> QED
      BY <1>1, <3>1, <3>2
  <2>2. f \div 10 \in Nat /\ f = (f \div 10) * 10
    BY <1>1, <1>5
  <2>3. TimesOneBy(Num(m, e), m, e, 1, m, e)
    BY <1>1 DEF TimesOneBy
  <2>4. place(m, e, f \div 10) \in Underway(n, d)
    BY <1>1, <1>5, <2>2, <2>3, PlaceMade
  <2> QED
    BY <2>1, <2>4
<1>6. ASSUME f # 1, s.ok, f % 10 = 5
      PROVE  /\ OnePlace(s) \in Underway(n, d)
             /\ OnePlace(s).places = s.places + 1
  <2>1. PICK i \in Int, j \in Nat :
          TimesOneBy(gnc_numeric_mul(s.num, Num(2, 2), DenomAuto, one), m, e, 2, i, j)
    BY <1>3
  <2>2. gnc_numeric_mul(s.num, Num(2, 2), DenomAuto, one) = Num(i, j) /\ j > 0
    BY <2>1 DEF TimesOneBy
  <2>3. OnePlace(s) = place(i, j, f \div 5)
    <3> DEFINE c == gnc_numeric_mul(s.num, Num(2, 2), DenomAuto, one)
    <3>1. OnePlace(s) = [num |-> c, fraction |-> f \div 5, places |-> s.places + 1,
                         ok |-> Valid(c)]
      <4> DEFINE last == f % 10
      <4>1. last = 5 /\ last # 0 /\ ~(last \in {2, 4, 6, 8}) /\ ~(f = 1 \/ ~s.ok)
        BY <1>6
      <4> HIDE DEF last
      <4> QED
        BY <1>6, <4>1 DEF OnePlace, last
    <3> HIDE DEF c
    <3>2. c = Num(i, j) /\ Valid(c) = TRUE
      BY <1>2, <2>2 DEF c
    <3> QED
      BY <3>1, <3>2
  <2>4. f \div 5 \in Nat /\ f = (f \div 5) * 5
    BY <1>1, <1>6
  <2>5. place(i, j, f \div 5) \in Underway(n, d)
    BY <1>6, <2>1, <2>2, <2>4, PlaceMade
  <2> QED
    BY <2>3, <2>5
<1>7. ASSUME f # 1, s.ok, f % 10 \in {2, 4, 6, 8}
      PROVE  /\ OnePlace(s) \in Underway(n, d)
             /\ OnePlace(s).places = s.places + 1
  <2>1. PICK i \in Int, j \in Nat :
          TimesOneBy(gnc_numeric_mul(s.num, Num(5, 5), DenomAuto, one), m, e, 5, i, j)
    BY <1>3
  <2>2. gnc_numeric_mul(s.num, Num(5, 5), DenomAuto, one) = Num(i, j) /\ j > 0
    BY <2>1 DEF TimesOneBy
  <2>3. OnePlace(s) = place(i, j, f \div 2)
    <3> DEFINE c == gnc_numeric_mul(s.num, Num(5, 5), DenomAuto, one)
    <3>1. OnePlace(s) = [num |-> c, fraction |-> f \div 2, places |-> s.places + 1,
                         ok |-> Valid(c)]
      <4> DEFINE last == f % 10
      <4>1. last \in {2, 4, 6, 8} /\ last # 0 /\ last # 5 /\ ~(f = 1 \/ ~s.ok)
        BY <1>7
      <4> HIDE DEF last
      <4> QED
        BY <1>7, <4>1 DEF OnePlace, last
    <3> HIDE DEF c
    <3>2. c = Num(i, j) /\ Valid(c) = TRUE
      BY <1>2, <2>2 DEF c
    <3> QED
      BY <3>1, <3>2
  <2>4. f \div 2 \in Nat /\ f = (f \div 2) * 2
    BY <1>1, <1>7
  <2>5. place(i, j, f \div 2) \in Underway(n, d)
    BY <1>7, <2>1, <2>2, <2>4, PlaceMade
  <2> QED
    BY <2>3, <2>5
<1>8. ASSUME f # 1, s.ok, ~(f % 10 \in {0, 5, 2, 4, 6, 8})
      PROVE  OnePlace(s) \in Underway(n, d) /\ ~OnePlace(s).ok
  <2>1. OnePlace(s) = [s EXCEPT !.ok = FALSE]
    BY <1>8 DEF OnePlace
  <2>2. s \in [num : Fractions, fraction : Nat, places : 0..Bits, ok : BOOLEAN]
    BY DEF Underway
  <2>3. /\ OnePlace(s) \in [num : Fractions, fraction : Nat, places : 0..Bits, ok : BOOLEAN]
        /\ OnePlace(s).num = s.num /\ OnePlace(s).fraction = s.fraction
        /\ OnePlace(s).places = s.places /\ ~OnePlace(s).ok
    BY <2>1, <2>2
  <2> QED
    BY <2>3 DEF Underway, Due
<1> QED
  BY <1>4, <1>5, <1>6, <1>7, <1>8

LEMMA MadeDecimalIs ==
  ASSUME NEW n \in Int, Size(n) < Half, NEW d \in Nat, d > 0, d < Half
  PROVE  /\ MadeDecimal(Num(n, d)) \in Underway(n, d)
         /\ MadeDecimal(Num(n, d)).ok => MadeDecimal(Num(n, d)).fraction = 1
<1> DEFINE S == Underway(n, d)
           start == [num |-> Num(n, d), fraction |-> d, places |-> 0, ok |-> TRUE]
           step == [p \in (1..Bits) \X S |-> OnePlace(p[2])]
<1>1. Bits \in Nat /\ Bits > 0 /\ 0 \in 0..Bits
  BY NumericAssumption
<1>2. start \in S
  <2>1. /\ start.num.num = n /\ start.num.denom = d /\ start.fraction = d /\ start.places = 0
        /\ start \in [num : Fractions, fraction : Nat, places : 0..Bits, ok : BOOLEAN]
    BY <1>1 DEF Num, Fractions
  <2> HIDE DEF start
  <2>2. Due(start) = d /\ start.fraction * Power[0] = d
    BY <2>1, TensFacts, Powers DEF Due
  <2>3. n * d = n * d
    OBVIOUS
  <2> QED
    BY <2>1, <2>2, <2>3 DEF Underway
<1>3. \A k \in 1..Bits, x \in S : step[<<k, x>>] = OnePlace(x)
  OBVIOUS
<1>4. \A x \in S : OnePlace(x) \in S
  BY PlaceKept
<1>5. start.ok /\ start.places = 0
  OBVIOUS
<1> HIDE DEF S, step, start
<1>6. PICK f : IsLoop(f, start, step, S, Bits)
  <2>1. \A k \in 1..Bits, x \in S : step[<<k, x>>] \in S
    BY <1>3, <1>4
  <2> QED
    BY <1>1, <1>2, <2>1, LoopExists
<1>7. f = [k \in 0..Bits |-> IF k = 0 THEN start ELSE OnePlace(f[k - 1])]
  <2>1. f = [k \in 0..Bits |-> IF k = 0 THEN start ELSE step[<<k, f[k - 1]>>]]
        /\ \A k \in 0..Bits : f[k] \in S
    BY <1>6 DEF IsLoop
  <2>2. \A k \in 0..Bits : k # 0 => k - 1 \in 0..Bits /\ k \in 1..Bits
    BY <1>1
  <2>3. \A k \in 0..Bits : k # 0 => step[<<k, f[k - 1]>>] = OnePlace(f[k - 1])
    BY <1>3, <2>1, <2>2
  <2> QED
    BY <2>1, <2>3
<1> DEFINE loop == CHOOSE g : g = [k \in 0..Bits |-> IF k = 0 THEN start ELSE OnePlace(g[k - 1])]
<1>8. loop = [k \in 0..Bits |-> IF k = 0 THEN start ELSE OnePlace(loop[k - 1])]
  BY <1>7
<1>9. MadeDecimal(Num(n, d)) = loop[Bits]
  BY DEF MadeDecimal, start, Num
<1> HIDE DEF loop
<1> DEFINE T == {k \in 0..Bits : /\ loop[k] \in S
                                 /\ loop[k].ok /\ loop[k].fraction # 1 => loop[k].places = k}
<1>10. 0 \in T
  BY <1>1, <1>2, <1>5, <1>8
<1>11. ASSUME NEW k \in 0..(Bits - 1), k \in T  PROVE k + 1 \in T
  <2>1. k + 1 \in 0..Bits /\ k + 1 # 0 /\ (k + 1) - 1 = k
    BY <1>1
  <2>2. loop[k + 1] = OnePlace(loop[k])
    BY <1>8, <2>1
  <2>3. loop[k] \in Underway(n, d) /\ (loop[k].ok /\ loop[k].fraction # 1 => loop[k].places = k)
    BY <1>11 DEF S
  <2> QED
    BY <2>1, <2>2, <2>3, PlaceKept DEF S
<1>12. Bits \in T
  <2> HIDE DEF T
  <2>1. \A k \in 0..Bits : k \in T
    BY <1>1, <1>10, <1>11, UpTo
  <2> QED
    BY <1>1, <2>1
<1> DEFINE s == MadeDecimal(Num(n, d))
<1>13. s \in Underway(n, d) /\ (s.ok /\ s.fraction # 1 => s.places = Bits)
  BY <1>9, <1>12 DEF S
<1> HIDE DEF s
<1>14. ASSUME s.ok, s.fraction # 1  PROVE FALSE
  <2>1. s.fraction \in Nat /\ s.fraction > 0 /\ s.fraction * Wide < Half
    BY <1>13, <1>14 DEF Underway, Wide
  <2>2. Wide \in Nat /\ Wide > 0 /\ Wide >= Half /\ Half \in Nat
    BY PowerFacts
  <2> DEFINE x == s.fraction
  <2> HIDE DEF x
  <2>3. x \in Nat /\ x > 0 /\ x * Wide < Half
    BY <2>1 DEF x
  <2>4. Wide * x \in Nat /\ Wide * x >= Wide /\ Wide * x = x * Wide
    BY <2>2, <2>3, ProductGrows
  <2> QED
    BY <2>2, <2>3, <2>4
<1> QED
  BY <1>13, <1>14 DEF s

\* What is shown of a decimal d made of a number n
IsDecimal(d, a) ==
  LET tens == Tens[d.places]
      fits == Size(a.num) * tens < Half * a.denom /\ tens < Half
  IN d.ok => Equal(d.num, a) /\ (fits => d.num.denom = tens)

LEMMA DecimalIs ==
  ASSUME NEW n \in Int, Size(n) < Half, NEW d \in Nat, d > 0, d < Half
  PROVE  IsDecimal(gnc_numeric_to_decimal(Num(n, d)), Num(n, d))
<1> DEFINE e == IF n = 0 THEN 1 ELSE d
           s == MadeDecimal(Num(n, e))
           made == gnc_numeric_to_decimal(Num(n, d))
<1>1. e \in Nat /\ e > 0 /\ e < Half
  BY PowerFacts
<1>2. s \in Underway(n, e) /\ (s.ok => s.fraction = 1)
  <2> HIDE DEF e
  <2> QED
    BY <1>1, MadeDecimalIs
<1>3. made = IF s.ok THEN Decimal(TRUE, s.num, s.places) ELSE Decimal(FALSE, Num(n, d), 0)
  <2>1. Num(n, d).num = n /\ Num(n, d).denom = d /\ Valid(Num(n, d))
    BY DEF Num, Valid
  <2>2. (IF Num(n, d).num = 0 THEN Num(0, 1) ELSE Num(n, d)) = Num(n, e)
    BY <2>1
  <2>3. ~(d < 0)
    OBVIOUS
  <2> HIDE DEF e
  <2> QED
    BY <2>1, <2>2, <2>3 DEF gnc_numeric_to_decimal
<1> HIDE DEF s, made
<1>4. ASSUME ~s.ok  PROVE IsDecimal(made, Num(n, d))
  BY <1>3, <1>4 DEF IsDecimal, Decimal
<1>5. ASSUME s.ok  PROVE IsDecimal(made, Num(n, d))
  <2> DEFINE m == s.num.num
             k == s.num.denom
             tens == Tens[s.places]
  <2>1. made.ok /\ made.num = s.num /\ made.places = s.places
    BY <1>3, <1>5 DEF Decimal
  <2>2. /\ m \in Int /\ k \in Int /\ m * e = n * k /\ s.places \in 0..Bits
        /\ k = Due(s) \/ Size(n) * Due(s) >= Half * e \/ Due(s) >= Half
    <3> HIDE DEF e
    <3> QED
      BY <1>2 DEF Underway, Fractions
  <2>3. tens \in Nat /\ Half \in Nat
    BY <2>2, TensFacts, PowerFacts
  <2>4. Due(s) = tens
    <3>1. Due(s) = 1 * tens
      BY <1>2, <1>5 DEF Due
    <3> QED
      BY <2>3, <3>1
  <2>5. m * d = n * k
    <3>1. CASE n = 0
      <4>1. m = 0
        BY <2>2, <3>1
      <4> QED
        BY <2>2, <3>1, <4>1
    <3>2. CASE n # 0
      BY <2>2, <3>2
    <3> QED
      BY <3>1, <3>2
  <2>6. Size(n) * tens < Half * d /\ tens < Half => k = tens
    <3>1. CASE n = 0
      <4>1. Size(n) * tens = 0 /\ Half * e = Half /\ Half > 0
        BY <2>3, <3>1, PowerFacts DEF Size
      <4> QED
        BY <2>2, <2>3, <2>4, <4>1
    <3>2. CASE n # 0
      <4>1. e = d
        BY <3>2
      <4>2. Size(n) * tens \in Nat /\ Half * d \in Nat
        BY <2>3, SizeFacts, ProductOfNats
      <4> DEFINE x == Size(n) * tens
                 y == Half * d
      <4>3. k = tens \/ x >= y \/ tens >= Half
        BY <2>2, <2>4, <4>1
      <4> HIDE DEF x, y, tens, k
      <4>4. x < y /\ tens < Half => k = tens
        BY <2>3, <4>2, <4>3 DEF x, y
      <4> QED
        BY <4>4 DEF x, y
    <3> QED
      BY <3>1, <3>2
  <2>7. Num(n, d).num = n /\ Num(n, d).denom = d
    BY DEF Num
  <2>8. Equal(s.num, Num(n, d))
    BY <2>5, <2>7 DEF Equal
  <2> HIDE DEF e
  <2> QED
    BY <2>1, <2>6, <2>7, <2>8 DEF IsDecimal
<1> QED
  BY <1>4, <1>5 DEF made

(* A number made decimal keeps its value, and has the places it says if    *)
(* there is room, at any width and for any number.                         *)
THEOREM DecimalsAreExactAlways == ReckonSpec => []DecimalsAreExact
<1>1. ReckonInit => DecimalsAreExact
  <2> SUFFICES ASSUME ReckonInit, operands # <<>>
               PROVE  DecimalsAreExact
    BY DEF DecimalsAreExact
  <2>1. PICK m \in Int, n \in Int, d \in Nat, e \in Nat :
          /\ operands[1] = Num(m, d) /\ Size(m) < Half /\ d > 0 /\ d < Half
          /\ operands[2] = Num(n, e) /\ Size(n) < Half /\ e > 0 /\ e < Half
    BY OperandsAre
  <2>2. IsDecimal(gnc_numeric_to_decimal(operands[1]), operands[1])
    BY <2>1, DecimalIs
  <2> QED
    BY <2>2 DEF DecimalsAreExact, IsDecimal
<1> QED
  BY <1>1, OperandsStay, PTL
=============================================================================
