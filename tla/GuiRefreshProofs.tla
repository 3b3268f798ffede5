-------------------------- MODULE GuiRefreshProofs --------------------------
(***************************************************************************)
(* Proofs about the component manager, for any components, entities and    *)
(* kinds of events.  The argument: refreshes are suspended during a pass   *)
(* and events are off during a close loop, so that at most one of them is  *)
(* running, above the code that caused it.                                 *)
(***************************************************************************)
EXTENDS GuiRefresh, InductionLemmas, FiniteSetTheorems, SequenceTheorems, TLAPS

Upper == stack[2]
Nested == Len(stack) = 2

Caller == /\ stack[1].kind = "caller" /\ stack[1].running = Nil
          /\ stack[1].todo = {} /\ stack[1].due = {}

(* A component that is not registered watches nothing.                     *)
Known == \A c \in Id : c \notin components => info[c] = Unregistered

(* The frame of a pass or a close loop.  What a pass owes is on its list   *)
(* still and watches what it reports.  What a close loop has to close is   *)
(* registered for the session; a refresh that its handler could set off    *)
(* has no events to report.                                                *)
Passing(f) ==
  /\ f.due \subseteq f.todo
  /\ f.due \subseteq Owed(info, changes_backup)
Closing(f) ==
  /\ f.due = {}
  /\ \A c \in f.todo : c \in components /\ info[c].session
  /\ f.running \notin f.todo
  /\ changes_backup = Nothing
  /\ stack[1].held = 0 => ~got_events
Above(f) ==
  /\ f.kind \in {"refresh", "forced", "close"}
  /\ f.running = Nil => f.held = 0
  /\ IsPass(f) => Passing(f)
  /\ f.kind = "close" => Closing(f)

IInv ==
  /\ TypeOK
  /\ Known
  /\ Caller
  /\ ~Nested => changes_backup = Nothing
  /\ Nested => Above(Upper)
  /\ got_events => suspend_counter > 0
  /\ CollectedExactly

-----------------------------------------------------------------------------
(* Frames.                                                                 *)

LEMMA FrameFields ==
  ASSUME NEW f \in Frame
  PROVE  /\ f.kind \in {"caller", "refresh", "forced", "close"}
         /\ f.todo \subseteq Id /\ f.due \subseteq Id
         /\ f.running \in Id \cup {Nil} /\ f.held \in 0..MaxHeld
         /\ f.held \in Nat /\ Suspensions(f) \in Nat /\ Suspensions(f) >= f.held
         /\ IsPass(f) => Suspensions(f) > 0
         /\ ~IsPass(f) => Suspensions(f) = f.held
<1>1. f.held \in Nat
  BY Bounds DEF Frame
<1> QED
  BY <1>1 DEF Frame, Suspensions, IsPass

LEMMA Numbers == /\ MaxId \in Nat /\ MaxHeld \in Nat /\ MaxHeld >= 1
                 /\ Id \subseteq Nat /\ Nil \notin Id
                 /\ Id \subseteq 1..MaxId
  BY Bounds DEF Id, Nil

(* The stack holds one frame or two; the last one is the top.              *)
LEMMA Stack ==
  ASSUME TypeOK
  PROVE  /\ stack[1] \in Frame
         /\ Nested => top = Upper /\ Upper \in Frame /\ DOMAIN stack = {1, 2}
         /\ ~Nested => top = stack[1] /\ DOMAIN stack = {1} /\ Len(stack) = 1
         /\ stack \in Seq(Frame) /\ Len(stack) \in {1, 2}
<1>1. stack \in Seq(Frame) /\ Len(stack) \in {1, 2}
  BY DEF TypeOK
<1>2. DOMAIN stack = 1..Len(stack) /\ \A i \in 1..Len(stack) : stack[i] \in Frame
  BY <1>1
<1> QED
  BY <1>1, <1>2 DEF Nested, Upper, top

(* The counter tells what runs.                                            *)
LEMMA Counter ==
  ASSUME TypeOK
  PROVE  /\ suspend_counter \in Nat
         /\ suspend_counter >= stack[1].held
         /\ ~Nested => suspend_counter = Suspensions(stack[1])
         /\ Nested => /\ suspend_counter = Suspensions(stack[1]) + Suspensions(Upper)
                      /\ suspend_counter >= Upper.held
                      /\ IsPass(Upper) => suspend_counter > 0
<1>1. suspend_counter = Suspensions(stack[1])
                        + IF Nested THEN Suspensions(Upper) ELSE 0
  BY DEF TypeOK, Nested, Upper
<1>2. Suspensions(stack[1]) \in Nat /\ stack[1].held \in Nat
      /\ Suspensions(stack[1]) >= stack[1].held
  BY Stack, FrameFields
<1>3. Nested => Suspensions(Upper) \in Nat /\ Upper.held \in Nat
                /\ Suspensions(Upper) >= Upper.held
                /\ (IsPass(Upper) => Suspensions(Upper) > 0)
  BY Stack, FrameFields
<1> QED
  BY <1>1, <1>2, <1>3

(* The top frame is replaced by another.                                   *)
LEMMA Replaced ==
  ASSUME TypeOK, NEW f \in Frame, stack' = [stack EXCEPT ![Len(stack)] = f]
  PROVE  /\ stack' \in Seq(Frame) /\ Len(stack') = Len(stack)
         /\ stack'[Len(stack)] = f /\ stack'[1] \in Frame
         /\ Nested => Nested' /\ Upper' = f /\ stack'[1] = stack[1]
         /\ ~Nested => ~Nested' /\ stack'[1] = f
<1>1. stack \in Seq(Frame) /\ Len(stack) \in {1, 2} /\ Len(stack) \in 1..Len(stack)
  BY DEF TypeOK
<1>2. stack' \in Seq(Frame) /\ Len(stack') = Len(stack) /\ stack'[Len(stack)] = f
      /\ \A i \in 1..Len(stack) : i # Len(stack) => stack'[i] = stack[i]
  BY <1>1, ExceptSeq
<1>3. stack'[1] \in Frame
  <2>1. Len(stack') \in {1, 2}
    BY <1>1, <1>2
  <2>2. 1 \in 1..Len(stack')
    BY <2>1
  <2> QED
    BY <1>2, <2>2, ElementOfSeq
<1>4. CASE Len(stack) = 2
  BY <1>2, <1>3, <1>4 DEF Nested, Upper
<1>5. CASE Len(stack) = 1
  BY <1>2, <1>3, <1>5 DEF Nested
<1> QED
  BY <1>1, <1>4, <1>5

LEMMA AppendToOne ==
  ASSUME NEW S, NEW s \in Seq(S), Len(s) = 1, NEW f \in S
  PROVE  /\ Append(s, f) \in Seq(S) /\ Len(Append(s, f)) = 2
         /\ Append(s, f)[1] = s[1] /\ Append(s, f)[2] = f
<1>1. /\ Append(s, f) \in Seq(S)
      /\ Len(Append(s, f)) = Len(s) + 1
  OBVIOUS
<1>2. Append(s, f)[Len(s) + 1] = f
  BY AppendProperties
<1>3. Append(s, f)[1] = s[1]
  BY AppendProperties
<1> QED
  BY <1>1, <1>2, <1>3

(* A frame is put on top of the caller's, or taken off.                    *)
LEMMA Pushed ==
  ASSUME TypeOK, ~Nested, NEW b \in Frame, NEW f \in Frame, NEW frames \in Seq(Frame),
         Len(frames) = 1, frames[1] = b, stack' = Append(frames, f)
  PROVE  /\ stack' \in Seq(Frame) /\ Len(stack') = 2 /\ Nested'
         /\ Upper' = f /\ stack'[1] = b
<1>1. Append(frames, f) \in Seq(Frame) /\ Len(Append(frames, f)) = 2
      /\ Append(frames, f)[1] = frames[1] /\ Append(frames, f)[2] = f
  BY AppendToOne
<1> QED
  BY <1>1 DEF Nested, Upper

LEMMA Popped ==
  ASSUME TypeOK, Nested, stack' = Front(stack)
  PROVE  /\ stack' \in Seq(Frame) /\ Len(stack') = 1 /\ ~Nested'
         /\ stack'[1] = stack[1]
<1>1. stack \in Seq(Frame) /\ Len(stack) = 2
  BY DEF TypeOK, Nested
<1>2. stack' = [i \in 1..1 |-> stack[i]]
  BY <1>1 DEF Front
<1>3. stack[1] \in Frame
  BY <1>1
<1>4. stack' \in Seq(Frame) /\ Len(stack') = 1 /\ stack'[1] = stack[1]
  BY <1>2, <1>3
<1> QED
  BY <1>4 DEF Nested

-----------------------------------------------------------------------------
LEMMA InitIInv == Init => IInv
<1> SUFFICES ASSUME Init PROVE IInv
  OBVIOUS
<1>1. CallerFrame \in Frame /\ stack = <<CallerFrame>>
  BY Bounds DEF Init, CallerFrame, Frame
<1>2. stack \in Seq(Frame) /\ Len(stack) = 1 /\ stack[1] = CallerFrame
  BY <1>1
<1>3. Nothing \in [Topic -> SUBSET Kind] /\ Unregistered \in ComponentInfo
  BY DEF Nothing, Unregistered, ComponentInfo
<1>4. TypeOK
  <2>1. Suspensions(stack[1]) = 0
    BY <1>2 DEF Suspensions, CallerFrame, IsPass
  <2>2. suspend_counter = Suspensions(stack[1])
                          + IF Len(stack) = 2 THEN Suspensions(stack[2]) ELSE 0
    BY <1>2, <2>1 DEF Init
  <2>3. next_component_id \in 1..(MaxId + 1)
    BY Bounds DEF Init
  <2> QED
    BY <1>1, <1>2, <1>3, <2>2, <2>3 DEF Init, TypeOK
<1>5. Caller /\ ~Nested
  BY <1>2 DEF Caller, CallerFrame, Nested
<1>6. Known /\ CollectedExactly
  BY DEF Init, Known, CollectedExactly, Nothing
<1> QED
  BY <1>4, <1>5, <1>6 DEF IInv, Init

-----------------------------------------------------------------------------
(* Registering, watching, unregistering.                                   *)

LEMMA DueOwed ==
  ASSUME IInv
  PROVE  \A i \in DOMAIN stack : stack[i].due \subseteq Owed(info, changes_backup)
<1>0. TypeOK /\ stack[1].due = {}
  BY DEF IInv, Caller
<1>1. CASE Nested
  <2>1. Above(Upper)
    BY <1>1 DEF IInv
  <2>2. Upper.due \subseteq Owed(info, changes_backup)
    BY <2>1 DEF Above, Passing, Closing, IsPass
  <2>3. \A i \in DOMAIN stack : stack[i] = stack[1] \/ stack[i] = Upper
    BY <1>0, <1>1, Stack DEF Upper
  <2> QED
    BY <1>0, <2>2, <2>3
<1>2. CASE ~Nested
  BY <1>0, <1>2, Stack
<1> QED
  BY <1>1, <1>2

SameCode(f, g) == /\ g.kind = f.kind /\ g.todo = f.todo /\ g.running = f.running
                  /\ g.held = f.held /\ g.due \subseteq f.due

LEMMA TableStep ==
  ASSUME IInv, UNCHANGED <<manager, suspend_counter>>,
         next_component_id' \in 1..(MaxId + 1),
         components' \subseteq 1..(next_component_id' - 1),
         info' \in [Id -> ComponentInfo], Known',
         stack' \in Seq(Frame), Len(stack') = Len(stack),
         \A i \in DOMAIN stack :
           /\ SameCode(stack[i], stack'[i])
           /\ stack'[i].due \subseteq Owed(info', changes_backup),
         \A c \in components :
           /\ Nested /\ Upper.kind = "close"
           /\ info[c].session /\ c # Upper.running
           => c \in components' /\ info'[c].session
  PROVE  IInv'
<1> USE DEF IInv
<1>1. /\ Nested' <=> Nested
      /\ Nested => SameCode(Upper, Upper') /\ Upper'.due \subseteq Owed(info', changes_backup)
      /\ SameCode(stack[1], stack'[1])
  BY Stack DEF Nested, Upper
<1>2. UNCHANGED <<changes, changes_backup, got_events, pending>>
  BY DEF manager
<1>3. TypeOK'
  <2>1. Suspensions(stack'[1]) = Suspensions(stack[1])
    BY <1>1 DEF SameCode, Suspensions, IsPass
  <2>2. Nested => Suspensions(Upper') = Suspensions(Upper)
    BY <1>1 DEF SameCode, Suspensions, IsPass
  <2>3. (suspend_counter = Suspensions(stack[1])
                           + IF Len(stack) = 2 THEN Suspensions(stack[2]) ELSE 0)'
    BY <1>1, <2>1, <2>2 DEF TypeOK, Nested, Upper
  <2> QED
    BY <1>2, <2>3 DEF TypeOK
<1>4. Caller'
  BY <1>1 DEF Caller, SameCode
<1>5. ASSUME Nested  PROVE Above(Upper)'
  <2>1. Above(Upper)
    BY <1>5
  <2>2. IsPass(Upper) => Passing(Upper)'
    BY <1>1, <1>2, <1>5, <2>1 DEF Above, Passing, SameCode
  <2>3. Upper.kind = "close" => Closing(Upper)'
    <3> SUFFICES ASSUME Upper.kind = "close" PROVE Closing(Upper)'
      OBVIOUS
    <3>1. Closing(Upper)
      BY <2>1 DEF Above
    <3>2. \A c \in Upper'.todo : c \in components' /\ info'[c].session
      BY <1>1, <1>5, <3>1 DEF Closing, SameCode
    <3> QED
      BY <1>1, <1>2, <1>5, <3>1, <3>2 DEF Closing, SameCode
  <2> QED
    BY <1>1, <1>5, <2>1, <2>2, <2>3 DEF Above, SameCode, IsPass
<1>6. CollectedExactly'
  BY <1>2 DEF CollectedExactly
<1> QED
  BY <1>1, <1>2, <1>3, <1>4, <1>5, <1>6

(* A new component gets an id above all others.                            *)
LEMMA FreshId ==
  ASSUME TypeOK
  PROVE  /\ find_free_id \in Nat /\ find_free_id >= next_component_id
         /\ next_component_id \in Nat /\ next_component_id >= 1
         /\ \A c \in components : c \in Nat /\ c < next_component_id /\ c \in Id
<1> DEFINE S == {i \in next_component_id..(next_component_id + Cardinality(components)) :
                   i \notin components}
<1>1. next_component_id \in Nat /\ components \subseteq 1..(next_component_id - 1)
      /\ next_component_id >= 1 /\ next_component_id <= MaxId + 1 /\ MaxId \in Nat
  BY Bounds DEF TypeOK
<1>2. Cardinality(components) \in Nat
  <2>1. IsFiniteSet(1..(next_component_id - 1))
    BY <1>1, FS_Interval
  <2>2. IsFiniteSet(components)
    BY <1>1, <2>1, FS_Subset
  <2> QED
    BY <2>2, FS_CardinalityType
<1>3. S \subseteq Nat /\ next_component_id \in S
      /\ \A i \in S : next_component_id <= i
  BY <1>1, <1>2
<1>4. find_free_id = Min(S)
  BY DEF find_free_id
<1>5. \A c \in components : c \in Nat /\ c < next_component_id /\ c \in Id
  BY <1>1 DEF Id
<1> HIDE DEF S
<1>6. find_free_id \in S
  BY <1>3, <1>4, MinIsLeast
<1> QED
  BY <1>1, <1>3, <1>5, <1>6

LEMMA KnownTypes == /\ Unregistered \in ComponentInfo
                    /\ Unregistered.watch = Nothing /\ ~Unregistered.refresh
                    /\ Nothing \in [Topic -> SUBSET Kind]
  BY DEF Unregistered, ComponentInfo, Nothing

(* What changes nothing a component watches, owes what it owed.            *)
LEMMA StillOwed ==
  ASSUME NEW i2 \in [Id -> ComponentInfo],
         \A c \in Id : info[c].refresh =>
                         i2[c].refresh /\ i2[c].watch = info[c].watch
  PROVE  Owed(info, changes_backup) \subseteq Owed(i2, changes_backup)
  BY DEF Owed

LEMMA RegisterInv ==
  ASSUME IInv, NEW h \in Handlers, Register(h)
  PROVE  IInv'
<1> DEFINE id == find_free_id
<1> DEFINE new == [Unregistered EXCEPT !.refresh = h[1], !.close = h[2]]
<1>1. /\ id \in Id /\ id \notin components /\ id \in Nat
      /\ id >= next_component_id /\ id <= MaxId
      /\ \A c \in components : c \in Nat /\ c < next_component_id /\ c \in Id
      /\ next_component_id \in Nat /\ next_component_id >= 1
  BY FreshId, Numbers DEF IInv, Register, Id
<1>2. /\ components' = components \cup {id} /\ next_component_id' = id + 1
      /\ info' = [info EXCEPT ![id] = new]
      /\ UNCHANGED <<manager, suspend_counter, stack>>
  BY DEF Register
<1>3. new \in ComponentInfo
  BY PairsOfFlags, KnownTypes DEF ComponentInfo, Unregistered
<1>4. info[id] = Unregistered /\ info \in [Id -> ComponentInfo]
  BY <1>1 DEF IInv, Known, TypeOK
<1> HIDE DEF id, new
<1>5. next_component_id' \in 1..(MaxId + 1)
      /\ components' \subseteq 1..(next_component_id' - 1)
  BY <1>1, <1>2, Numbers
<1>6. info' \in [Id -> ComponentInfo] /\ \A c \in Id : c # id => info'[c] = info[c]
  BY <1>1, <1>2, <1>3, <1>4
<1>7. Known'
  BY <1>2, <1>6 DEF IInv, Known
<1>8. Owed(info, changes_backup) \subseteq Owed(info', changes_backup)
  BY <1>4, <1>6, KnownTypes, StillOwed
<1>9. \A i \in DOMAIN stack : stack[i].due \subseteq Owed(info', changes_backup)
  BY <1>8, DueOwed
<1>10. \A c \in components : info'[c] = info[c]
  BY <1>1, <1>6
<1> QED
  BY <1>2, <1>5, <1>6, <1>7, <1>9, <1>10, TableStep, Stack DEF IInv, SameCode

LEMMA SetSessionInv ==
  ASSUME IInv, NEW c \in Id, SetSession(c)
  PROVE  IInv'
<1>1. /\ c \in components
      /\ info' = [info EXCEPT ![c].session = TRUE]
      /\ UNCHANGED <<manager, components, next_component_id, suspend_counter, stack>>
  BY DEF SetSession
<1>2. info \in [Id -> ComponentInfo]
  BY DEF IInv, TypeOK
<1>3. /\ info' \in [Id -> ComponentInfo]
      /\ \A d \in Id : d # c => info'[d] = info[d]
      /\ info'[c].session
      /\ info'[c].refresh = info[c].refresh /\ info'[c].watch = info[c].watch
  BY <1>1, <1>2 DEF ComponentInfo
<1>4. Known'
  BY <1>1, <1>3 DEF IInv, Known
<1>5. \A i \in DOMAIN stack : stack[i].due \subseteq Owed(info', changes_backup)
  BY <1>3, StillOwed, DueOwed
<1>6. \A d \in components : info[d].session => info'[d].session
  BY <1>3, FreshId DEF IInv
<1> QED
  BY <1>1, <1>3, <1>4, <1>5, <1>6, TableStep, Stack DEF IInv, SameCode, TypeOK

LEMMA RewatchedStack ==
  ASSUME TypeOK, NEW i2, Rewatched(i2)
  PROVE  /\ stack' \in Seq(Frame) /\ Len(stack') = Len(stack)
         /\ \A i \in DOMAIN stack :
              /\ SameCode(stack[i], stack'[i])
              /\ stack'[i].due \subseteq Owed(i2, changes_backup)
<1>1. /\ stack \in Seq(Frame) /\ DOMAIN stack = 1..Len(stack) /\ Len(stack) \in Nat
      /\ \A i \in 1..Len(stack) : stack[i] \in Frame
  BY DEF TypeOK
<1>2. stack' = [i \in 1..Len(stack) |->
                  [stack[i] EXCEPT !.due = @ \cap Owed(i2, changes_backup)]]
  BY <1>1 DEF Rewatched
<1>3. \A i \in 1..Len(stack) :
        [stack[i] EXCEPT !.due = @ \cap Owed(i2, changes_backup)] \in Frame
  BY <1>1 DEF Frame
<1>4. stack' \in Seq(Frame) /\ Len(stack') = Len(stack)
  BY <1>1, <1>2, <1>3
<1>5. \A i \in 1..Len(stack) : /\ SameCode(stack[i], stack'[i])
                               /\ stack'[i].due \subseteq Owed(i2, changes_backup)
  BY <1>1, <1>2 DEF Frame, SameCode
<1> QED
  BY <1>1, <1>4, <1>5

LEMMA WatchInv ==
  ASSUME IInv, NEW c \in Id,
         ClearWatches(c) \/ \E t \in Topic, m \in Masks : WatchEntity(c, t, m)
  PROVE  IInv'
<1>1. /\ c \in components /\ Rewatched(info')
      /\ UNCHANGED <<manager, components, next_component_id, suspend_counter>>
  BY DEF ClearWatches, WatchEntity
<1>2. info \in [Id -> ComponentInfo]
  BY DEF IInv, TypeOK
<1>3. \E w \in [Topic -> SUBSET Kind] : info' = [info EXCEPT ![c].watch = w]
  <2>1. CASE ClearWatches(c)
    BY <2>1, KnownTypes DEF ClearWatches
  <2>2. ASSUME NEW t \in Topic, NEW m \in Masks, WatchEntity(c, t, m)
        PROVE  \E w \in [Topic -> SUBSET Kind] : info' = [info EXCEPT ![c].watch = w]
    <3>1. info' = [info EXCEPT ![c].watch = [info[c].watch EXCEPT ![t] = m]]
      BY <1>2, <2>2 DEF WatchEntity
    <3>2. info[c].watch \in [Topic -> SUBSET Kind]
      BY <1>2 DEF ComponentInfo
    <3>3. [info[c].watch EXCEPT ![t] = m] \in [Topic -> SUBSET Kind]
      BY <3>2, MasksOfKinds
    <3> QED
      BY <3>1, <3>3
  <2> QED
    BY <2>1, <2>2
<1>4. PICK w \in [Topic -> SUBSET Kind] : info' = [info EXCEPT ![c].watch = w]
  BY <1>3
<1>5. /\ info' \in [Id -> ComponentInfo]
      /\ \A d \in Id : d # c => info'[d] = info[d]
      /\ info'[c].session = info[c].session
  BY <1>2, <1>4 DEF ComponentInfo
<1>6. Known'
  BY <1>1, <1>5 DEF IInv, Known
<1>7. \A d \in components : info[d].session => info'[d].session
  BY <1>5, FreshId DEF IInv
<1>8. TypeOK
  BY DEF IInv
<1> QED
  BY <1>1, <1>5, <1>6, <1>7, <1>8, RewatchedStack, TableStep DEF TypeOK

LEMMA UnregisterInv ==
  ASSUME IInv, NEW c \in Id, Unregister(c)
  PROVE  IInv'
<1>1. /\ c \in components /\ components' = components \ {c} /\ Rewatched(info')
      /\ top.kind = "close" => c = top.running \/ ~info[c].session
      /\ info' = [info EXCEPT ![c] = Unregistered]
      /\ UNCHANGED <<manager, next_component_id, suspend_counter>>
  BY DEF Unregister
<1>2. info \in [Id -> ComponentInfo] /\ TypeOK
  BY DEF IInv, TypeOK
<1>3. /\ info' \in [Id -> ComponentInfo]
      /\ \A d \in Id : d # c => info'[d] = info[d]
      /\ info'[c] = Unregistered
  BY <1>1, <1>2, KnownTypes
<1>4. Known'
  BY <1>1, <1>3 DEF IInv, Known
<1>5. ASSUME NEW d \in components, Nested, Upper.kind = "close",
             info[d].session, d # Upper.running
      PROVE  d \in components' /\ info'[d].session
  <2>1. d # c
    BY <1>1, <1>2, <1>5, Stack
  <2> QED
    BY <1>1, <1>2, <1>3, <1>5, <2>1, FreshId
<1>6. next_component_id' \in 1..(MaxId + 1)
      /\ components' \subseteq 1..(next_component_id' - 1)
  BY <1>1, <1>2 DEF TypeOK
<1> QED
  BY <1>1, <1>2, <1>3, <1>4, <1>5, <1>6, RewatchedStack, TableStep

-----------------------------------------------------------------------------
(* Steps of the code on top of the stack.                                  *)

LEMMA Shifted ==
  ASSUME NEW a \in Nat, NEW b \in Nat, NEW d \in Nat, NEW m \in Nat, NEW n \in Nat,
         d - m = b - n
  PROVE  (a + b) + m - n = a + d /\ b + m - n = d
  OBVIOUS

LEMMA TopStep ==
  ASSUME IInv, NEW f \in Frame, stack' = [stack EXCEPT ![Len(stack)] = f],
         f.kind = top.kind, UNCHANGED <<manager, table>>,
         suspend_counter' = suspend_counter + f.held - top.held,
         got_events => suspend_counter' > 0,
         ~Nested => f.running = Nil /\ f.todo = {} /\ f.due = {},
         Nested => /\ f.running = Nil => f.held = 0
                   /\ IsPass(f) => Passing(f)
                   /\ f.kind = "close" => f.due = {} /\ f.todo \subseteq Upper.todo
                                          /\ f.running \notin f.todo
  PROVE  IInv'
<1> USE DEF IInv
<1>1. UNCHANGED <<changes, changes_backup, got_events, pending, components, info,
                  next_component_id>>
  BY DEF manager, table
<1>2. /\ stack' \in Seq(Frame) /\ Len(stack') = Len(stack)
      /\ Nested => Nested' /\ Upper' = f /\ stack'[1] = stack[1]
      /\ ~Nested => ~Nested' /\ stack'[1] = f
  BY Replaced
<1>3. TypeOK'
  <2>1. Suspensions(f) - f.held = Suspensions(top) - top.held
    BY Stack, FrameFields DEF Suspensions, IsPass
  <2>2. (suspend_counter = Suspensions(stack[1])
                           + IF Len(stack) = 2 THEN Suspensions(stack[2]) ELSE 0)'
    <3>1. CASE Nested
      <4>1. suspend_counter = Suspensions(stack[1]) + Suspensions(top)
        BY <3>1, Counter, Stack
      <4>2. /\ Suspensions(stack[1]) \in Nat /\ Suspensions(top) \in Nat
            /\ Suspensions(f) \in Nat /\ f.held \in Nat /\ top.held \in Nat
        BY <3>1, Stack, FrameFields
      <4>3. suspend_counter' = Suspensions(stack[1]) + Suspensions(f)
        <5>1. (Suspensions(stack[1]) + Suspensions(top)) + f.held - top.held
              = Suspensions(stack[1]) + Suspensions(f)
          BY ONLY <2>1, <4>2, Shifted
        <5> QED
          BY ONLY <4>1, <5>1, suspend_counter' = suspend_counter + f.held - top.held, SMTT(30)
      <4>4. Len(stack') = 2 /\ stack'[1] = stack[1] /\ stack'[2] = f
        BY <1>2, <3>1 DEF Nested, Upper
      <4> QED
        BY <4>3, <4>4
    <3>2. CASE ~Nested
      <4>1. suspend_counter = Suspensions(top)
        BY <3>2, Counter, Stack
      <4>2. /\ Suspensions(top) \in Nat
            /\ Suspensions(f) \in Nat /\ f.held \in Nat /\ top.held \in Nat
        BY <3>2, Stack, FrameFields
      <4>3. suspend_counter' = Suspensions(f)
        <5>1. Suspensions(top) + f.held - top.held = Suspensions(f)
          BY ONLY <2>1, <4>2, Shifted
        <5> QED
          BY ONLY <4>1, <5>1, suspend_counter' = suspend_counter + f.held - top.held, SMTT(30)
      <4>4. Len(stack') # 2 /\ stack'[1] = f
        BY <1>2, <3>2 DEF Nested
      <4>5. Suspensions(f) + 0 = Suspensions(f)
        BY <4>2
      <4> QED
        BY <4>3, <4>4, <4>5
    <3> QED
      BY <3>1, <3>2
  <2>3. Len(stack') \in {1, 2}
    BY <1>2 DEF TypeOK
  <2> QED
    BY <1>1, <1>2, <2>2, <2>3 DEF TypeOK
<1>4. Caller'
  <2>1. ~Nested => top = stack[1]
    BY Stack
  <2> QED
    BY <1>2, <2>1 DEF Caller
<1>5. ASSUME Nested  PROVE Above(Upper)'
  <2>1. Above(Upper) /\ Upper' = f /\ stack'[1] = stack[1] /\ f.kind = Upper.kind
    BY <1>2, <1>5, Stack
  <2>2. IsPass(f) => Passing(Upper)'
    BY <1>1, <1>5, <2>1 DEF Passing
  <2>3. f.kind = "close" => Closing(Upper)'
    BY <1>1, <1>5, <2>1 DEF Above, Closing
  <2> QED
    BY <1>5, <2>1, <2>2, <2>3 DEF Above
<1>6. Known' /\ CollectedExactly'
  BY <1>1 DEF Known, CollectedExactly
<1> QED
  BY <1>1, <1>2, <1>3, <1>4, <1>5, <1>6

(* Client code runs: that of the caller, or of a handler.                  *)
LEMMA CodeOnTop ==
  ASSUME IInv, CodeRuns
  PROVE  Nested => top = Upper /\ top.running # Nil
  BY Stack DEF IInv, CodeRuns, Above

LEMMA SuspendInv ==
  ASSUME IInv, Suspend
  PROVE  IInv'
<1> DEFINE f == [top EXCEPT !.held = @ + 1]
<1>1. TypeOK /\ top \in Frame /\ top.held < MaxHeld /\ CodeRuns
  BY Stack DEF IInv, Suspend
<1>2. /\ f \in Frame /\ f.kind = top.kind /\ f.todo = top.todo /\ f.due = top.due
      /\ f.running = top.running /\ f.held = top.held + 1 /\ f.held \in Nat
  BY <1>1, Numbers DEF Frame
<1>3. /\ stack' = [stack EXCEPT ![Len(stack)] = f]
      /\ suspend_counter' = suspend_counter + 1
      /\ UNCHANGED <<manager, table>>
  BY DEF Suspend, top, Suspended
<1> HIDE DEF f
<1>4. suspend_counter \in Nat /\ top.held \in Nat
  BY <1>1, Counter, FrameFields
<1>5. suspend_counter' = suspend_counter + f.held - top.held /\ suspend_counter' > 0
  BY <1>2, <1>3, <1>4
<1>6. ~Nested => f.running = Nil /\ f.todo = {} /\ f.due = {}
  BY <1>1, <1>2, Stack DEF IInv, Caller
<1>7. Nested => /\ top = Upper /\ f.running # Nil /\ Above(Upper)
  BY <1>1, <1>2, CodeOnTop DEF IInv
<1>8. Nested => /\ IsPass(f) => Passing(f)
                /\ f.kind = "close" => f.due = {} /\ f.todo \subseteq Upper.todo
                                       /\ f.running \notin f.todo
  BY <1>2, <1>7 DEF Above, Passing, Closing, IsPass
<1> QED
  BY <1>2, <1>3, <1>5, <1>6, <1>7, <1>8, TopStep

LEMMA ReturnInv ==
  ASSUME IInv, Return
  PROVE  IInv'
<1> DEFINE f == [top EXCEPT !.running = Nil]
<1>1. TypeOK /\ top \in Frame /\ top.running # Nil /\ top.held = 0
  BY Stack DEF IInv, Return
<1>2. /\ f \in Frame /\ f.kind = top.kind /\ f.todo = top.todo /\ f.due = top.due
      /\ f.running = Nil /\ f.held = 0
  BY <1>1, Numbers DEF Frame
<1>3. /\ stack' = [stack EXCEPT ![Len(stack)] = f]
      /\ UNCHANGED <<manager, table, suspend_counter>>
  BY DEF Return, top
<1> HIDE DEF f
<1>4. Nested /\ top = Upper /\ Above(Upper)
  BY <1>1, Stack DEF IInv, Caller
<1>5. suspend_counter \in Nat /\ suspend_counter' = suspend_counter + f.held - top.held
      /\ (got_events => suspend_counter' > 0)
  BY <1>1, <1>2, <1>3, Counter DEF IInv
<1>6. Nil \notin f.todo
  BY <1>1, <1>2, FrameFields, Numbers
<1>7. /\ IsPass(f) => Passing(f)
      /\ f.kind = "close" => f.due = {} /\ f.todo \subseteq Upper.todo
                             /\ f.running \notin f.todo
  BY <1>2, <1>4, <1>6 DEF Above, Passing, Closing, IsPass
<1> QED
  BY <1>2, <1>3, <1>4, <1>5, <1>7, TopStep

(* A pass or a close loop goes on to the next component.                   *)
LEMMA EnterInv ==
  ASSUME IInv, NEW r \in {Oldest, Nil}, Enter(r), Nested, Upper.todo # {},
         Upper.running = Nil, UNCHANGED <<manager, table, suspend_counter>>,
         IsPass(Upper) /\ r = Nil => Oldest \notin Upper.due
  PROVE  IInv'
<1> DEFINE f == [top EXCEPT !.todo = @ \ {Oldest}, !.running = r, !.due = @ \ {r}]
<1>1. TypeOK /\ top \in Frame /\ top = Upper /\ Above(Upper) /\ top.held = 0
  BY Stack DEF IInv, Above
<1>2. Oldest \in top.todo /\ top.todo \subseteq Id /\ top.due \subseteq Id
  BY <1>1, FrameFields, Numbers, MinIsLeast DEF Oldest
<1>3. Oldest \in Id /\ r \in Id \cup {Nil}
  BY <1>2
<1>4. /\ f \in Frame /\ f.kind = top.kind /\ f.todo = top.todo \ {Oldest}
      /\ f.due = top.due \ {r} /\ f.running = r /\ f.held = 0
  BY <1>1, <1>3 DEF Frame
<1>5. stack' = [stack EXCEPT ![Len(stack)] = f]
  BY DEF Enter
<1> HIDE DEF f
<1>6. suspend_counter \in Nat /\ suspend_counter' = suspend_counter + f.held - top.held
      /\ (got_events => suspend_counter' > 0)
  BY <1>1, <1>4, Counter DEF IInv
<1>7. ASSUME IsPass(f)  PROVE Passing(f)
  <2>1. IsPass(Upper) /\ Passing(Upper)
    BY <1>1, <1>4, <1>7 DEF Above, IsPass
  <2>2. Oldest \notin f.due
    BY <1>1, <1>4, <2>1
  <2> QED
    BY <1>1, <1>4, <2>1, <2>2 DEF Passing
<1>8. r \notin f.todo
  BY <1>2, <1>4, Numbers
<1>9. f.kind = "close" => f.due = {} /\ f.todo \subseteq Upper.todo
                          /\ f.running \notin f.todo
  BY <1>1, <1>4, <1>8 DEF Above, Closing
<1> QED
  BY <1>4, <1>5, <1>6, <1>7, <1>9, TopStep

LEMMA VisitInv ==
  ASSUME IInv, Visit
  PROVE  IInv'
<1>1. /\ Nested /\ top = Upper /\ IsPass(Upper) /\ Upper.todo # {} /\ Upper.running = Nil
      /\ UNCHANGED <<manager, table, suspend_counter>>
  BY Stack DEF IInv, Visit, Caller, IsPass
<1> DEFINE r == IF /\ Oldest \in components /\ info[Oldest].refresh
                   /\ top.kind = "refresh" => Reports(Oldest)
                THEN Oldest ELSE Nil
<1>2. Enter(r) /\ r \in {Oldest, Nil}
  BY DEF Visit
<1>3. r = Nil => Oldest \notin Upper.due
  <2>1. Upper.due \subseteq Owed(info, changes_backup) /\ Upper \in Frame
    BY <1>1, Stack DEF IInv, Above, Passing
  <2>2. ASSUME Oldest \in Upper.due
        PROVE  Oldest \in components /\ info[Oldest].refresh /\ Reports(Oldest)
    <3>1. Oldest \in Id /\ info[Oldest].refresh
          /\ Matches(info[Oldest].watch, changes_backup)
      BY <2>1, <2>2 DEF Owed
    <3> QED
      BY <3>1, KnownTypes DEF Reports, IInv, Known
  <2>3. Oldest \in Upper.due => Oldest \in Id
    BY <2>1 DEF Owed
  <2> QED
    BY <2>2, <2>3, Numbers
<1> HIDE DEF r
<1> QED
  BY <1>1, <1>2, <1>3, EnterInv

LEMMA CloseNextInv ==
  ASSUME IInv, CloseNext
  PROVE  IInv'
<1>1. /\ Nested /\ top = Upper /\ Upper.kind = "close" /\ Upper.todo # {}
      /\ Upper.running = Nil
      /\ UNCHANGED <<manager, table, suspend_counter>>
  BY Stack DEF IInv, CloseNext, Caller
<1>2. Enter(IF info[Oldest].close THEN Oldest ELSE Nil)
  BY DEF CloseNext
<1>3. ~IsPass(Upper)
  BY <1>1 DEF IsPass
<1> QED
  BY <1>1, <1>2, <1>3, EnterInv

(* What is collected stays collected when refreshes are resumed.           *)
LEMMA ResumeQuietlyInv ==
  ASSUME IInv, CodeRuns, top.held > 0, UNCHANGED <<manager, table>>,
         suspend_counter' = Resumed(suspend_counter),
         stack' = [stack EXCEPT ![Len(stack)].held = @ - 1],
         Resumed(suspend_counter) = 0 => ~got_events
  PROVE  IInv'
<1> DEFINE f == [top EXCEPT !.held = @ - 1]
<1>1. TypeOK /\ top \in Frame /\ top.held \in Nat /\ top.held <= MaxHeld
  BY Stack, FrameFields, Numbers DEF IInv
<1>2. /\ f \in Frame /\ f.kind = top.kind /\ f.todo = top.todo /\ f.due = top.due
      /\ f.running = top.running /\ f.held = top.held - 1 /\ f.held \in Nat
  BY <1>1, Numbers DEF Frame
<1>3. stack' = [stack EXCEPT ![Len(stack)] = f]
  BY DEF top
<1> HIDE DEF f
<1>4. suspend_counter \in Nat /\ suspend_counter >= top.held
  BY <1>1, Counter, Stack
<1>5. suspend_counter' = suspend_counter + f.held - top.held
      /\ suspend_counter' \in Nat /\ (got_events => suspend_counter' > 0)
  BY <1>1, <1>2, <1>4 DEF Resumed
<1>6. ~Nested => f.running = Nil /\ f.todo = {} /\ f.due = {}
  BY <1>1, <1>2, Stack DEF IInv, Caller
<1>7. Nested => /\ top = Upper /\ f.running # Nil /\ Above(Upper)
  BY <1>1, <1>2, CodeOnTop DEF IInv
<1>8. Nested => /\ IsPass(f) => Passing(f)
                /\ f.kind = "close" => f.due = {} /\ f.todo \subseteq Upper.todo
                                       /\ f.running \notin f.todo
  BY <1>2, <1>7 DEF Above, Passing, Closing, IsPass
<1> QED
  BY <1>2, <1>3, <1>5, <1>6, <1>7, <1>8, TopStep

-----------------------------------------------------------------------------
(* Events.                                                                 *)

LEMMA Topics == /\ \A e \in Entity : e \in Topic /\ TypeRecorded(e) \in Topic
                /\ Nothing \in [Topic -> SUBSET Kind]
                /\ \A t \in Topic : Nothing[t] = {}
  BY DEF Topic, Nothing

KindRecorded(e, k) == IF TypeOf[e] = "Split" THEN "MODIFY" ELSE k

LEMMA WhatIsRecorded ==
  ASSUME changes \in [Topic -> SUBSET Kind], NEW e \in Entity, NEW k \in Kind
  PROVE  /\ Recorded(e, k) \in [Topic -> SUBSET Kind]
         /\ \A t \in Topic, n \in Kind :
              n \in Recorded(e, k)[t] <=>
                n \in changes[t] \/ <<t, n>> \in RecordsOf(<<e, k>>)
<1> DEFINE t2 == TypeRecorded(e)
<1> DEFINE k2 == KindRecorded(e, k)
<1> DEFINE once == RecordedForEntity(e, k)
<1>1. e \in Topic /\ t2 \in Topic /\ k2 \in Kind
  BY Topics, Entities DEF KindRecorded
<1>2. RecordsOf(<<e, k>>) = {<<e, k>>, <<t2, k2>>}
  BY DEF RecordsOf, TypeRecorded, KindRecorded
<1>3. Recorded(e, k) = [once EXCEPT ![t2] = @ \cup {k2}]
  BY DEF Recorded, KindRecorded
<1> HIDE DEF t2, k2
<1>4. /\ once \in [Topic -> SUBSET Kind]
      /\ \A t \in Topic, n \in Kind :
           n \in once[t] <=> n \in changes[t] \/ (t = e /\ n = k)
  BY <1>1 DEF RecordedForEntity
<1> HIDE DEF once
<1>5. /\ Recorded(e, k) \in [Topic -> SUBSET Kind]
      /\ \A t \in Topic, n \in Kind :
           n \in Recorded(e, k)[t] <=> n \in once[t] \/ (t = t2 /\ n = k2)
  BY <1>1, <1>3, <1>4
<1> QED
  BY <1>2, <1>4, <1>5

LEMMA CollectInv ==
  ASSUME IInv, NEW e \in Entity, NEW k \in Kind, ~EventsOff, got_events' = TRUE,
         suspend_counter > 0, changes' = Recorded(e, k),
         pending' = pending \cup {<<e, k>>},
         UNCHANGED <<table, suspend_counter, changes_backup, stack>>
  PROVE  IInv'
<1> USE DEF IInv
<1>1. UNCHANGED <<components, info, next_component_id, stack, suspend_counter,
                  changes_backup>>
  BY DEF table
<1>2. changes \in [Topic -> SUBSET Kind]
  BY DEF TypeOK
<1>3. TypeOK'
  <2>1. changes' \in [Topic -> SUBSET Kind]
    BY <1>2, WhatIsRecorded
  <2>2. pending' \subseteq Entity \X Kind /\ got_events' \in BOOLEAN
    BY DEF TypeOK
  <2> QED
    BY <1>1, <2>1, <2>2 DEF TypeOK
<1>4. CollectedExactly'
  <2> SUFFICES ASSUME NEW t \in Topic, NEW n \in Kind
               PROVE  n \in changes'[t] <=> \E p \in pending' : <<t, n>> \in RecordsOf(p)
    BY DEF CollectedExactly
  <2>1. n \in changes[t] <=> \E p \in pending : <<t, n>> \in RecordsOf(p)
    BY DEF CollectedExactly
  <2> QED
    BY <1>2, <2>1, WhatIsRecorded
<1>5. ASSUME Nested  PROVE Above(Upper)'
  <2>1. Upper.kind # "close"
    BY <1>5, Stack DEF EventsOff, Upper
  <2>2. Above(Upper)
    BY <1>5
  <2> QED
    BY <1>1, <2>1, <2>2 DEF Above, Passing, Upper, IsPass
<1> QED
  BY <1>1, <1>3, <1>4, <1>5 DEF Known, Caller, Nested

(* A pass starts above a caller that has suspended nothing.                *)
LEMMA PassInv ==
  ASSUME IInv, ~Nested, NEW kind \in {"refresh", "forced"},
         NEW recorded \in [Topic -> SUBSET Kind], NEW n, n = 0,
         NEW b \in Frame, b.kind = "caller", b.running = Nil, b.todo = {},
         b.due = {}, b.held = 0,
         NEW frames \in Seq(Frame), Len(frames) = 1, frames[1] = b,
         Pass(kind, recorded, n, frames), UNCHANGED table, got_events' \in BOOLEAN
  PROVE  IInv'
<1> DEFINE f == [kind |-> kind, todo |-> components, running |-> Nil, held |-> 0,
                 due |-> IF kind = "refresh" THEN Owed(info, recorded) ELSE {}]
<1>1. /\ suspend_counter' = 1 /\ changes_backup' = recorded
      /\ changes' = Nothing /\ pending' = {} /\ stack' = Append(frames, f)
  BY DEF Pass, Suspended, Swapped, IInv
<1>2. UNCHANGED <<components, info, next_component_id>>
  BY DEF table
<1>3. TypeOK /\ Known
  BY DEF IInv
<1>4. components \subseteq Id
  BY <1>3, FreshId
<1>5. Owed(info, recorded) \subseteq components
  BY <1>3, KnownTypes DEF Owed, Known
<1>6. f \in Frame
  BY <1>4, <1>5, Numbers DEF Frame
<1>7. /\ f.kind = kind /\ f.todo = components /\ f.running = Nil /\ f.held = 0
      /\ f.due \subseteq components /\ f.due \subseteq Owed(info, recorded)
  BY <1>5
<1> HIDE DEF f
<1>8. /\ stack' \in Seq(Frame) /\ Len(stack') = 2 /\ Nested' /\ Upper' = f
      /\ stack'[1] = b
  BY <1>1, <1>3, <1>6, Pushed
<1>9. TypeOK'
  <2>1. Suspensions(f) = 1 /\ Suspensions(b) = 0
    BY <1>7 DEF Suspensions, IsPass
  <2>2. Len(stack') = 2 /\ stack'[1] = b /\ stack'[2] = f
    BY <1>8 DEF Upper
  <2>3. (suspend_counter = Suspensions(stack[1])
                           + IF Len(stack) = 2 THEN Suspensions(stack[2]) ELSE 0)'
    BY <1>1, <2>1, <2>2
  <2>4. Len(stack') \in {1, 2}
    BY <2>2
  <2> QED
    BY <1>1, <1>2, <1>3, <1>8, <2>3, <2>4, KnownTypes DEF TypeOK
<1>10. Caller'
  BY <1>8 DEF Caller
<1>11. Above(Upper)'
  <2>1. Passing(Upper)'
    BY <1>1, <1>2, <1>7, <1>8 DEF Passing
  <2> QED
    BY <1>7, <1>8, <2>1 DEF Above, IsPass
<1>12. Known' /\ CollectedExactly'
  BY <1>1, <1>2, <1>3, Topics DEF Known, CollectedExactly
<1> QED
  BY <1>1, <1>8, <1>9, <1>10, <1>11, <1>12 DEF IInv

(* Nothing but the caller is running where a pass starts.                  *)
LEMMA AloneWhenQuiet ==
  ASSUME IInv, suspend_counter = 0, ~EventsOff
  PROVE  ~Nested /\ stack[1].held = 0
<1>1. TypeOK
  BY DEF IInv
<1>2. ASSUME Nested  PROVE FALSE
  <2>1. Upper.kind \in {"refresh", "forced", "close"}
    BY <1>2 DEF IInv, Above
  <2>2. ~IsPass(Upper)
    BY <1>1, <1>2, Counter
  <2>3. Upper.kind = "close"
    BY <2>1, <2>2 DEF IsPass
  <2> QED
    BY <1>1, <1>2, <2>3, Stack DEF EventsOff, Upper
<1>3. stack[1].held \in Nat
  BY <1>1, Stack, FrameFields
<1> QED
  BY <1>1, <1>2, <1>3, Counter

LEMMA EventInv ==
  ASSUME IInv, NEW e \in Entity, NEW k \in Kind, Event(e, k)
  PROVE  IInv'
<1>1. /\ ~EventsOff /\ got_events' = TRUE /\ UNCHANGED table /\ TypeOK
      /\ changes \in [Topic -> SUBSET Kind]
  BY DEF Event, IInv, TypeOK
<1>2. CASE suspend_counter = 0
  <2>1. ~Nested /\ stack[1].held = 0
    BY <1>1, <1>2, AloneWhenQuiet
  <2>2. Pass("refresh", Recorded(e, k), suspend_counter, stack)
    BY <1>2 DEF Event
  <2>3. Recorded(e, k) \in [Topic -> SUBSET Kind]
    BY <1>1, WhatIsRecorded
  <2>4. stack \in Seq(Frame) /\ Len(stack) = 1 /\ stack[1] \in Frame /\ Caller
    BY <1>1, <2>1, Stack DEF IInv
  <2> QED
    BY <1>1, <1>2, <2>1, <2>2, <2>3, <2>4, PassInv DEF Caller
<1>3. CASE suspend_counter # 0
  <2>1. suspend_counter > 0
    BY <1>1, <1>3, Counter
  <2> QED
    BY <1>1, <1>3, <2>1, CollectInv DEF Event
<1> QED
  BY <1>2, <1>3

LEMMA ResumeInv ==
  ASSUME IInv, Resume
  PROVE  IInv'
<1> DEFINE frames == [stack EXCEPT ![Len(stack)].held = @ - 1]
<1>1. /\ CodeRuns /\ top.held > 0 /\ UNCHANGED <<table, got_events>> /\ TypeOK
      /\ changes \in [Topic -> SUBSET Kind] /\ got_events \in BOOLEAN
  BY DEF Resume, IInv, TypeOK
<1>2. CASE Resumed(suspend_counter) = 0 /\ got_events
  <2>1. suspend_counter = 1
    BY <1>1, <1>2, Counter DEF Resumed, IInv
  <2>2. top.held \in Nat
    BY <1>1, Stack, FrameFields
  <2>3. ~Nested
    <3> SUFFICES ASSUME Nested PROVE FALSE
      OBVIOUS
    <3>1. /\ top = Upper /\ Above(Upper) /\ Upper \in Frame /\ stack[1] \in Frame
          /\ suspend_counter = Suspensions(stack[1]) + Suspensions(Upper)
      BY <1>1, Stack, Counter DEF IInv
    <3>2. /\ stack[1].held \in Nat /\ Suspensions(stack[1]) \in Nat
          /\ Suspensions(stack[1]) >= stack[1].held
          /\ Suspensions(Upper) \in Nat /\ Suspensions(Upper) >= Upper.held
      BY <3>1, FrameFields
    <3>3. IsPass(Upper) => Suspensions(Upper) = Upper.held + 1
      BY DEF Suspensions
    <3>4. ~IsPass(Upper)
      BY <1>1, <2>1, <2>2, <3>1, <3>2, <3>3
    <3>5. stack[1].held = 0
      BY <1>1, <2>1, <2>2, <3>1, <3>2
    <3> QED
      BY <1>2, <3>1, <3>4, <3>5 DEF Above, Closing, IsPass
  <2> DEFINE b == [stack[1] EXCEPT !.held = @ - 1]
  <2>4. /\ stack \in Seq(Frame) /\ Len(stack) = 1 /\ stack[1] \in Frame /\ Caller
        /\ top = stack[1] /\ suspend_counter = Suspensions(stack[1])
    BY <1>1, <2>3, Stack, Counter DEF IInv
  <2>5. stack[1].held = 1
    BY <2>1, <2>4, FrameFields DEF Caller, IsPass
  <2>6. /\ b \in Frame /\ b.kind = "caller" /\ b.running = Nil /\ b.todo = {}
        /\ b.due = {} /\ b.held = 0
    BY <2>4, <2>5, Numbers DEF Frame, Caller
  <2>7. frames \in Seq(Frame) /\ Len(frames) = 1 /\ frames[1] = b
    <3>1. frames = [stack EXCEPT ![1] = b]
      BY <2>4
    <3> HIDE DEF frames, b
    <3> QED
      BY <2>4, <2>6, <3>1, ExceptSeq
  <2>8. Pass("refresh", changes, Resumed(suspend_counter), frames)
    BY <1>2 DEF Resume
  <2> HIDE DEF frames, b
  <2> QED
    BY <1>1, <1>2, <2>3, <2>6, <2>7, <2>8, PassInv
<1>3. CASE ~(Resumed(suspend_counter) = 0 /\ got_events)
  <2>1. /\ suspend_counter' = Resumed(suspend_counter) /\ stack' = frames
        /\ UNCHANGED <<changes, changes_backup, pending>>
    BY <1>3 DEF Resume
  <2>2. UNCHANGED <<manager, table>>
    BY <1>1, <2>1 DEF manager
  <2> QED
    BY <1>1, <1>3, <2>1, <2>2, ResumeQuietlyInv
<1> QED
  BY <1>2, <1>3

(* Only the caller itself is a caller.                                     *)
LEMMA CallerAlone ==
  ASSUME IInv, top.kind = "caller"
  PROVE  ~Nested
  BY Stack DEF IInv, Above

LEMMA RefreshAllInv ==
  ASSUME IInv, RefreshAll
  PROVE  IInv'
<1>1. /\ ~Nested /\ suspend_counter = 0 /\ UNCHANGED <<table, got_events>> /\ TypeOK
      /\ changes \in [Topic -> SUBSET Kind] /\ got_events \in BOOLEAN
      /\ Pass("forced", changes, suspend_counter, stack)
  BY CallerAlone DEF RefreshAll, IInv, TypeOK
<1>2. stack \in Seq(Frame) /\ Len(stack) = 1 /\ stack[1] \in Frame /\ Caller
      /\ suspend_counter >= stack[1].held
  BY <1>1, Stack, Counter DEF IInv
<1>3. stack[1].held = 0
  BY <1>1, <1>2, FrameFields
<1> QED
  BY <1>1, <1>2, <1>3, PassInv DEF Caller

LEMMA EndPassInv ==
  ASSUME IInv, EndPass
  PROVE  IInv'
<1> USE DEF IInv
<1>1. TypeOK /\ Nested /\ top = Upper /\ IsPass(Upper) /\ Upper.held = 0
  BY Stack DEF EndPass, Caller, IsPass, Above
<1>2. /\ stack' \in Seq(Frame) /\ Len(stack') = 1 /\ ~Nested' /\ stack'[1] = stack[1]
  BY <1>1, Popped DEF EndPass
<1>3. /\ suspend_counter' = Resumed(suspend_counter) /\ changes_backup' = Nothing
      /\ got_events' = FALSE
      /\ UNCHANGED <<components, info, next_component_id, changes, pending>>
  BY DEF EndPass, table
<1>4. suspend_counter = Suspensions(stack[1]) + 1 /\ Suspensions(stack[1]) \in Nat
  <2>1. Suspensions(Upper) = 1
    BY <1>1 DEF Suspensions
  <2> QED
    BY <1>1, <2>1, Counter, Stack, FrameFields
<1>5. suspend_counter' = Suspensions(stack'[1]) + 0
  BY <1>2, <1>3, <1>4 DEF Resumed
<1>6. TypeOK'
  <2>1. (suspend_counter = Suspensions(stack[1])
                           + IF Len(stack) = 2 THEN Suspensions(stack[2]) ELSE 0)'
    BY <1>2, <1>5
  <2> QED
    BY <1>1, <1>2, <1>3, <2>1, KnownTypes DEF TypeOK
<1>7. Known' /\ Caller' /\ CollectedExactly'
  BY <1>2, <1>3 DEF Known, Caller, CollectedExactly
<1> QED
  BY <1>2, <1>3, <1>6, <1>7

-----------------------------------------------------------------------------
(* Close loops.                                                            *)

LEMMA CloseBySessionInv ==
  ASSUME IInv, CloseBySession
  PROVE  IInv'
<1> USE DEF IInv
<1> DEFINE f == [kind |-> "close", running |-> Nil, held |-> 0, due |-> {},
                 todo |-> {c \in components : info[c].session}]
<1>1. TypeOK /\ ~Nested /\ Caller
  BY CallerAlone DEF CloseBySession
<1>2. /\ stack' = Append(stack, f)
      /\ UNCHANGED <<changes, changes_backup, got_events, pending, components, info,
                     next_component_id, suspend_counter>>
  BY DEF CloseBySession, manager, table
<1>3. components \subseteq Id
  BY <1>1, FreshId
<1>4. f \in Frame
  <2>1. {c \in components : info[c].session} \subseteq Id
    BY <1>3
  <2>2. {} \subseteq Id /\ 0 \in 0..MaxHeld
    BY Numbers
  <2> QED
    BY <2>1, <2>2 DEF Frame
<1>5. /\ f.kind = "close" /\ f.running = Nil /\ f.held = 0 /\ f.due = {}
      /\ f.todo \subseteq Id
      /\ \A c \in f.todo : c \in components /\ info[c].session
  BY <1>3
<1> HIDE DEF f
<1>6. stack \in Seq(Frame) /\ Len(stack) = 1 /\ stack[1] \in Frame
      /\ suspend_counter = Suspensions(stack[1])
  BY <1>1, Stack, Counter
<1>7. /\ stack' \in Seq(Frame) /\ Len(stack') = 2 /\ Nested' /\ Upper' = f
      /\ stack'[1] = stack[1]
  BY <1>1, <1>2, <1>4, <1>6, Pushed
<1>8. TypeOK'
  <2>1. Suspensions(f) = 0 /\ Suspensions(stack[1]) \in Nat
    BY <1>5, <1>6, FrameFields DEF Suspensions, IsPass
  <2>2. Len(stack') = 2 /\ stack'[1] = stack[1] /\ stack'[2] = f
    BY <1>7 DEF Upper
  <2>3. (suspend_counter = Suspensions(stack[1])
                           + IF Len(stack) = 2 THEN Suspensions(stack[2]) ELSE 0)'
    BY <1>2, <1>6, <2>1, <2>2
  <2>4. Len(stack') \in {1, 2}
    BY <2>2
  <2> QED
    BY <1>1, <1>2, <1>7, <2>3, <2>4 DEF TypeOK
<1>9. stack[1].held = 0 => ~got_events
  BY <1>1, <1>6 DEF Caller, Suspensions, IsPass
<1>10. Above(Upper)'
  <2>1. Closing(Upper)'
    BY <1>1, <1>2, <1>5, <1>7, <1>9, Numbers DEF Closing
  <2> QED
    BY <1>5, <1>7, <2>1 DEF Above, IsPass
<1>11. Known' /\ Caller' /\ CollectedExactly'
  BY <1>1, <1>2, <1>7 DEF Known, Caller, CollectedExactly
<1> QED
  BY <1>2, <1>7, <1>8, <1>10, <1>11

LEMMA EndCloseInv ==
  ASSUME IInv, EndClose
  PROVE  IInv'
<1> USE DEF IInv
<1>1. /\ TypeOK /\ Nested /\ top = Upper /\ Upper.kind = "close" /\ Upper.held = 0
      /\ changes_backup = Nothing
  BY Stack DEF EndClose, Caller, Above, Closing
<1>2. /\ stack' \in Seq(Frame) /\ Len(stack') = 1 /\ ~Nested' /\ stack'[1] = stack[1]
  BY <1>1, Popped DEF EndClose
<1>3. UNCHANGED <<changes, changes_backup, got_events, pending, components, info,
                  next_component_id, suspend_counter>>
  BY DEF EndClose, manager, table
<1>4. suspend_counter' = Suspensions(stack'[1]) + 0
  <2>1. Suspensions(Upper) = 0
    BY <1>1 DEF Suspensions, IsPass
  <2> QED
    BY <1>1, <1>2, <1>3, <2>1, Counter, Stack, FrameFields
<1>5. TypeOK'
  <2>1. (suspend_counter = Suspensions(stack[1])
                           + IF Len(stack) = 2 THEN Suspensions(stack[2]) ELSE 0)'
    BY <1>2, <1>4
  <2> QED
    BY <1>1, <1>2, <1>3, <2>1 DEF TypeOK
<1>6. Known' /\ Caller' /\ CollectedExactly'
  BY <1>2, <1>3 DEF Known, Caller, CollectedExactly
<1> QED
  BY <1>1, <1>2, <1>3, <1>5, <1>6

-----------------------------------------------------------------------------
LEMMA StutterInv == IInv /\ UNCHANGED vars => IInv'
<1> SUFFICES ASSUME IInv, UNCHANGED vars PROVE IInv'
  OBVIOUS
<1>1. UNCHANGED <<changes, changes_backup, got_events, pending, components, info,
                  next_component_id, suspend_counter, stack>>
  BY DEF vars, manager, table
<1> QED
  BY <1>1 DEF IInv, TypeOK, Known, Caller, Nested, Upper, Above, Passing, Closing,
              CollectedExactly

LEMMA StepIInv == IInv /\ [Next]_vars => IInv'
<1> SUFFICES ASSUME IInv, [Next]_vars PROVE IInv'
  OBVIOUS
<1>1. ASSUME NEW h \in Handlers, Register(h)  PROVE IInv'
  BY <1>1, RegisterInv
<1>2. ASSUME NEW c \in Id, SetSession(c)  PROVE IInv'
  BY <1>2, SetSessionInv
<1>3. ASSUME NEW c \in Id,
             ClearWatches(c) \/ \E t \in Topic, m \in Masks : WatchEntity(c, t, m)
      PROVE  IInv'
  BY <1>3, WatchInv
<1>4. ASSUME NEW c \in Id, Unregister(c)  PROVE IInv'
  BY <1>4, UnregisterInv
<1>5. ASSUME NEW e \in Entity, NEW k \in Kind, Event(e, k)  PROVE IInv'
  BY <1>5, EventInv
<1>6. CASE Suspend \/ Resume \/ RefreshAll
  BY <1>6, SuspendInv, ResumeInv, RefreshAllInv
<1>7. CASE Visit \/ Return \/ EndPass
  BY <1>7, VisitInv, ReturnInv, EndPassInv
<1>8. CASE CloseBySession \/ CloseNext \/ EndClose
  BY <1>8, CloseBySessionInv, CloseNextInv, EndCloseInv
<1>9. CASE UNCHANGED vars
  BY <1>9, StutterInv
<1> QED
  BY <1>1, <1>2, <1>3, <1>4, <1>5, <1>6, <1>7, <1>8, <1>9 DEF Next

LEMMA Invariant == Spec => []IInv
  BY InitIInv, StepIInv, PTL DEF Spec

(* Refresh passes and close loops do not nest, and the suspend counter is  *)
(* what the running code holds plus one for a pass: gnc_suspend_gui_refresh*)
(* and gnc_resume_gui_refresh are balanced by the passes themselves.       *)
THEOREM ManagerTypes == Spec => []TypeOK
<1>1. IInv => TypeOK
  BY DEF IInv
<1> QED
  BY <1>1, Invariant, PTL

(* An event that is caused in a handler waits for the next pass, and what  *)
(* a pass has reported is not reported again (gnc_cm_event_handler and the *)
(* swap of the tables in gnc_gui_refresh_internal).                        *)
THEOREM CollectsAll == Spec => []CollectedExactly
<1>1. IInv => CollectedExactly
  BY DEF IInv
<1> QED
  BY <1>1, Invariant, PTL

(* However handlers register and unregister components, a pass calls all   *)
(* those it owes a call (the loop of gnc_gui_refresh_internal).            *)
THEOREM EveryoneNotified == Spec => []Notified
<1>1. IInv => Notified
  <2> SUFFICES ASSUME IInv, NEW i \in DOMAIN stack, IsPass(stack[i]),
                      stack[i].todo = {}
               PROVE  stack[i].due = {}
    BY DEF Notified
  <2>1. TypeOK /\ Caller
    BY DEF IInv
  <2>2. Nested /\ stack[i] = Upper
    BY <2>1, Stack DEF Caller, IsPass, Upper
  <2> QED
    BY <2>2 DEF IInv, Above, Passing
<1> QED
  BY <1>1, Invariant, PTL

(* A loop that closes the components of a session never reaches a freed    *)
(* one (gnc_close_gui_component_by_session with engine events disabled).   *)
THEOREM NoFreedComponent == Spec => []NoFreedNode
<1>1. IInv => NoFreedNode
  <2> SUFFICES ASSUME IInv, NEW i \in DOMAIN stack, stack[i].kind = "close"
               PROVE  stack[i].todo \subseteq components
    BY DEF NoFreedNode
  <2>1. TypeOK /\ Caller
    BY DEF IInv
  <2>2. Nested /\ stack[i] = Upper
    BY <2>1, Stack DEF Caller, Upper
  <2> QED
    BY <2>2 DEF IInv, Above, Closing
<1> QED
  BY <1>1, Invariant, PTL

(* The table handed to refresh handlers is not changed under their eyes:   *)
(* while a pass runs, refreshes are suspended, so that no other one starts *)
(* and swaps the tables.                                                   *)
Stable == \A i \in DOMAIN stack \cap DOMAIN stack' :
            IsPass(stack[i]) => changes_backup' = changes_backup

LEMMA PassAlone ==
  ASSUME IInv, NEW i \in DOMAIN stack, IsPass(stack[i])
  PROVE  Nested /\ i = 2 /\ IsPass(Upper) /\ suspend_counter > 0
<1>1. TypeOK /\ Caller
  BY DEF IInv
<1>2. Nested /\ i = 2 /\ stack[i] = Upper
  BY <1>1, Stack DEF Caller, IsPass, Upper
<1> QED
  BY <1>1, <1>2, Counter

LEMMA StepStable == IInv /\ [Next]_vars => [Stable]_vars
<1> SUFFICES ASSUME IInv, [Next]_vars, NEW i \in DOMAIN stack \cap DOMAIN stack',
                    IsPass(stack[i])
             PROVE  changes_backup' = changes_backup
  BY DEF Stable
<1>1. Nested /\ i = 2 /\ IsPass(Upper) /\ suspend_counter > 0 /\ TypeOK
  BY PassAlone DEF IInv
<1>2. UNCHANGED manager => changes_backup' = changes_backup
  BY DEF manager
<1>3. CASE UNCHANGED vars
  BY <1>3 DEF vars, manager
<1>4. ASSUME NEW e \in Entity, NEW k \in Kind, Event(e, k)
      PROVE  changes_backup' = changes_backup
  BY <1>1, <1>4, Counter DEF Event
<1>5. CASE Resume
  <2>1. CodeRuns /\ top.held > 0 /\ top = Upper /\ Upper \in Frame /\ stack[1] \in Frame
        /\ suspend_counter = Suspensions(stack[1]) + Suspensions(Upper)
    BY <1>1, <1>5, Stack, Counter DEF Resume
  <2>2. Suspensions(Upper) = Upper.held + 1 /\ Upper.held \in Nat
        /\ Suspensions(stack[1]) \in Nat
    BY <1>1, <2>1, FrameFields DEF Suspensions
  <2>3. Resumed(suspend_counter) # 0
    BY <2>1, <2>2 DEF Resumed
  <2> QED
    BY <1>5, <2>3 DEF Resume
<1>6. CASE RefreshAll
  BY <1>1, <1>6, CallerAlone DEF RefreshAll
<1>7. CASE EndPass
  <2>1. Len(stack') = 1 /\ stack' \in Seq(Frame)
    BY <1>1, <1>7, Popped DEF EndPass
  <2>2. DOMAIN stack' = {1}
    BY <2>1
  <2> QED
    BY <1>1, <2>2
<1>8. CASE Suspend \/ CloseBySession \/ Visit \/ Return \/ CloseNext \/ EndClose
  BY <1>2, <1>8 DEF Suspend, CloseBySession, Visit, Return, CloseNext, EndClose
<1>9. ASSUME NEW h \in Handlers, Register(h)  PROVE changes_backup' = changes_backup
  BY <1>2, <1>9 DEF Register
<1>10. ASSUME NEW c \in Id, \/ SetSession(c) \/ ClearWatches(c) \/ Unregister(c)
                            \/ \E t \in Topic, m \in Masks : WatchEntity(c, t, m)
       PROVE  changes_backup' = changes_backup
  BY <1>2, <1>10 DEF SetSession, ClearWatches, Unregister, WatchEntity
<1> QED
  BY <1>3, <1>4, <1>5, <1>6, <1>7, <1>8, <1>9, <1>10 DEF Next

THEOREM TableStays == Spec => TableStable
<1>1. Spec => [][Stable]_vars
  BY Invariant, StepStable, PTL DEF Spec
<1> QED
  BY <1>1, PTL DEF TableStable, Stable
=============================================================================
