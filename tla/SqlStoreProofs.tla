---------------------------- MODULE SqlStoreProofs ----------------------------
(***************************************************************************)
(* Proofs about SqlStore, for any sets of transactions and splits.         *)
(***************************************************************************)
EXTENDS SqlStore, TLAPS

(* How the flags and the program's place in a commit hang together.        *)
Shape ==
  /\ \A t \in open : copy[t] # 0
  /\ doomed \cap Split \subseteq listed \cap dirty
  /\ at.step \in {"trans", "splits", "destroy"} => at.trans \in open
  /\ at.step = "trans" /\ at.trans \in infant => at.trans \in dirty
  /\ at.step \in {"splits", "destroy"} =>
       /\ at.todo \subseteq SplitsOf(at.trans)
       /\ \A s \in doomed \cap Split : HomeOf[s] = at.trans => s \in at.todo
       /\ at.trans \notin infant \cup dirty
  /\ at.step = "splits" => at.trans \notin doomed
  /\ at.step = "destroy" =>
       at.todo \subseteq doomed /\ SplitsOf(at.trans) \subseteq at.todo
  /\ patched \cap infant = {}
  /\ \A s \in patched : life[HomeOf[s]] # "unborn"
  /\ \A s \in patched \cap listed : HomeOf[s] \in open => copy[s] # 0

LEMMA ShapeInit == Init => TypeOK /\ Shape
  BY Versions, Disjoint, Homes DEF Init, TypeOK, Shape, Obj, Alive, Home, SplitsOf

(* What is in memory when the book has been loaded.                        *)
Fresh(mended) ==
  /\ mended \subseteq Split
  /\ \A s \in mended : Loaded(HomeOf[s]) /\ (row[s] # 0 \/ life[s] = "unborn")
  /\ life' \in [Obj -> {"unborn", "alive", "gone"}]
  /\ \A o \in Obj :
       life'[o] = IF (row[o] # 0 /\ Loaded(Home(o))) \/ o \in mended THEN "alive"
                  ELSE IF life[o] = "unborn" THEN "unborn" ELSE "gone"
  /\ ver' \in [Obj -> 1..MaxVer]
  /\ \A o \in Obj \ mended : row[o] # 0 /\ Loaded(Home(o)) => ver'[o] = row[o]
  /\ listed' = {s \in Split : row[s] # 0 /\ Loaded(HomeOf[s])} \cup mended
  /\ infant' = {} /\ dirty' = {} /\ doomed' = {} /\ open' = {}
  /\ copy' = [o \in Obj |-> 0]
  /\ row' = row /\ patched' = mended /\ at'.step = "idle"

LEMMA LoadIsFresh == ASSUME TypeOK, Load PROVE \E mended : Fresh(mended)
<1> USE Versions, Disjoint, Homes DEF Obj, Home
<1> DEFINE back == {o \in Obj : row[o] # 0 /\ Loaded(Home(o))}
<1>1. PICK mended \in SUBSET {s \in Split : Scrubbable(s)} :
        \E data \in [mended -> 1..MaxVer] :
          /\ life' = [o \in Obj |-> IF o \in back \cup mended THEN "alive"
                                    ELSE IF life[o] = "unborn" THEN "unborn"
                                    ELSE "gone"]
          /\ ver' = [o \in Obj |-> IF o \in mended THEN data[o]
                                   ELSE IF o \in back THEN row[o] ELSE 1]
          /\ listed' = (back \cap Split) \cup mended
          /\ infant' = {} /\ patched' = mended
  BY Zenon DEF Load, LoadedFlags
<1>2. PICK data \in [mended -> 1..MaxVer] :
        ver' = [o \in Obj |-> IF o \in mended THEN data[o]
                             ELSE IF o \in back THEN row[o] ELSE 1]
  BY <1>1
<1>3. \A s \in mended : s \in Split /\ Loaded(HomeOf[s]) /\ (row[s] # 0 \/ life[s] = "unborn")
  BY <1>1 DEF Scrubbable
<1>4. \A o \in Obj : o \in back <=> row[o] # 0 /\ Loaded(Home(o))
  OBVIOUS
<1>5. back \cap Split = {s \in Split : row[s] # 0 /\ Loaded(HomeOf[s])}
  OBVIOUS
<1>6. \A o \in Obj : row[o] # 0 => row[o] \in 1..MaxVer
  BY DEF TypeOK
<1> HIDE DEF back
<1>7. ver' \in [Obj -> 1..MaxVer]
  BY <1>2, <1>4, <1>6
<1>8. \A o \in Obj \ mended : row[o] # 0 /\ Loaded(Home(o)) => ver'[o] = row[o]
  BY <1>2, <1>4
<1>9. /\ life' \in [Obj -> {"unborn", "alive", "gone"}]
      /\ \A o \in Obj :
           life'[o] = IF (row[o] # 0 /\ Loaded(Home(o))) \/ o \in mended THEN "alive"
                      ELSE IF life[o] = "unborn" THEN "unborn" ELSE "gone"
  BY <1>1, <1>4
<1>10. /\ dirty' = {} /\ doomed' = {} /\ open' = {} /\ copy' = [o \in Obj |-> 0]
       /\ row' = row /\ at'.step = "idle"
  BY DEF Load, GoIdle, Step
<1> QED
  BY <1>1, <1>3, <1>5, <1>7, <1>8, <1>9, <1>10 DEF Fresh

LEMMA ShapeStep == TypeOK /\ Shape /\ [Next]_vars => TypeOK' /\ Shape'
<1> SUFFICES ASSUME TypeOK, Shape, [Next]_vars PROVE TypeOK' /\ Shape'
  OBVIOUS
<1> USE Versions, Disjoint, Homes
<1>1. ASSUME NEW t \in Trans, NewTrans(t) PROVE TypeOK' /\ Shape'
  BY <1>1 DEF NewTrans, TypeOK, Shape, Obj, Alive, Home, SplitsOf, Idle
<1>2. ASSUME NEW t \in Trans, BeginEdit(t) PROVE TypeOK' /\ Shape'
  BY <1>2 DEF BeginEdit, TypeOK, Shape, Obj, Alive, Home, SplitsOf, Idle
<1>3. ASSUME NEW t \in Trans, TransDestroy(t) PROVE TypeOK' /\ Shape'
  BY <1>3 DEF TransDestroy, TypeOK, Shape, Obj, Alive, Home, SplitsOf, Idle
<1>4. ASSUME NEW t \in Trans, RollbackEdit(t) PROVE TypeOK' /\ Shape'
  BY <1>4 DEF RollbackEdit, Restore, MarkedClean, Undoomed, Family, TypeOK, Shape, Obj, Alive, Home, SplitsOf, Idle
<1>5. ASSUME NEW t \in Trans, Commit(t) PROVE TypeOK' /\ Shape'
  BY <1>5 DEF Commit, Step, TypeOK, Shape, Obj, Alive, Home, SplitsOf, Idle
<1>6. ASSUME NEW t \in Trans, StoreTrans(t) PROVE TypeOK' /\ Shape'
  <2> USE DEF TypeOK, Shape, Obj, Alive, Home, SplitsOf, Step
  <2>1. CASE TransStored(t) /\ (row' = row \/ row' = [row EXCEPT ![t] = Result(t)]) /\ t \notin doomed
    BY <1>6, <2>1 DEF StoreTrans, TransStored, PastInfancy, Result
  <2>2. CASE TransDeleted(t) /\ row' = [o \in Obj |-> IF o \in DeletedWith(t) THEN 0 ELSE row[o]] /\ t \in doomed
    BY <1>6, <2>2 DEF StoreTrans, TransDeleted, PastInfancy
  <2>3. CASE Restore(t) /\ GoIdle /\ UNCHANGED row
    BY <1>6, <2>3 DEF StoreTrans, Restore, GoIdle, MarkedClean, Undoomed, Family
  <2> QED BY <1>6, <2>1, <2>2, <2>3 DEF StoreTrans, NeedsSql
<1>7. ASSUME NEW t \in Trans, EndCommit(t) PROVE TypeOK' /\ Shape'
  BY <1>7 DEF EndCommit, GoIdle, Step, TypeOK, Shape, Obj, Alive, Home, SplitsOf
<1>8. ASSUME NEW s \in Split, AddSplit(s) PROVE TypeOK' /\ Shape'
  BY <1>8 DEF AddSplit, TypeOK, Shape, Obj, Alive, Home, SplitsOf, Idle
<1>9. ASSUME NEW s \in Split, SplitDestroy(s) PROVE TypeOK' /\ Shape'
  BY <1>9 DEF SplitDestroy, TypeOK, Shape, Obj, Alive, Home, SplitsOf, Idle
<1>10. ASSUME NEW s \in Split, StoreSplit(s) PROVE TypeOK' /\ Shape'
  BY <1>10 DEF StoreSplit, PastInfancy, Result, TypeOK, Shape, Obj, Alive, Home, SplitsOf
<1>11. ASSUME NEW o \in Obj, Change(o) PROVE TypeOK' /\ Shape'
  BY <1>11 DEF Change, TypeOK, Shape, Obj, Alive, Home, SplitsOf, Idle
<1>12. CASE Save
  BY <1>12 DEF Save, Step, memory, TypeOK, Shape, Obj, Alive, Home, SplitsOf, Idle
<1>13. CASE DropTable
  BY <1>13 DEF DropTable, memory, TypeOK, Shape, Obj, Alive, Home, SplitsOf, Idle
<1>14. CASE WriteAll
  BY <1>14 DEF WriteAll, GoIdle, Step, memory, TypeOK, Shape, Obj, Alive, Home, SplitsOf, Idle
<1>15. CASE Crash
  BY <1>15 DEF Crash, Step, memory, TypeOK, Shape, Obj, Alive, Home, SplitsOf
<1>16. CASE Load
  <2>1. PICK mended : Fresh(mended)
    BY <1>16, LoadIsFresh
  <2>2. \A t \in Trans : Loaded(t) => life'[t] = "alive"
    BY <2>1 DEF Fresh, Loaded, Obj, Home
  <2>3. at' = [step |-> "idle", trans |-> None, todo |-> {}]
    BY <1>16 DEF Load, GoIdle, Step
  <2> QED
    BY <2>1, <2>2, <2>3 DEF Fresh, TypeOK, Shape, Obj, Alive, Home, SplitsOf
<1>17. CASE UNCHANGED vars
  BY <1>17 DEF vars, memory, TypeOK, Shape, Obj, Alive, Home, SplitsOf
<1> QED
  BY <1>1, <1>2, <1>3, <1>4, <1>5, <1>6, <1>7, <1>8, <1>9, <1>10, <1>11,
     <1>12, <1>13, <1>14, <1>15, <1>16, <1>17 DEF Next

(* The variables keep their types (TypeOK), whatever the program, the      *)
(* server and crashes do.                                                  *)
THEOREM StoreTypes == Spec => []TypeOK
<1>1. Init => TypeOK /\ Shape
  BY ShapeInit
<1>2. TypeOK /\ Shape /\ [Next]_vars => (TypeOK /\ Shape)'
  BY ShapeStep
<1> QED BY <1>1, <1>2, PTL DEF Spec

LEMMA ShapeHolds == Spec => [](TypeOK /\ Shape)
<1>1. Init => TypeOK /\ Shape
  BY ShapeInit
<1>2. TypeOK /\ Shape /\ [Next]_vars => (TypeOK /\ Shape)'
  BY ShapeStep
<1> QED BY <1>1, <1>2, PTL DEF Spec

-----------------------------------------------------------------------------
(* A save drops the tables and writes the book into new ones.  What it is  *)
(* going to write, if nothing fails, counts for the rows while it runs.    *)
Whole == [o \in Obj |-> IF Written(o) THEN ver[o] ELSE 0]
Rows == IF at.step = "drop" THEN Whole ELSE row
Saves == Save \/ DropTable \/ WriteAll

LEMMA RowsStay == memory' = memory /\ at' = at /\ row' = row => Rows' = Rows
<1> SUFFICES ASSUME memory' = memory, at' = at, row' = row
             PROVE  Rows' = Rows
  OBVIOUS
<1>1. \A o \in Obj : Written(o)' <=> Written(o)
  BY DEF memory, Written, Reached, Posted, Home
<1> QED
  BY <1>1 DEF Rows, Whole, memory

LEMMA RowsOutsideOfSaves ==
  ASSUME TypeOK, [Next]_vars, ~Saves
  PROVE  /\ at.step # "drop" => Rows = row /\ Rows' = row'
         /\ at.step = "drop" => Crash \/ UNCHANGED vars
<1>1. CASE at.step = "drop"
  BY <1>1 DEF Next, Saves, NewTrans, BeginEdit, TransDestroy, RollbackEdit, Commit, StoreTrans,
     EndCommit, AddSplit, SplitDestroy, StoreSplit, Change, Load, Idle
<1>2. CASE at.step # "drop"
  <2>1. at'.step # "drop"
    BY <1>2 DEF Next, Saves, NewTrans, BeginEdit, TransDestroy, RollbackEdit, Commit, StoreTrans,
       TransStored, TransDeleted, EndCommit, AddSplit, SplitDestroy, StoreSplit, Change, Crash,
       Load, GoIdle, Step, vars, TypeOK
  <2> QED
    BY <1>2, <2>1 DEF Rows
<1> QED
  BY <1>1, <1>2

(* Flags: unless the program is down or the object's transaction is being  *)
(* destroyed, an infant has no row, and what has no row is an infant or    *)
(* was added by loading.                                                   *)
Known == (Trans \cap Alive) \cup listed
BeingDestroyed(o) == at.step = "destroy" /\ at.trans = Home(o)
Flags ==
  /\ \A o \in Obj : life[o] = "unborn" \/ life[Home(o)] = "unborn" => row[o] = 0
  /\ at.step # "down" =>
       \A o \in Known : ~BeingDestroyed(o) =>
         /\ o \in infant => Rows[o] = 0
         /\ Rows[o] = 0 => o \in infant \cup patched

LEMMA FlagsInit == Init => Flags
  BY Disjoint, Homes DEF Init, Flags, Rows, Known, Alive, Obj

LEMMA FlagsStep ==
  ASSUME TypeOK, Shape, TypeOK', Shape', Flags, [Next]_vars, ~Saves
  PROVE  Flags'
<1> USE Versions, Disjoint, Homes, RowsOutsideOfSaves DEF Flags, Known, BeingDestroyed,
        TypeOK, Shape, Alive, Obj, Home, SplitsOf, Step
<1>1. ASSUME NEW t \in Trans, NewTrans(t) PROVE Flags'
  BY <1>1 DEF NewTrans, Idle
<1>2. ASSUME NEW t \in Trans, BeginEdit(t) PROVE Flags'
  BY <1>2 DEF BeginEdit, Idle
<1>3. ASSUME NEW t \in Trans, TransDestroy(t) PROVE Flags'
  BY <1>3 DEF TransDestroy, Idle
<1>4. ASSUME NEW t \in Trans, RollbackEdit(t) PROVE Flags'
  BY <1>4 DEF RollbackEdit, Restore, Idle
<1>5. ASSUME NEW t \in Trans, Commit(t) PROVE Flags'
  BY <1>5 DEF Commit, Idle
<1>6. ASSUME NEW t \in Trans, StoreTrans(t) PROVE Flags'
  <2>1. CASE TransStored(t) /\ ~NeedsSql(t) /\ row' = row
    BY <1>6, <2>1 DEF StoreTrans, TransStored, PastInfancy, NeedsSql
  <2>2. CASE /\ TransStored(t) /\ t \notin doomed /\ Possible(t)
             /\ row' = [row EXCEPT ![t] = Result(t)]
    BY <1>6, <2>2 DEF StoreTrans, TransStored, PastInfancy, Result, Possible, Inserted
  <2>3. CASE TransDeleted(t) /\ row' = [o \in Obj |-> IF o \in DeletedWith(t) THEN 0 ELSE row[o]] /\ t \in doomed
    BY <1>6, <2>3 DEF StoreTrans, TransDeleted, PastInfancy, DeletedWith, Family
  <2>4. CASE Restore(t) /\ GoIdle /\ UNCHANGED row
    BY <1>6, <2>4 DEF StoreTrans, Restore, GoIdle
  <2> QED BY <1>6, <2>1, <2>2, <2>3, <2>4 DEF StoreTrans
<1>7. ASSUME NEW t \in Trans, EndCommit(t) PROVE Flags'
  BY <1>7 DEF EndCommit, GoIdle
<1>8. ASSUME NEW s \in Split, AddSplit(s) PROVE Flags'
  BY <1>8 DEF AddSplit, Idle
<1>9. ASSUME NEW s \in Split, SplitDestroy(s) PROVE Flags'
  BY <1>9 DEF SplitDestroy, Idle
<1>10. ASSUME NEW s \in Split, StoreSplit(s) PROVE Flags'
  BY <1>10 DEF StoreSplit, PastInfancy, Result, Possible, Inserted
<1>11. ASSUME NEW o \in Obj, Change(o) PROVE Flags'
  BY <1>11 DEF Change, Idle
<1>12. ~Save /\ ~DropTable /\ ~WriteAll
  BY DEF Saves
<1>13. CASE Crash
  BY <1>13 DEF Crash, memory
<1>14. CASE Load
  <2>1. PICK mended : Fresh(mended)
    BY <1>14, LoadIsFresh
  <2>2. at.step = "down" /\ at'.step = "idle"
    BY <1>14 DEF Load, GoIdle
  <2> QED
    BY <1>14, <2>1, <2>2 DEF Fresh, Loaded
<1>15. CASE UNCHANGED vars
  BY <1>15, RowsStay DEF vars, memory
<1> QED
  BY <1>1, <1>2, <1>3, <1>4, <1>5, <1>6, <1>7, <1>8, <1>9, <1>10, <1>11,
     <1>12, <1>13, <1>14, <1>15 DEF Next

LEMMA FlagsHold == ~MaySave => (Spec => [](TypeOK /\ Shape /\ Flags /\ at.step # "drop"))
<1> SUFFICES ASSUME ~MaySave PROVE Spec => [](TypeOK /\ Shape /\ Flags /\ at.step # "drop")
  OBVIOUS
<1> DEFINE Inv == TypeOK /\ Shape /\ Flags /\ at.step # "drop"
<1>1. Init => Inv
  BY ShapeInit, FlagsInit DEF Init
<1>2. Inv /\ [Next]_vars => Inv'
  <2> SUFFICES ASSUME Inv, [Next]_vars PROVE Inv'
    OBVIOUS
  <2>1. TypeOK' /\ Shape'
    BY ShapeStep
  <2>2. ~Saves
    BY DEF Saves, Save, DropTable, WriteAll
  <2>3. Flags'
    BY <2>1, <2>2, FlagsStep
  <2>4. at'.step # "drop"
    BY <2>2 DEF Saves, Next, NewTrans, BeginEdit, TransDestroy, RollbackEdit, Commit, StoreTrans,
       TransStored, TransDeleted, EndCommit, AddSplit, SplitDestroy, StoreSplit, Change, Crash,
       Load, GoIdle, Step, vars, TypeOK
  <2> QED
    BY <2>1, <2>3, <2>4
<1> QED BY <1>1, <1>2, PTL DEF Spec

LEMMA OrphansStep ==
  ASSUME ~MaySave, TypeOK, Shape, Flags, at.step # "drop", NoOrphanSplitRow, [Next]_vars
  PROVE  NoOrphanSplitRow'
<1> USE Versions, Disjoint, Homes DEF NoOrphanSplitRow, TypeOK, Shape, Alive, Obj, Home, SplitsOf
<1>1. ASSUME NEW t \in Trans, StoreTrans(t) PROVE NoOrphanSplitRow'
  <2>1. CASE row' = row
    BY <2>1
  <2>2. CASE row' = [row EXCEPT ![t] = Result(t)] /\ t \notin doomed /\ Possible(t)
    BY <2>2 DEF Result, Possible, Inserted
  <2>3. CASE row' = [o \in Obj |-> IF o \in DeletedWith(t) THEN 0 ELSE row[o]]
    BY <2>3 DEF DeletedWith, Family
  <2> QED
    BY <1>1, <2>1, <2>2, <2>3 DEF StoreTrans
<1>2. ASSUME NEW s \in Split, StoreSplit(s) PROVE NoOrphanSplitRow'
  <2>1. CASE row' = row
    BY <2>1
  <2>2. CASE row' = [row EXCEPT ![s] = Result(s)]
    <3>1. s \in at.todo /\ HomeOf[s] = at.trans /\ at.trans \in Trans \cap Alive
          /\ at.trans \notin infant
      BY <1>2 DEF StoreSplit
    <3>2. CASE at.step = "destroy"
      BY <2>2, <3>1, <3>2 DEF Result
    <3>3. CASE at.step = "splits"
      <4>1. row[HomeOf[s]] # 0
        BY <3>1, <3>3 DEF Flags, Known, BeingDestroyed, Rows
      <4> QED
        BY <2>2, <4>1
    <3> QED
      BY <1>2, <3>2, <3>3 DEF StoreSplit
  <2> QED
    BY <1>2, <2>1, <2>2 DEF StoreSplit
<1>3. ~Save /\ ~DropTable /\ ~WriteAll
  BY DEF Save, DropTable, WriteAll
<1>4. row' = row \/ \E t \in Trans : StoreTrans(t) \/ \E s \in Split : StoreSplit(s)
  BY <1>3 DEF Next, vars, NewTrans, BeginEdit, TransDestroy, RollbackEdit, Commit, EndCommit,
     AddSplit, SplitDestroy, Change, Crash, Load
<1> QED
  BY <1>1, <1>2, <1>4

(* As long as no save rewrites the tables, no row of a split ever exists   *)
(* without its transaction's row (NoOrphanSplitRow): not in the middle of  *)
(* a commit, not after a refusal, not after a crash.                       *)
THEOREM NoOrphans == ~MaySave => (Spec => []NoOrphanSplitRow)
<1> SUFFICES ASSUME ~MaySave PROVE Spec => []NoOrphanSplitRow
  OBVIOUS
<1>1. Init => NoOrphanSplitRow
  BY Disjoint, Homes DEF Init, NoOrphanSplitRow, Obj
<1>2. TypeOK /\ Shape /\ Flags /\ at.step # "drop" /\ NoOrphanSplitRow /\ [Next]_vars
        => NoOrphanSplitRow'
  BY OrphansStep
<1> QED BY <1>1, <1>2, FlagsHold, PTL DEF Spec

-----------------------------------------------------------------------------
(* A transaction that is gone has no rows: they went with it, or it never  *)
(* had any.  While its splits are destroyed the rows are gone already.     *)
NoneLeft ==
  /\ at.step # "down"
  /\ \A s \in listed : life[HomeOf[s]] = "alive"
  /\ \A t \in Trans :
       life[t] = "gone" \/ (at.step = "destroy" /\ at.trans = t) =>
         \A o \in Obj : Home(o) = t => row[o] = 0

LEMMA NoneLeftStep ==
  ASSUME ~MayCrash, TypeOK, Shape, TypeOK', Shape', NoneLeft,
         [Next]_vars
  PROVE  NoneLeft'
<1> USE Versions, Disjoint, Homes DEF NoneLeft, TypeOK, Shape, Alive, Obj,
        Home, SplitsOf, Step
<1>1. ASSUME NEW t \in Trans, NewTrans(t) PROVE NoneLeft'
  BY <1>1 DEF NewTrans, Idle
<1>2. ASSUME NEW t \in Trans, BeginEdit(t) PROVE NoneLeft'
  BY <1>2 DEF BeginEdit, Idle
<1>3. ASSUME NEW t \in Trans, TransDestroy(t) PROVE NoneLeft'
  BY <1>3 DEF TransDestroy, Idle
<1>4. ASSUME NEW t \in Trans, RollbackEdit(t) PROVE NoneLeft'
  BY <1>4 DEF RollbackEdit, Restore, Idle
<1>5. ASSUME NEW t \in Trans, Commit(t) PROVE NoneLeft'
  BY <1>5 DEF Commit, Idle
<1>6. ASSUME NEW t \in Trans, StoreTrans(t) PROVE NoneLeft'
  <2>1. CASE TransStored(t) /\ (row' = row \/ row' = [row EXCEPT ![t] = Result(t)])
    BY <1>6, <2>1 DEF StoreTrans, TransStored
  <2>2. CASE TransDeleted(t) /\ row' = [o \in Obj |-> IF o \in DeletedWith(t) THEN 0 ELSE row[o]] /\ t \in doomed
    BY <1>6, <2>2 DEF StoreTrans, TransDeleted, DeletedWith, Family
  <2>3. CASE Restore(t) /\ GoIdle /\ UNCHANGED row
    BY <1>6, <2>3 DEF StoreTrans, Restore, GoIdle
  <2> QED BY <1>6, <2>1, <2>2, <2>3 DEF StoreTrans
<1>7. ASSUME NEW t \in Trans, EndCommit(t) PROVE NoneLeft'
  BY <1>7 DEF EndCommit, GoIdle
<1>8. ASSUME NEW s \in Split, AddSplit(s) PROVE NoneLeft'
  BY <1>8 DEF AddSplit, Idle
<1>9. ASSUME NEW s \in Split, SplitDestroy(s) PROVE NoneLeft'
  BY <1>9 DEF SplitDestroy, Idle
<1>10. ASSUME NEW s \in Split, StoreSplit(s) PROVE NoneLeft'
  BY <1>10 DEF StoreSplit, Result
<1>11. ASSUME NEW o \in Obj, Change(o) PROVE NoneLeft'
  BY <1>11 DEF Change, Idle
<1>12. CASE Save
  BY <1>12 DEF Save, memory, Idle
<1>13. CASE DropTable
  BY <1>13 DEF DropTable, memory
<1>14. CASE WriteAll
  <2>1. \A o \in Obj : Written(o) => life[Home(o)] = "alive"
    BY DEF Written, Reached, Posted
  <2>2. \A o \in Obj : row'[o] # 0 => Written(o)
    BY <1>14 DEF WriteAll
  <2> QED
    BY <1>14, <2>1, <2>2 DEF WriteAll, memory, GoIdle
<1>15. ~Crash /\ ~Load
  BY DEF Crash, Load
<1>16. CASE UNCHANGED vars
  BY <1>16 DEF vars, memory
<1> QED
  BY <1>1, <1>2, <1>3, <1>4, <1>5, <1>6, <1>7, <1>8, <1>9, <1>10, <1>11,
     <1>12, <1>13, <1>14, <1>15, <1>16 DEF Next

(* A destroyed transaction leaves no row of its own or of its splits       *)
(* (DestroyedLeavesNothing), whatever the server refuses and however often *)
(* the book is saved, as long as the program does not crash.               *)
THEOREM NothingLeft ==
  ~MayCrash => (Spec => []DestroyedLeavesNothing)
<1> SUFFICES ASSUME ~MayCrash PROVE Spec => []DestroyedLeavesNothing
  OBVIOUS
<1>1. Init => NoneLeft
  BY Disjoint, Homes DEF Init, NoneLeft
<1>2. TypeOK /\ Shape /\ (TypeOK /\ Shape)' /\ NoneLeft /\ [Next]_vars
        => NoneLeft'
  BY NoneLeftStep
<1>3. NoneLeft => DestroyedLeavesNothing
  BY DEF NoneLeft, DestroyedLeavesNothing, Family
<1> QED BY <1>1, <1>2, <1>3, ShapeHolds, PTL DEF Spec

-----------------------------------------------------------------------------
(* With a server that refuses nothing: what each object's row is, at every *)
(* point of an edit and of its commit.  A crash in the middle of a save    *)
(* leaves rows of transactions that are not loaded again.                  *)
Storing(o) == at.step \in {"splits", "destroy"} /\ at.trans = Home(o)
ClosedMatch ==
  \A o \in Known : Home(o) \notin open =>
    /\ o \notin infant \cup patched => Rows[o] = ver[o]
    /\ o \in Split => o \notin infant \cup dirty /\ HomeOf[o] \notin infant
OpenMatch ==
  \A o \in Known : Home(o) \in open /\ ~Storing(o) =>
    /\ o \notin infant \cup patched =>
         copy[o] = Rows[o] /\ (o \notin dirty => ver[o] = Rows[o])
    /\ o \in Split \cap infant => copy[o] = 0 /\ o \in dirty
    /\ o \in Split /\ HomeOf[o] \in infant => o \in infant
CommitMatch ==
  at.step = "splits" =>
    \A o \in Known : Home(o) = at.trans /\ o \notin at.todo =>
      /\ o \notin infant /\ (o \in Split => o \notin dirty)
      /\ o \notin patched => Rows[o] = ver[o]
UnlistedMatch ==
  \A s \in Split \ listed :
    /\ life[HomeOf[s]] # "gone" => Rows[s] = 0
    /\ ~Storing(s) => copy[s] = 0
Matches ==
  /\ \A s \in listed : HomeOf[s] \in Alive
  /\ at.step # "down" =>
       ClosedMatch /\ OpenMatch /\ CommitMatch /\ UnlistedMatch

LEMMA MatchesInit == Init => Matches
  BY Disjoint, Homes DEF Init, Matches, ClosedMatch, OpenMatch, CommitMatch,
     UnlistedMatch, Rows, Known, Alive, Obj

LEMMA MatchesStep ==
  ASSUME ~MayRefuse, ~Saves, TypeOK, Shape, Flags, TypeOK', Shape', Flags',
         Matches, [Next]_vars
  PROVE  Matches'
<1> USE Versions, Disjoint, Homes, RowsOutsideOfSaves DEF Matches, ClosedMatch, OpenMatch,
        CommitMatch, UnlistedMatch, Storing, Flags, Known, BeingDestroyed,
        TypeOK, Shape, Alive, Obj, Home, SplitsOf, Step
<1>1. ASSUME NEW t \in Trans, NewTrans(t) PROVE Matches'
  BY <1>1 DEF NewTrans, Idle
<1>2. ASSUME NEW t \in Trans, BeginEdit(t) PROVE Matches'
  BY <1>2 DEF BeginEdit, Idle
<1>3. ASSUME NEW t \in Trans, TransDestroy(t) PROVE Matches'
  BY <1>3 DEF TransDestroy, Idle
<1>4. ASSUME NEW t \in Trans, RollbackEdit(t) PROVE Matches'
  BY <1>4 DEF RollbackEdit, Restore, Idle, MarkedClean, Undoomed, Family
<1>5. ASSUME NEW t \in Trans, Commit(t) PROVE Matches'
  BY <1>5 DEF Commit, Idle
<1>6. ASSUME NEW t \in Trans, StoreTrans(t) PROVE Matches'
  <2>1. CASE TransStored(t) /\ ~NeedsSql(t) /\ row' = row
    BY <1>6, <2>1 DEF StoreTrans, TransStored, PastInfancy, NeedsSql
  <2>2. CASE /\ TransStored(t) /\ t \notin doomed /\ Possible(t)
             /\ row' = [row EXCEPT ![t] = Result(t)]
    BY <1>6, <2>2 DEF StoreTrans, TransStored, PastInfancy, Result, Possible, Inserted
  <2>3. CASE TransDeleted(t) /\ row' = [o \in Obj |-> IF o \in DeletedWith(t) THEN 0 ELSE row[o]] /\ t \in doomed
    BY <1>6, <2>3 DEF StoreTrans, TransDeleted, PastInfancy, DeletedWith, Family
  <2>4. ~Refusable(t)
    BY <1>6 DEF StoreTrans, Refusable, Possible, Inserted
  <2> QED BY <1>6, <2>1, <2>2, <2>3, <2>4 DEF StoreTrans
<1>7. ASSUME NEW t \in Trans, EndCommit(t) PROVE Matches'
  BY <1>7 DEF EndCommit, GoIdle
<1>8. ASSUME NEW s \in Split, AddSplit(s) PROVE Matches'
  BY <1>8 DEF AddSplit, Idle
<1>9. ASSUME NEW s \in Split, SplitDestroy(s) PROVE Matches'
  BY <1>9 DEF SplitDestroy, Idle
<1>10. ASSUME NEW s \in Split, StoreSplit(s) PROVE Matches'
  BY <1>10 DEF StoreSplit, PastInfancy, Result, Possible, Inserted, Refusable
<1>11. ASSUME NEW o \in Obj, Change(o) PROVE Matches'
  BY <1>11 DEF Change, Idle
<1>12. ~Save /\ ~DropTable /\ ~WriteAll
  BY DEF Saves
<1>13. CASE Crash
  BY <1>13 DEF Crash, memory
<1>14. CASE Load
  <2>1. PICK mended : Fresh(mended)
    BY <1>14, LoadIsFresh
  <2>2. at.step = "down" /\ at'.step = "idle"
    BY <1>14 DEF Load, GoIdle
  <2> QED
    BY <1>14, <2>1, <2>2 DEF Fresh, Loaded
<1>15. CASE UNCHANGED vars
  BY <1>15, RowsStay DEF vars, memory
<1> QED
  BY <1>1, <1>2, <1>3, <1>4, <1>5, <1>6, <1>7, <1>8, <1>9, <1>10, <1>11,
     <1>12, <1>13, <1>14, <1>15 DEF Next

-----------------------------------------------------------------------------
(* In the middle of a commit: the rows that are still to be stored, and    *)
(* that a transaction which is stored has a split that is.  In the middle  *)
(* of a save no transaction that it writes is open.                        *)
StoringMatch ==
  /\ at.step = "splits" =>
       \A s \in at.todo \ patched : copy[s] = IF s \in infant THEN 0 ELSE row[s]
  /\ at.step = "destroy" =>
       at.trans \in doomed /\ \A o \in Obj : Home(o) = at.trans => row[o] = 0
  /\ at.step = "drop" => \A t \in open : ~Reached(t)
SplitKept ==
  /\ at.step \in {"trans", "splits"} /\ at.trans \notin doomed =>
       \E s \in SplitsOf(at.trans) : s \notin doomed
  /\ at.step # "down" =>
       \A t \in (Trans \cap Alive) \ infant : ~Storing(t) =>
         \E s \in SplitsOf(t) : s \notin infant

LEMMA StoringInit == Init => StoringMatch /\ SplitKept
  BY Disjoint, Homes DEF Init, StoringMatch, SplitKept, Alive, Obj

LEMMA StoringMatchStep ==
  ASSUME ~MayRefuse, ~Saves, TypeOK, Shape, Flags, TypeOK', Shape', Flags',
         Matches, StoringMatch, [Next]_vars
  PROVE  StoringMatch'
<1> USE Versions, Disjoint, Homes, RowsOutsideOfSaves DEF StoringMatch, TypeOK, Shape, Alive, Obj,
        Home, SplitsOf, Step
<1>1. ASSUME NEW t \in Trans, NewTrans(t) PROVE StoringMatch'
  BY <1>1 DEF NewTrans, Idle
<1>2. ASSUME NEW t \in Trans, BeginEdit(t) PROVE StoringMatch'
  BY <1>2 DEF BeginEdit, Idle
<1>3. ASSUME NEW t \in Trans, TransDestroy(t) PROVE StoringMatch'
  BY <1>3 DEF TransDestroy, Idle
<1>4. ASSUME NEW t \in Trans, RollbackEdit(t) PROVE StoringMatch'
  BY <1>4 DEF RollbackEdit, Restore, Idle
<1>5. ASSUME NEW t \in Trans, Commit(t) PROVE StoringMatch'
  BY <1>5 DEF Commit, Idle
<1>6. ASSUME NEW t \in Trans, StoreTrans(t) PROVE StoringMatch'
  <2>1. CASE TransStored(t) /\ (row' = row \/ row' = [row EXCEPT ![t] = Result(t)])
    BY <1>6, <2>1 DEF StoreTrans, TransStored, PastInfancy, Matches, OpenMatch,
       Known, Storing
  <2>2. CASE TransDeleted(t) /\ row' = [o \in Obj |-> IF o \in DeletedWith(t) THEN 0 ELSE row[o]] /\ t \in doomed
    BY <1>6, <2>2 DEF StoreTrans, TransDeleted, DeletedWith, Family
  <2>3. CASE Restore(t) /\ GoIdle /\ UNCHANGED row
    BY <1>6, <2>3 DEF StoreTrans, Restore, GoIdle
  <2> QED BY <1>6, <2>1, <2>2, <2>3 DEF StoreTrans
<1>7. ASSUME NEW t \in Trans, EndCommit(t) PROVE StoringMatch'
  BY <1>7 DEF EndCommit, GoIdle
<1>8. ASSUME NEW s \in Split, AddSplit(s) PROVE StoringMatch'
  BY <1>8 DEF AddSplit, Idle
<1>9. ASSUME NEW s \in Split, SplitDestroy(s) PROVE StoringMatch'
  BY <1>9 DEF SplitDestroy, Idle
<1>10. ASSUME NEW s \in Split, StoreSplit(s) PROVE StoringMatch'
  BY <1>10 DEF StoreSplit, PastInfancy, Result, Refusable
<1>11. ASSUME NEW o \in Obj, Change(o) PROVE StoringMatch'
  BY <1>11 DEF Change, Idle
<1>12. ~Save /\ ~DropTable /\ ~WriteAll
  BY DEF Saves
<1>13. CASE Crash
  BY <1>13 DEF Crash, memory
<1>14. CASE Load
  <2>1. at'.step = "idle"
    BY <1>14 DEF Load, GoIdle
  <2> QED
    BY <2>1
<1>15. CASE UNCHANGED vars
  BY <1>15 DEF vars, memory, Reached, Posted
<1> QED
  BY <1>1, <1>2, <1>3, <1>4, <1>5, <1>6, <1>7, <1>8, <1>9, <1>10, <1>11,
     <1>12, <1>13, <1>14, <1>15 DEF Next

LEMMA SplitKeptStep ==
  ASSUME ~MayRefuse, ~Saves, TypeOK, Shape, Flags, TypeOK', Shape', Flags',
         Matches, SplitKept, [Next]_vars
  PROVE  SplitKept'
<1> USE Versions, Disjoint, Homes, RowsOutsideOfSaves DEF SplitKept, Storing, TypeOK, Shape, Alive,
        Obj, Home, SplitsOf, Step
<1>1. ASSUME NEW t \in Trans, NewTrans(t) PROVE SplitKept'
  BY <1>1 DEF NewTrans, Idle
<1>2. ASSUME NEW t \in Trans, BeginEdit(t) PROVE SplitKept'
  BY <1>2 DEF BeginEdit, Idle
<1>3. ASSUME NEW t \in Trans, TransDestroy(t) PROVE SplitKept'
  BY <1>3 DEF TransDestroy, Idle
<1>4. ASSUME NEW t \in Trans, RollbackEdit(t) PROVE SplitKept'
  BY <1>4 DEF RollbackEdit, Restore, Idle, Matches, OpenMatch, Known, Flags, BeingDestroyed
<1>5. ASSUME NEW t \in Trans, Commit(t) PROVE SplitKept'
  BY <1>5 DEF Commit, Idle
<1>6. ASSUME NEW t \in Trans, StoreTrans(t) PROVE SplitKept'
  <2>1. CASE TransStored(t) /\ t \notin doomed
    BY <1>6, <2>1 DEF StoreTrans, TransStored, PastInfancy
  <2>2. CASE TransDeleted(t)
    BY <1>6, <2>2 DEF StoreTrans, TransDeleted, PastInfancy
  <2>3. ~Refusable(t)
    BY <1>6 DEF StoreTrans, Refusable, Possible, Inserted, Flags, Known, BeingDestroyed
  <2> QED BY <1>6, <2>1, <2>2, <2>3 DEF StoreTrans, NeedsSql
<1>7. ASSUME NEW t \in Trans, EndCommit(t) PROVE SplitKept'
  BY <1>7 DEF EndCommit, GoIdle, Matches, CommitMatch, Known
<1>8. ASSUME NEW s \in Split, AddSplit(s) PROVE SplitKept'
  BY <1>8 DEF AddSplit, Idle
<1>9. ASSUME NEW s \in Split, SplitDestroy(s) PROVE SplitKept'
  BY <1>9 DEF SplitDestroy, Idle
<1>10. ASSUME NEW s \in Split, StoreSplit(s) PROVE SplitKept'
  BY <1>10 DEF StoreSplit, PastInfancy
<1>11. ASSUME NEW o \in Obj, Change(o) PROVE SplitKept'
  BY <1>11 DEF Change, Idle
<1>12. ~Save /\ ~DropTable /\ ~WriteAll
  BY DEF Saves
<1>13. CASE Crash
  BY <1>13 DEF Crash, memory
<1>14. CASE Load
  <2>1. PICK mended : Fresh(mended)
    BY <1>14, LoadIsFresh
  <2>2. at.step = "down" /\ at'.step = "idle"
    BY <1>14 DEF Load, GoIdle
  <2> QED
    BY <1>14, <2>1, <2>2 DEF Fresh, Loaded
<1>15. CASE UNCHANGED vars
  BY <1>15 DEF vars, memory
<1> QED
  BY <1>1, <1>2, <1>3, <1>4, <1>5, <1>6, <1>7, <1>8, <1>9, <1>10, <1>11,
     <1>12, <1>13, <1>14, <1>15 DEF Next

LEMMA RowsDuringCommit ==
  ASSUME TypeOK, Shape, Flags, Matches, StoringMatch, SplitKept,
         at.step \in {"trans", "splits", "destroy"}, NEW o \in Family(at.trans) \ patched
  PROVE  row[o] \in {Before(o), After(o)}
<1> USE Versions, Disjoint, Homes DEF TypeOK, Shape, Alive, Obj, Home, SplitsOf, Family
<1> DEFINE t == at.trans
<1>1. t \in open /\ t \in Trans /\ t \in Alive /\ copy[t] # 0 /\ Rows = row
  BY DEF Rows
<1>2. Before(o) = IF Reached(t) THEN copy[o] ELSE 0
  BY <1>1 DEF Before, Committed
<1>3. CASE at.step = "destroy"
  BY <1>1, <1>3 DEF StoringMatch, After
<1>4. CASE at.step = "splits"
  BY <1>1, <1>2, <1>4 DEF Matches, CommitMatch, UnlistedMatch, StoringMatch, Known,
     After, Reached, Posted, Flags, BeingDestroyed
<1>5. CASE at.step = "trans"
  <2> USE DEF Matches, OpenMatch, UnlistedMatch, Known, Storing, Flags, BeingDestroyed
  <2>1. \A s \in SplitsOf(t) : s \notin infant =>
          copy[s] # 0 /\ (s \notin patched => copy[s] = row[s])
    BY <1>1, <1>5
  <2>2. CASE o \in Split
    BY <1>1, <1>2, <1>5, <2>1, <2>2 DEF After, Reached, Posted
  <2>3. CASE o = t /\ t \in infant
    <3>1. row[t] = 0 /\ \A s \in SplitsOf(t) : copy[s] = 0
      BY <1>1, <1>5, <2>3
    <3> QED
      BY <1>1, <1>2, <2>3, <3>1 DEF Reached, Posted
  <2>4. CASE o = t /\ t \notin infant
    <3>1. row[t] = copy[t]
      BY <1>1, <1>5, <2>4
    <3>2. PICK s \in SplitsOf(t) : s \notin infant
      BY <1>1, <1>5, <2>4 DEF SplitKept
    <3>3. Reached(t)
      BY <1>1, <2>1, <3>2 DEF Reached, Posted
    <3> QED
      BY <1>2, <2>4, <3>1, <3>3
  <2> QED
    BY <1>1, <2>2, <2>3, <2>4
<1> QED BY <1>3, <1>4, <1>5

-----------------------------------------------------------------------------
(* A save writes what is there, but for rows that a crash left.            *)
Steady == Flags /\ Matches /\ StoringMatch /\ SplitKept

LEMMA WholeIsStored ==
  ASSUME TypeOK, Shape, Steady, Idle, \A t \in open : ~Reached(t)
  PROVE  \A o \in Obj \ patched : life[Home(o)] # "gone" => Whole[o] = row[o]
<1> USE Versions, Disjoint, Homes DEF TypeOK, Shape, Alive, Obj, Home, Idle
<1> SUFFICES ASSUME NEW o \in Obj \ patched, life[Home(o)] # "gone"
             PROVE  Whole[o] = row[o]
  OBVIOUS
<1> DEFINE t == Home(o)
<1>1. t \in Trans /\ Rows = row /\ at.step = "idle"
  BY DEF Rows
<1>2. \A s \in listed : HomeOf[s] \in Alive
  BY DEF Steady, Matches
<1>3. CASE o \notin Trans \cup listed
  <2>1. o \in Split \ listed
    BY <1>3
  <2>2. row[o] = 0
    BY <1>1, <2>1 DEF Steady, Matches, UnlistedMatch
  <2> QED
    BY <1>3, <2>2 DEF Whole, Written
<1>4. CASE life[t] = "unborn"
  <2>1. ~Reached(t)
    BY <1>2, <1>4 DEF Reached, Posted
  <2>2. row[o] = 0
    BY <1>4 DEF Steady, Flags
  <2> QED
    BY <2>1, <2>2 DEF Whole, Written
<1>5. CASE o \in Trans \cup listed /\ life[t] = "alive"
  <2>1. o \in Known /\ t \in Known
    BY <1>1, <1>5 DEF Known
  <2>2. (o \in infant <=> row[o] = 0) /\ (t \in infant <=> row[t] = 0)
    BY <1>1, <2>1 DEF Steady, Flags, BeingDestroyed
  <2>3. t \notin infant => \E s \in SplitsOf(t) : s \notin infant
    BY <1>1, <1>5 DEF Steady, SplitKept, Storing
  <2>4. CASE t \notin open
    <3>1. \A s \in SplitsOf(t) : Posted(s)
      BY <2>4 DEF SplitsOf, Posted
    <3>2. o \notin infant => row[o] = ver[o]
      BY <1>1, <2>1, <2>4 DEF Steady, Matches, ClosedMatch
    <3>3. \A s \in SplitsOf(t) : t \notin infant /\ s \notin infant
      BY <1>1, <2>4 DEF Steady, Matches, ClosedMatch, Known, SplitsOf
    <3>4. CASE t \in infant
      <4>1. SplitsOf(t) = {}
        BY <3>3, <3>4
      <4>2. ~Reached(t) /\ o = t
        BY <1>5, <4>1 DEF Reached, Posted, SplitsOf
      <4> QED
        BY <2>2, <3>4, <4>2 DEF Whole, Written
    <3>5. CASE t \notin infant
      <4>1. Reached(t)
        BY <2>3, <3>1, <3>5 DEF Reached, SplitsOf
      <4>2. o \notin infant
        BY <1>5, <3>3, <3>5 DEF SplitsOf
      <4> QED
        BY <1>5, <3>2, <4>1, <4>2 DEF Whole, Written
    <3> QED
      BY <3>4, <3>5
  <2>5. CASE t \in open
    <3>1. ~Reached(t)
      BY <2>5
    <3>2. t \in infant
      <4>1. \A s \in SplitsOf(t) : s \notin infant => copy[s] # 0
        BY <1>1, <2>5 DEF Steady, Matches, OpenMatch, Flags, BeingDestroyed, Storing, Known, SplitsOf
      <4> QED
        BY <2>3, <3>1, <4>1 DEF Reached, Posted, SplitsOf
    <3>3. o \in infant
      BY <1>1, <1>5, <2>5, <2>1, <3>2 DEF Steady, Matches, OpenMatch, Storing
    <3> QED
      BY <2>2, <3>1, <3>3 DEF Whole, Written
  <2> QED
    BY <2>4, <2>5
<1> QED
  BY <1>1, <1>3, <1>4, <1>5

LEMMA SavesAreSteady ==
  ASSUME ~MayRefuse, TypeOK, Shape, Steady, TypeOK', Shape', Saves
  PROVE  Steady'
<1> USE Versions, Disjoint, Homes DEF TypeOK, Shape, Alive, Obj, Home
<1>1. memory' = memory
  BY DEF Saves, Save, DropTable, WriteAll
<1>2. \A o \in Obj : (Written(o)' <=> Written(o)) /\ Whole'[o] = Whole[o]
  BY <1>1 DEF memory, Written, Reached, Posted, Whole
<1>3. /\ at.step \in {"idle", "drop"} /\ at'.step \in {"idle", "drop"}
      /\ \A o \in Obj \ patched : life[Home(o)] # "gone" => Rows'[o] = Rows[o]
  <2>1. CASE Save
    <3>1. \A o \in Obj \ patched : life[Home(o)] # "gone" => Whole[o] = row[o]
      BY <2>1, WholeIsStored DEF Save
    <3> QED
      BY <1>2, <2>1, <3>1 DEF Save, Idle, Step, Rows
  <2>2. CASE DropTable
    BY <1>2, <2>2 DEF DropTable, Rows
  <2>3. CASE WriteAll
    BY <1>2, <2>3 DEF WriteAll, GoIdle, Step, Rows, Whole
  <2> QED
    BY <2>1, <2>2, <2>3 DEF Saves
<1>31. /\ \A s \in patched : s \in patched' \/ Rows'[s] # 0
       /\ \A s \in patched \ patched' : Written(s) /\ Rows'[s] = ver[s]
  BY <1>1, <1>2 DEF Saves, Save, DropTable, WriteAll, GoIdle, Step, Rows, Whole
<1>32. patched' \subseteq patched /\ \A t \in open : ~Reached(t)
  BY DEF Saves, Save, DropTable, WriteAll, Steady, StoringMatch
<1>33. \A s \in patched \ patched' : HomeOf[s] \notin open
  BY <1>31, <1>32 DEF Written
<1>34. \A s \in Split \ listed : Rows'[s] = 0
  <2>1. \A s \in Split \ listed : ~Written(s) /\ Whole[s] = 0 /\ s \in Obj
    BY DEF Written, Whole
  <2>2. \A o \in Obj : Rows'[o] = Whole'[o] \/ Rows'[o] = Whole[o]
    BY <1>2 DEF Saves, Save, DropTable, WriteAll, GoIdle, Step, Rows, Whole
  <2> QED
    BY <1>2, <2>1, <2>2
<1>4. \A o \in Obj : row'[o] # 0 => row[o] # 0 \/ Written(o)
  BY DEF Saves, Save, DropTable, WriteAll
<1>5. \A s \in listed : HomeOf[s] \in Alive
  BY DEF Steady, Matches
<1>6. \A o \in Known : o \in Obj /\ life[Home(o)] # "gone" /\ life[Home(o)] # "unborn" /\ life[o] # "unborn"
  BY <1>5 DEF Known
<1>7. \A o \in Obj : Written(o) => o \in Known
  BY <1>5 DEF Written, Reached, Posted, Known
<1>8. Known' = Known
  BY <1>1 DEF memory, Known
<1>9. Flags'
  BY <1>1, <1>3, <1>31, <1>32, <1>4, <1>6, <1>7, <1>8 DEF memory, Steady, Flags, BeingDestroyed
<1>10. Matches'
  <2>1. ClosedMatch'
    BY <1>1, <1>3, <1>31, <1>6, <1>8 DEF memory, Steady, Matches, ClosedMatch
  <2>2. OpenMatch'
    BY <1>1, <1>3, <1>32, <1>33, <1>6, <1>8 DEF memory, Steady, Matches, OpenMatch, Storing
  <2>3. CommitMatch'
    BY <1>3 DEF CommitMatch
  <2>4. UnlistedMatch'
    BY <1>1, <1>2, <1>3, <1>34 DEF memory, Steady, Matches, UnlistedMatch, Storing
  <2> QED
    BY <1>1, <1>5, <2>1, <2>2, <2>3, <2>4 DEF memory, Matches
<1>11. StoringMatch' /\ SplitKept'
  BY <1>1, <1>3, <1>32 DEF Reached, Posted, memory, Steady, StoringMatch, SplitKept, Storing, SplitsOf
<1> QED
  BY <1>9, <1>10, <1>11 DEF Steady

LEMMA AlwaysSteady == ~MayRefuse => (Spec => [](TypeOK /\ Shape /\ Steady))
<1> SUFFICES ASSUME ~MayRefuse PROVE Spec => [](TypeOK /\ Shape /\ Steady)
  OBVIOUS
<1> DEFINE Inv == TypeOK /\ Shape /\ Steady
<1>1. Init => Inv
  BY ShapeInit, FlagsInit, MatchesInit, StoringInit DEF Steady
<1>2. Inv /\ [Next]_vars => Inv'
  <2> SUFFICES ASSUME Inv, [Next]_vars PROVE Inv'
    OBVIOUS
  <2>1. TypeOK' /\ Shape'
    BY ShapeStep
  <2>2. CASE Saves
    BY <2>1, <2>2, SavesAreSteady
  <2>3. CASE ~Saves
    <3>1. Flags'
      BY <2>1, <2>3, FlagsStep DEF Steady
    <3> QED
      BY <2>1, <2>3, <3>1, MatchesStep, StoringMatchStep, SplitKeptStep DEF Steady
  <2> QED
    BY <2>2, <2>3
<1> QED BY <1>1, <1>2, PTL DEF Spec

(* With a server that refuses nothing, the database holds the last         *)
(* committed state of every posted transaction whenever no commit or save  *)
(* is running (CommittedIsStored), also after crashes and restarts and     *)
(* however often the book is saved.  The exception are splits that loading *)
(* has changed or added in a transaction whose commit a crash broke off:   *)
(* they are in memory only, until a commit finds a row for them or the     *)
(* book is saved.                                                          *)
THEOREM Stored == ~MayRefuse => (Spec => []CommittedIsStored)
<1> SUFFICES ASSUME ~MayRefuse PROVE Spec => []CommittedIsStored
  OBVIOUS
<1>1. TypeOK /\ Shape /\ Steady => CommittedIsStored
  <2> SUFFICES ASSUME TypeOK, Shape, Steady, Idle,
                      NEW t \in Trans, Reached(t), NEW o \in Family(t) \ patched
               PROVE  row[o] = Committed(o)
    BY DEF CommittedIsStored, StoredAsCommitted
  <2> USE Disjoint, Homes DEF Steady, Matches, ClosedMatch, OpenMatch, UnlistedMatch,
          Storing, Flags, Known, BeingDestroyed, TypeOK, Shape, Alive, Obj,
          Home, Reached, Posted, Committed, Family, Idle
  <2>1. Rows = row
    BY DEF Rows
  <2>2. CASE t \in open
    BY <2>1, <2>2
  <2>3. CASE t \notin open
    BY <2>1, <2>3
  <2> QED BY <2>2, <2>3
<1> QED BY <1>1, AlwaysSteady, PTL

(* With a server that refuses nothing, each row holds, at any moment of a  *)
(* commit, what was committed before or what this commit stores            *)
(* (RowsOldOrNew): that is what a crash leaves.  Splits that loading has   *)
(* mended after such a crash are excepted until they are stored.           *)
THEOREM OldOrNew == ~MayRefuse => (Spec => []RowsOldOrNew)
<1> SUFFICES ASSUME ~MayRefuse PROVE Spec => []RowsOldOrNew
  OBVIOUS
<1>1. TypeOK /\ Shape /\ Steady => RowsOldOrNew
  BY RowsDuringCommit DEF RowsOldOrNew, Steady
<1> QED BY <1>1, AlwaysSteady, PTL

(* The flag that chooses between INSERT and UPDATE agrees with the tables  *)
(* (InfantHasNoRow), after crashes, refusals and saves alike, unless both  *)
(* of the last are possible: an error in the middle of a save leaves the   *)
(* flags of what it did not get to.  A split that loading has added to     *)
(* balance what a crash left is no infant and may be without a row: its    *)
(* UPDATEs are lost, as the code loses them.                               *)
THEOREM RightStatement == ~(MaySave /\ MayRefuse) => (Spec => []InfantHasNoRow)
<1>1. TypeOK /\ Shape /\ Flags => InfantHasNoRow
  BY DEF Flags, InfantHasNoRow, Idle, Known, BeingDestroyed, Rows
<1>2. CASE ~MaySave
  BY <1>1, <1>2, FlagsHold, PTL
<1>3. CASE ~MayRefuse
  <2>1. TypeOK /\ Shape /\ Steady => InfantHasNoRow
    BY <1>1 DEF Steady
  <2> QED
    BY <1>3, <2>1, AlwaysSteady, PTL
<1> QED
  BY <1>2, <1>3
=============================================================================
