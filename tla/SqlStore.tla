------------------------------- MODULE SqlStore -------------------------------
(***************************************************************************)
(* What a transaction edit does to the database under the SQL backend      *)
(* (backend/sql, backend/dbi).  The engine commits the transaction object  *)
(* first and then every modified split, and each of these commits is an    *)
(* SQL transaction of its own.  What statement an object gets depends on   *)
(* three flags of its QofInstance: dirty, infant (never committed) and     *)
(* do_free (to be destroyed).  A step below is one call of the API by the  *)
(* program, or one SQL transaction; the program may crash between two.     *)
(*                                                                         *)
(* The data of an object is a version number, a row is the version stored  *)
(* in it.  Which splits a transaction may ever have is fixed by HomeOf.    *)
(***************************************************************************)
EXTENDS Naturals

CONSTANTS
  Trans, Split,   \* the GUIDs of transactions and splits
  HomeOf,         \* the transaction a split belongs to
  None,
  MaxVer,         \* versions of an object's data
  MayRefuse,      \* whether the server may refuse a statement
  MayCrash,       \* whether the program may crash (and is started again)
  MaySave         \* whether the user may choose Save

Obj == Trans \cup Split

ASSUME Disjoint == Trans \cap Split = {} /\ None \notin Obj
ASSUME Homes == HomeOf \in [Split -> Trans]
ASSUME Versions == MaxVer \in Nat \ {0}
ASSUME Switches == {MayRefuse, MayCrash, MaySave} \subseteq BOOLEAN

VARIABLES
  life,      \* the instance: "unborn", "alive" or "gone" (a GUID is not reused)
  ver,       \* its data
  infant, dirty, doomed,   \* the instances whose flag is set (doomed: do_free)
  listed,    \* the splits that are in their transaction's list
  open,      \* the transactions that are being edited
  copy,      \* trans->orig: the data before the edit, 0 outside of any copy
  row,       \* the database: the version in the object's row, 0 for no row
  patched,   \* splits as loading has mended them, which no commit or save stored yet
  at         \* where the program is: the step, its transaction, what is to do

memory == <<life, ver, infant, dirty, doomed, listed, open, copy>>
vars == <<memory, row, patched, at>>

Home(o) == IF o \in Split THEN HomeOf[o] ELSE o
Family(t) == {o \in Obj : Home(o) = t}
SplitsOf(t) == {s \in listed : HomeOf[s] = t}
Alive == {o \in Obj : life[o] = "alive"}

Step(name, t, todo) == at' = [step |-> name, trans |-> t, todo |-> todo]
Idle == at.step = "idle"
GoIdle == Step("idle", None, {})

Init ==
  /\ life = [o \in Obj |-> "unborn"] /\ ver = [o \in Obj |-> 1]
  /\ infant = {} /\ dirty = {} /\ doomed = {} /\ listed = {} /\ open = {}
  /\ copy = [o \in Obj |-> 0] /\ row = [o \in Obj |-> 0]
  /\ patched = {}
  /\ at = [step |-> "idle", trans |-> None, todo |-> {}]

-----------------------------------------------------------------------------
(* The engine's calls, as far as the flags are concerned.                  *)
NewTrans(t) ==   \* xaccMallocTransaction, xaccTransBeginEdit
  /\ Idle /\ life[t] = "unborn"
  /\ life' = [life EXCEPT ![t] = "alive"]
  /\ infant' = infant \cup {t}
  /\ open' = open \cup {t}
  /\ copy' = [copy EXCEPT ![t] = ver[t]]
  /\ UNCHANGED <<ver, dirty, doomed, listed, row, patched, at>>

BeginEdit(t) ==
  /\ Idle /\ life[t] = "alive" /\ t \notin open
  /\ open' = open \cup {t}
  /\ copy' = [o \in Obj |->
                IF o \in {t} \cup SplitsOf(t) THEN ver[o] ELSE copy[o]]
  /\ UNCHANGED <<life, ver, infant, dirty, doomed, listed, row, patched, at>>

Change(o) ==
  /\ Idle /\ o \in Trans \cup listed /\ Home(o) \in open /\ o \notin doomed
  /\ \E v \in (1..MaxVer) \ {ver[o]} : ver' = [ver EXCEPT ![o] = v]
  /\ dirty' = dirty \cup {o}
  /\ UNCHANGED <<life, infant, doomed, listed, open, copy, row, patched, at>>

AddSplit(s) ==   \* xaccMallocSplit, xaccSplitSetParent
  /\ Idle /\ life[s] = "unborn" /\ HomeOf[s] \in open
  /\ life' = [life EXCEPT ![s] = "alive"]
  /\ infant' = infant \cup {s}
  /\ dirty' = dirty \cup {s}
  /\ listed' = listed \cup {s}
  /\ UNCHANGED <<ver, doomed, open, copy, row, patched, at>>

SplitDestroy(s) ==
  /\ Idle /\ s \in listed \ doomed /\ HomeOf[s] \in open
  /\ dirty' = dirty \cup {s}
  /\ doomed' = doomed \cup {s}
  /\ UNCHANGED <<life, ver, infant, listed, open, copy, row, patched, at>>

TransDestroy(t) ==   \* inside an edit; the commit is the outermost one's
  /\ Idle /\ t \in open \ doomed
  /\ doomed' = doomed \cup {t}
  /\ UNCHANGED <<life, ver, infant, dirty, listed, open, copy, row, patched, at>>

(* xaccTransRollbackEdit: the splits of the copy that are dirty get their  *)
(* data back and are marked clean; the new ones are freed.                 *)
MarkedClean(t) == SplitsOf(t) \cap dirty
StillDoomed(t) == doomed \ {t}
Undoomed(t) == doomed \ Family(t)
Restore(t) ==
  LET new == {s \in SplitsOf(t) \cap dirty : copy[s] = 0}
      old == (SplitsOf(t) \cap dirty) \ new
  IN  /\ ver' = [o \in Obj |-> IF o \in {t} \cup old THEN copy[o]
                               ELSE IF o \in new THEN 1 ELSE ver[o]]
      /\ life' = [o \in Obj |-> IF o \in new THEN "gone" ELSE life[o]]
      /\ listed' = listed \ new
      /\ infant' = infant \ new
      /\ dirty' = dirty \ MarkedClean(t)
      /\ doomed' = Undoomed(t)
      /\ open' = open \ {t}
      /\ copy' = [o \in Obj |-> IF Home(o) = t THEN 0 ELSE copy[o]]

RollbackEdit(t) ==
  /\ Idle /\ t \in open
  /\ Restore(t)
  /\ UNCHANGED <<row, patched, at>>

(* The outermost xaccTransCommitEdit: an emptied transaction is destroyed, *)
(* and one that has no date_entered yet gets it, which makes it dirty.     *)
(* (The balance split that scrubbing may add is an AddSplit before.)       *)
Commit(t) ==
  /\ Idle /\ t \in open
  /\ doomed' = IF SplitsOf(t) \subseteq doomed THEN doomed \cup {t} ELSE doomed
  /\ dirty' = IF t \in infant THEN dirty \cup {t} ELSE dirty
  /\ Step("trans", t, {})
  /\ UNCHANGED <<life, ver, infant, listed, open, copy, row, patched>>

-----------------------------------------------------------------------------
(* gnc_sql_commit_edit, and the statement gnc_sql_do_db_operation builds.  *)
(* An INSERT fails if the row exists, an UPDATE of no row does nothing.    *)
NeedsSqlIfDirty(o) == o \in dirty
NeedsSql(o) == o \in dirty \cup doomed

Inserted(o) == o \in infant \ doomed
Possible(o) == Inserted(o) => row[o] = 0
Result(o) ==
  IF o \in doomed THEN 0 ELSE IF Inserted(o) \/ row[o] # 0 THEN ver[o] ELSE 0
Refusable(o) == NeedsSql(o) /\ (MayRefuse \/ ~Possible(o))

StillInfant(o) == infant
PastInfancy(o) == infant \ {o}

(* With the row of a destroyed transaction go those of its splits.         *)
DeletedWithOwn(t) == {t}
DeletedWith(t) == Family(t)

(* trans_cleanup_commit: the copy is freed, the modified splits follow.    *)
TransStored(t) ==
  /\ dirty' = dirty \ {t}
  /\ infant' = PastInfancy(t)
  /\ Step("splits", t, SplitsOf(t) \cap dirty)
  /\ UNCHANGED <<life, ver, doomed, listed, open, copy>>

(* do_destroy: each split is destroyed and committed, then the transaction *)
(* is freed.                                                               *)
TransDeleted(t) ==
  /\ dirty' = (dirty \ {t}) \cup SplitsOf(t)
  /\ infant' = PastInfancy(t)
  /\ doomed' = doomed \cup SplitsOf(t)
  /\ Step("destroy", t, SplitsOf(t))
  /\ UNCHANGED <<life, ver, listed, open, copy>>

StoreTrans(t) ==
  /\ at.step = "trans" /\ at.trans = t
  /\ \/ /\ ~NeedsSql(t)
        /\ TransStored(t)
        /\ UNCHANGED row
     \/ /\ NeedsSql(t) /\ t \notin doomed /\ Possible(t)
        /\ row' = [row EXCEPT ![t] = Result(t)]
        /\ TransStored(t)
     \/ /\ NeedsSql(t) /\ t \in doomed
        /\ row' = [o \in Obj |-> IF o \in DeletedWith(t) THEN 0 ELSE row[o]]
        /\ TransDeleted(t)
     \/ /\ Refusable(t)   \* trans_on_error
        /\ Restore(t)
        /\ GoIdle
        /\ UNCHANGED row
  /\ UNCHANGED patched

(* xaccSplitCommitEdit.  A destroyed split has left the list already; when *)
(* its commit is refused it is neither freed nor listed again.             *)
StoreSplit(s) ==
  /\ at.step \in {"splits", "destroy"} /\ s \in at.todo
  /\ at' = [at EXCEPT !.todo = @ \ {s}]
  /\ \/ /\ Possible(s)
        /\ row' = [row EXCEPT ![s] = Result(s)]
        /\ dirty' = dirty \ {s}
        /\ infant' = PastInfancy(s)
        /\ life' = IF s \in doomed THEN [life EXCEPT ![s] = "gone"] ELSE life
        /\ ver' = IF s \in doomed THEN [ver EXCEPT ![s] = 1] ELSE ver
        /\ patched' = IF s \in doomed \/ row[s] # 0 THEN patched \ {s} ELSE patched
     \/ Refusable(s) /\ UNCHANGED <<row, dirty, infant, life, ver, patched>>
  /\ listed' = listed \ (doomed \cap {s})
  /\ doomed' = doomed \ {s}
  /\ UNCHANGED <<open, copy>>

EndCommit(t) ==
  /\ at.step \in {"splits", "destroy"} /\ at.trans = t /\ at.todo = {}
  /\ open' = open \ {t}
  /\ copy' = [o \in Obj |-> IF Home(o) = t THEN 0 ELSE copy[o]]
  /\ doomed' = doomed \ {t}
  /\ \/ /\ at.step = "destroy"
        /\ life' = [life EXCEPT ![t] = "gone"]
        /\ ver' = [ver EXCEPT ![t] = 1]
     \/ at.step = "splits" /\ UNCHANGED <<life, ver>>
  /\ GoIdle
  /\ UNCHANGED <<infant, dirty, listed, row, patched>>

-----------------------------------------------------------------------------
(* Save: gnc_dbi_sync_all drops every table, each DROP on its own, and     *)
(* gnc_sql_sync_all then writes the book into new ones in one SQL          *)
(* transaction.  It finds the transactions through the split lists of the  *)
(* accounts, which a split enters when it is first committed.  Save is     *)
(* offered after pending edits have been finished, so that no transaction  *)
(* is open but the new one of a register.  The flags stay as they are.     *)
Posted(s) == s \in listed /\ (HomeOf[s] \in open => copy[s] # 0)
Reached(t) == \E s \in Split : HomeOf[s] = t /\ Posted(s)
Written(o) == o \in Trans \cup listed /\ Reached(Home(o))

Save ==
  /\ MaySave /\ Idle
  /\ \A t \in open : ~Reached(t)
  /\ Step("drop", None, Obj)
  /\ UNCHANGED <<memory, row, patched>>

DropTable ==
  /\ at.step = "drop"
  /\ \E table \in {Trans, Split} :
       /\ table \subseteq at.todo
       /\ at' = [at EXCEPT !.todo = @ \ table]
       /\ row' = [o \in Obj |-> IF o \in table THEN 0 ELSE row[o]]
  /\ UNCHANGED <<memory, patched>>

WriteAll ==
  /\ at.step = "drop" /\ at.todo = {}
  /\ \/ row' = [o \in Obj |-> IF Written(o) THEN ver[o] ELSE 0]
     \/ /\ MayRefuse   \* what was written until the error is committed
        /\ \E done \in SUBSET {o \in Obj : Written(o)} :
             row' = [o \in Obj |-> IF o \in done THEN ver[o] ELSE 0]
  /\ patched' = {s \in patched : row'[s] = 0}
  /\ GoIdle
  /\ UNCHANGED memory

(* The last state of an object that the engine regards as committed, and   *)
(* the one it has if the commit of its transaction succeeds.               *)
Committed(o) == IF Home(o) \in open THEN copy[o]
                ELSE IF o \in Trans \cup listed THEN ver[o] ELSE 0
After(o) == IF o \in (Trans \cup listed) \ doomed THEN ver[o] ELSE 0

(* The memory of a program that crashed stays in its variables until the   *)
(* next one loads the book, for the properties to compare with.            *)
Crash ==
  /\ MayCrash /\ at.step # "down"
  /\ Step("down", None, {})
  /\ UNCHANGED <<memory, row, patched>>

(* gnc_sql_load.  Splits are read by their transaction's GUID; commits     *)
(* store nothing, and one that ends with no split frees the transaction in *)
(* memory only.                                                            *)
Loaded(t) == row[t] # 0 /\ \E s \in Split : HomeOf[s] = t /\ row[s] # 0
LoadedFlags(back) == {}

(* Loaded transactions are committed with scrubbing.  In one that a broken *)
(* off commit left unbalanced, splits get another value or amount, or new  *)
(* ones are added (one, or with trading accounts one for each commodity).  *)
(* Nothing of it is stored, but all flags are cleared: such a split differs*)
(* from its row, or has none.                                              *)
BrokenOff(t) ==
  /\ \E o \in Family(t) : row[o] # Committed(o)
  /\ \E o \in Family(t) : row[o] # After(o)
Scrubbable(s) ==
  /\ Loaded(HomeOf[s]) /\ BrokenOff(HomeOf[s])
  /\ row[s] # 0 \/ life[s] = "unborn"

Load ==
  /\ at.step = "down"
  /\ LET back == {o \in Obj : row[o] # 0 /\ Loaded(Home(o))}
     IN  \E mended \in SUBSET {s \in Split : Scrubbable(s)} :
         \E data \in [mended -> 1..MaxVer] :
           /\ \A s \in mended : data[s] # row[s]
           /\ life' = [o \in Obj |-> IF o \in back \cup mended THEN "alive"
                                     ELSE IF life[o] = "unborn" THEN "unborn"
                                     ELSE "gone"]
           /\ ver' = [o \in Obj |-> IF o \in mended THEN data[o]
                                    ELSE IF o \in back THEN row[o] ELSE 1]
           /\ listed' = (back \cap Split) \cup mended
           /\ infant' = LoadedFlags(back)
           /\ patched' = mended
  /\ dirty' = {} /\ doomed' = {} /\ open' = {}
  /\ copy' = [o \in Obj |-> 0]
  /\ GoIdle
  /\ UNCHANGED row

Next ==
  \/ \E t \in Trans :
       \/ NewTrans(t) \/ BeginEdit(t) \/ TransDestroy(t) \/ RollbackEdit(t)
       \/ Commit(t) \/ StoreTrans(t) \/ EndCommit(t)
  \/ \E s \in Split : AddSplit(s) \/ SplitDestroy(s) \/ StoreSplit(s)
  \/ \E o \in Obj : Change(o)
  \/ Save \/ DropTable \/ WriteAll \/ Crash \/ Load
Spec == Init /\ [][Next]_vars

-----------------------------------------------------------------------------
(* The variables keep their types; only splits of open transactions are    *)
(* doomed while no commit runs, and a copy exists only during its edit.    *)
TypeOK ==
  /\ life \in [Obj -> {"unborn", "alive", "gone"}]
  /\ ver \in [Obj -> 1..MaxVer]
  /\ infant \cup dirty \cup doomed \subseteq Alive
  /\ listed \subseteq Split \cap Alive
  /\ open \subseteq Trans \cap Alive
  /\ copy \in [Obj -> 0..MaxVer]
  /\ row \in [Obj -> 0..MaxVer]
  /\ patched \subseteq Split \cap Alive
  /\ at \in [step: {"idle", "trans", "splits", "destroy", "drop", "down"},
            trans: Trans \cup {None}, todo: SUBSET Obj]
  /\ \A o \in Obj : Home(o) \notin open => copy[o] = 0 /\ o \notin doomed

StoredAsCommitted(t) == \A o \in Family(t) \ patched : row[o] = Committed(o)

(* Whenever no commit or save is running, the database holds the last      *)
(* committed state of every transaction that has posted splits, no row     *)
(* more and none less: edits in progress and edits rolled back leave no    *)
(* trace, and no commit or save before has put flags and rows at odds.     *)
(* What loading has mended in a transaction whose commit a crash broke off *)
(* is excepted, until a commit finds a row for it or the book is saved.    *)
CommittedIsStored ==
  Idle => \A t \in Trans : Reached(t) => StoredAsCommitted(t)

(* The flag that decides between INSERT and UPDATE agrees with the tables: *)
(* an infant has no row (its INSERT would fail), another object has one    *)
(* (its UPDATE would be lost without an error), unless it is a split that  *)
(* loading has added to balance what a crash left.                         *)
InfantHasNoRow ==
  Idle => \A o \in (Trans \cap Alive) \cup listed :
            /\ o \in infant => row[o] = 0
            /\ row[o] = 0 => o \in infant \cup patched

(* No row of a split outlives its transaction's row or comes before it,    *)
(* whatever is refused and wherever the program crashes.                   *)
NoOrphanSplitRow == \A s \in Split : row[s] # 0 => row[HomeOf[s]] # 0

(* A transaction that was destroyed leaves no row, nor do its splits, even *)
(* if the server refuses to delete the splits one by one afterwards.       *)
DestroyedLeavesNothing ==
  \A t \in Trans : life[t] = "gone" => \A o \in Family(t) : row[o] = 0

(* Of an object of the transaction that is being committed.                *)
Before(o) == IF Reached(Home(o)) THEN Committed(o) ELSE 0

(* One commit is several SQL transactions.  Wherever it breaks off, each   *)
(* row holds what was committed before or what this commit stores, never   *)
(* an older state of its object or a state that was only edited; splits    *)
(* that loading has mended are excepted until they are stored.             *)
RowsOldOrNew ==
  at.step \in {"trans", "splits", "destroy"} =>
    \A o \in Family(at.trans) \ patched : row[o] \in {Before(o), After(o)}
=============================================================================
