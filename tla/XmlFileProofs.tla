---------------------------- MODULE XmlFileProofs ----------------------------
(***************************************************************************)
(* Proofs about XmlFile, for any set of processes and any number of edits. *)
(* LockHeld and NoLostUpdate hold for users who obey the lock and do not   *)
(* choose the retention "never"; without either hypothesis TLC finds       *)
(* LockHeld violated.  Under the same hypotheses SavedSurvives needs no    *)
(* backup: a temporary or left file holds the book while it is not in the  *)
(* data file.                                                              *)
(***************************************************************************)
EXTENDS XmlFile, TLAPS

USE Switches, Retains, Kinds, Versions

Obeying == ~MayIgnore /\ "never" \notin Retentions

(* From the creation of the lock file to the end of the session.           *)
Owning == InSession \cup {"linking", "counting"}
Owner == \A p \in Proc : pc[p] \in Owning => lock = p
LockedInSession == \A p \in Proc : locked[p] => pc[p] \in InSession

(* What the owner of the lock knows of the files at each step of a save.   *)
StoredAt(p) ==
  /\ pc[p] \in {"ready", "backed", "filling", "filled", "cleaning"} =>
       data \in {from[p], p, Absent}
  /\ pc[p] \in {"filled", "unlinked"} => tmp[p] \in {mem[p], Absent}
  /\ pc[p] = "unlinked" => data = Absent
  /\ pc[p] = "copying" => data = p
  /\ pc[p] = "published" => data \in {mem[p], p}

IInv ==
  /\ TypeOK
  /\ Owner
  /\ LockedInSession
  /\ \A p \in Proc : StoredAt(p)

LEMMA InitInv == Init => IInv
<1> SUFFICES ASSUME Init PROVE IInv
  OBVIOUS
<1>1. cut \in BOOLEAN
  BY Zenon DEF Init
<1> QED
  BY <1>1 DEF Init, IInv, TypeOK, Owner, LockedInSession, StoredAt, Content,
         Complete, Owning, InSession, Saving

LEMMA StutterInv == IInv /\ UNCHANGED vars => IInv'
  BY DEF IInv, TypeOK, Owner, LockedInSession, StoredAt, vars, dir, be, book,
         hist, Content, Complete, Owning

Before == {"idle", "asked", "linking", "counting", "dead"}
Place == InSession \cup Before

(* The type invariant in three parts.                                      *)
FilesOK ==
  /\ data \in Content /\ lock \in Proc \cup {Absent}
  /\ lnk \in [Proc -> Proc \cup {Absent}] /\ tmp \in [Proc -> Content]
  /\ \A p \in Proc : tmp[p] \in Complete \cup {p, Absent}
  /\ kept \subseteq Content \ {Absent} /\ left \subseteq Content \ {Absent}
  /\ made \in [Proc -> Content]
PlacesOK ==
  /\ pc \in [Proc -> Place]
  /\ lockfile \in [Proc -> BOOLEAN] /\ linkfile \in [Proc -> BOOLEAN]
  /\ \A p \in Proc : lockfile[p] <=> pc[p] \in InSession
  /\ locked \in [Proc -> BOOLEAN]
BooksOK ==
  /\ dirty \in [Proc -> BOOLEAN]
  /\ mem \in [Proc -> Complete] /\ from \in [Proc -> Complete]
  /\ clock \in Complete /\ promised \in Complete /\ cut \in BOOLEAN

LEMMA TypeParts == TypeOK <=> FilesOK /\ PlacesOK /\ BooksOK
  BY DEF TypeOK, FilesOK, PlacesOK, BooksOK, Place, Before

LEMMA TypeWhole == FilesOK' /\ PlacesOK' /\ BooksOK' => TypeOK'
  BY DEF TypeOK, FilesOK, PlacesOK, BooksOK, Place, Before

(* What is known of the kinds of content and of the places.                *)
LEMMA Contents ==
  /\ Complete \subseteq Content /\ Proc \subseteq Content /\ Absent \in Content
  /\ Absent \notin Proc /\ Absent \notin Complete /\ Proc \cap Complete = {}
  /\ 0 \in Complete
  /\ \A v \in Complete : v < MaxVersion => v + 1 \in Complete
  BY DEF Content, Complete

LEMMA Places ==
  /\ {"idle", "asked", "linking", "counting",
     "dead"} \subseteq Place \ InSession
  /\ {"open", "ready", "closing", "backed", "filling", "filled", "unlinked",
      "copying", "published", "cleaning"} \subseteq InSession
  /\ InSession \subseteq Place
  BY DEF Place, Before, InSession, Saving

-----------------------------------------------------------------------------
(* Types, one step per action.                                             *)
LEMMA TypeStep ==
  ASSUME TypeOK, NEW p \in Proc,
         Begin(p) \/ Load(p) \/ Edit(p) \/ Save(p) \/ EndSession(p) \/ Crash(p)
  PROVE  TypeOK'
<1> USE TypeParts, Contents, Places
<1>1. CASE CreateLock(p)
  <2>1. FilesOK'
    BY <1>1 DEF FilesOK, CreateLock, LockIsFree, Goto, be, book, hist
  <2>2. PlacesOK'
    BY <1>1 DEF PlacesOK, CreateLock, LockIsFree, Goto, be, book, hist
  <2>3. BooksOK'
    BY <1>1 DEF BooksOK, CreateLock, LockIsFree, Goto, be, book, hist
  <2> QED
    BY <2>1, <2>2, <2>3, TypeWhole
<1>2. CASE Answer(p)
  <2>1. FilesOK'
    BY <1>2 DEF FilesOK, Answer, Goto, dir, book, hist
  <2>2. PlacesOK'
    <3>1. CASE Goto(p, "open") /\ lockfile' = [lockfile EXCEPT ![p] = TRUE]
      BY <1>2, <3>1 DEF PlacesOK, Answer, Goto
    <3>2. CASE Goto(p, "idle") /\ UNCHANGED lockfile
      BY <1>2, <3>2 DEF PlacesOK, Answer, Goto
    <3> QED
      BY <1>2, <3>1, <3>2 DEF Answer
  <2>3. BooksOK'
    BY <1>2 DEF BooksOK, Answer, Goto, dir, book, hist
  <2> QED
    BY <2>1, <2>2, <2>3, TypeWhole
<1>3. CASE LinkLock(p)
  <2>1. FilesOK'
    BY <1>3, ZenonT(60)
    DEF FilesOK, LinkLock, LockRefused, Acquired, Goto, be, book, hist
  <2>2. PlacesOK'
    <3>1. CASE Acquired(p) /\ UNCHANGED linkfile
      BY <1>3, <3>1 DEF PlacesOK, LinkLock, Acquired, Goto
    <3>2. CASE Goto(p, "counting") /\ UNCHANGED be
      BY <1>3, <3>2 DEF PlacesOK, LinkLock, Goto, be
    <3>3. CASE LockRefused(p)
      BY <1>3, <3>3 DEF PlacesOK, LinkLock, LockRefused, Goto, be
    <3> QED
      BY <1>3, <3>1, <3>2, <3>3 DEF LinkLock
  <2>3. BooksOK'
    BY <1>3 DEF BooksOK, LinkLock, LockRefused, Acquired, Goto, be, book, hist
  <2> QED
    BY <2>1, <2>2, <2>3, TypeWhole
<1>4. CASE CountLinks(p)
  <2>1. FilesOK'
    BY <1>4 DEF FilesOK, CountLinks, LockRefused, Acquired, Goto, book, hist
  <2>2. PlacesOK'
    <3>1. CASE Acquired(p) /\ linkfile' = [linkfile EXCEPT ![p] = TRUE]
      BY <1>4, <3>1 DEF PlacesOK, CountLinks, Acquired, Goto
    <3>2. CASE LockRefused(p)
      BY <1>4, <3>2 DEF PlacesOK, CountLinks, LockRefused, Goto, be
    <3> QED
      BY <1>4, <3>1, <3>2 DEF CountLinks
  <2>3. BooksOK'
    BY <1>4 DEF BooksOK, CountLinks, LockRefused, Acquired, Goto, book, hist
  <2> QED
    BY <2>1, <2>2, <2>3, TypeWhole
<1>5. CASE EndSession(p)
  <2>1. FilesOK'
    BY <1>5 DEF FilesOK, EndSession, Goto, book, hist
  <2>2. PlacesOK'
    BY <1>5 DEF PlacesOK, EndSession, Goto, book, hist
  <2>3. BooksOK'
    BY <1>5 DEF BooksOK, EndSession, Goto, book, hist
  <2> QED
    BY <2>1, <2>2, <2>3, TypeWhole
<1>6. CASE Load(p)
  <2>1. FilesOK'
    BY <1>6 DEF FilesOK, Load, Goto, dir, be, book, hist
  <2>2. PlacesOK'
    BY <1>6 DEF PlacesOK, Load, Goto, dir, be, book, hist
  <2>3. BooksOK'
    <3>1. CASE data \in Complete
      <4>1. /\ mem' = [mem EXCEPT ![p] = data]
            /\ from' = [from EXCEPT ![p] = data]
            /\ dirty' = [dirty EXCEPT ![p] = FALSE]
            /\ UNCHANGED hist
        BY <1>6, <3>1 DEF Load
      <4> QED
        BY <3>1, <4>1 DEF BooksOK, hist
    <3>2. CASE data \notin Complete
      BY <1>6, <3>2 DEF BooksOK, Load, book, hist
    <3> QED
      BY <3>1, <3>2
  <2> QED
    BY <2>1, <2>2, <2>3, TypeWhole
<1>7. CASE Edit(p)
  <2>1. FilesOK'
    BY <1>7 DEF FilesOK, Edit, dir, be
  <2>2. PlacesOK'
    BY <1>7 DEF PlacesOK, Edit, dir, be
  <2>3. BooksOK'
    BY <1>7 DEF BooksOK, Edit, dir, be
  <2> QED
    BY <2>1, <2>2, <2>3, TypeWhole
<1>8. CASE Backup(p)
  <2>1. FilesOK'
    <3>1. /\ data' = data /\ lock' = lock /\ lnk' = lnk /\ tmp' = tmp /\ left' = left
          /\ \E m \in {data, p, Absent} : made' = [made EXCEPT ![p] = m]
      BY <1>8 DEF Backup, CutCopies
    <3>2. kept' \subseteq kept \cup ({data, p} \ {Absent})
      BY <1>8 DEF Backup, CutCopies
    <3> QED
      BY <3>1, <3>2 DEF FilesOK
  <2>2. PlacesOK'
    BY <1>8 DEF PlacesOK, Backup, Goto, be, book, hist
  <2>3. BooksOK'
    BY <1>8 DEF BooksOK, Backup, Goto, be, book, hist
  <2> QED
    BY <2>1, <2>2, <2>3, TypeWhole
<1>9. CASE OpenTmp(p)
  <2>1. FilesOK'
    BY <1>9 DEF FilesOK, OpenTmp, Goto, be, book, hist
  <2>2. PlacesOK'
    BY <1>9 DEF PlacesOK, OpenTmp, Goto, be, book, hist
  <2>3. BooksOK'
    BY <1>9 DEF BooksOK, OpenTmp, Goto, be, book, hist
  <2> QED
    BY <2>1, <2>2, <2>3, TypeWhole
<1>10. CASE FillTmp(p)
  <2>1. FilesOK'
    <3>1. PICK c \in {Absent, mem[p]} : tmp' = [tmp EXCEPT ![p] = c]
      BY <1>10 DEF FillTmp
    <3>2. c \in Content /\ c \in Complete \cup {p, Absent}
      BY <3>1 DEF BooksOK
    <3> QED
      BY <1>10, <3>1, <3>2 DEF FilesOK, FillTmp
  <2>2. PlacesOK'
    BY <1>10 DEF PlacesOK, FillTmp, Fault, Goto, be, book, hist
  <2>3. BooksOK'
    BY <1>10 DEF BooksOK, FillTmp, Fault, Goto, be, book, hist
  <2> QED
    BY <2>1, <2>2, <2>3, TypeWhole
<1>11. CASE UnlinkData(p)
  <2>1. FilesOK'
    BY <1>11 DEF FilesOK, UnlinkData, Goto, be, book, hist
  <2>2. PlacesOK'
    BY <1>11 DEF PlacesOK, UnlinkData, Goto, be, book, hist
  <2>3. BooksOK'
    BY <1>11 DEF BooksOK, UnlinkData, Goto, be, book, hist
  <2> QED
    BY <2>1, <2>2, <2>3, TypeWhole
<1>12. CASE LinkData(p)
  <2>1. FilesOK'
    BY <1>12, ZenonT(60) DEF FilesOK, LinkData, CanPublish, Goto, be, book, hist
  <2>2. PlacesOK'
    BY <1>12, ZenonT(60) DEF PlacesOK, LinkData, Goto, be, book, hist
  <2>3. BooksOK'
    BY <1>12, SMTT(30) DEF BooksOK, LinkData, Goto, be, book, hist
  <2> QED
    BY <2>1, <2>2, <2>3, TypeWhole
<1>13. CASE CopyData(p)
  <2>1. FilesOK'
    <3>1. data' \in {data, mem[p]}
      BY <1>13 DEF CopyData
    <3>2. mem[p] \in Content
      BY DEF BooksOK
    <3> QED
      BY <1>13, <3>1, <3>2 DEF FilesOK, CopyData
  <2>2. PlacesOK'
    BY <1>13 DEF PlacesOK, CopyData, Goto, be, book, hist
  <2>3. BooksOK'
    BY <1>13 DEF BooksOK, CopyData, Goto, be, book, hist
  <2> QED
    BY <2>1, <2>2, <2>3, TypeWhole
<1>14. CASE DropTmp(p)
  <2>1. FilesOK'
    BY <1>14 DEF FilesOK, DropTmp, Goto, be
  <2>2. PlacesOK'
    BY <1>14 DEF PlacesOK, DropTmp, Goto, be
  <2>3. BooksOK'
    <3>1. cut' \in BOOLEAN
      <4>1. cut' = (data = p) \/ cut' = cut
        BY <1>14 DEF DropTmp
      <4> QED
        BY <4>1, Zenon DEF BooksOK
    <3>2. /\ dirty' = [dirty EXCEPT ![p] = FALSE] /\ promised' = mem[p]
          \/ UNCHANGED <<dirty, promised>>
      BY <1>14 DEF DropTmp
    <3>3. /\ from' = [from EXCEPT ![p] = mem[p]]
          /\ mem' = mem /\ clock' = clock
      BY <1>14 DEF DropTmp
    <3>4. dirty' \in [Proc -> BOOLEAN] /\ promised' \in Complete
      BY <3>2 DEF BooksOK
    <3> QED
      BY <3>1, <3>3, <3>4 DEF BooksOK
  <2> QED
    BY <2>1, <2>2, <2>3, TypeWhole
<1>15. CASE RemoveOldFiles(p)
  <2>1. FilesOK'
    <3>1. UNCHANGED data /\ made' = [made EXCEPT ![p] = Absent]
      BY <1>15 DEF RemoveOldFiles, dir
    <3>2. lock' \in {lock, Absent}
      BY <1>15 DEF RemoveOldFiles, dir
    <3>3. lnk' = lnk \/ \E gone \in SUBSET StaleLinks(p) :
            lnk' = [q \in Proc |-> IF q \in gone THEN Absent ELSE lnk[q]]
      BY <1>15 DEF RemoveOldFiles, dir
    <3>4. tmp' = tmp \/ tmp' = [q \in Proc |-> Absent]
      BY <1>15 DEF RemoveOldFiles, dir
    <3>5. kept' \subseteq kept /\ left' \subseteq left
      BY <1>15 DEF RemoveOldFiles, dir
    <3>6. lnk' \in [Proc -> Proc \cup {Absent}]
      BY <3>3 DEF FilesOK
    <3>7. tmp' \in [Proc -> Content]
          /\ \A q \in Proc : tmp'[q] \in Complete \cup {q, Absent}
      BY <3>4 DEF FilesOK
    <3> QED
      BY <3>1, <3>2, <3>5, <3>6, <3>7 DEF FilesOK
  <2>2. PlacesOK'
    BY <1>15 DEF PlacesOK, RemoveOldFiles, Goto, dir, be, book, hist
  <2>3. BooksOK'
    BY <1>15 DEF BooksOK, RemoveOldFiles, Goto, dir, be, book, hist
  <2> QED
    BY <2>1, <2>2, <2>3, TypeWhole
<1>16. CASE Crash(p)
  <2>1. FilesOK'
    BY <1>16 DEF FilesOK, Crash, Goto, dir, book, hist
  <2>2. PlacesOK'
    BY <1>16 DEF PlacesOK, Crash, Goto, dir, book, hist
  <2>3. BooksOK'
    BY <1>16 DEF BooksOK, Crash, Goto, dir, book, hist
  <2> QED
    BY <2>1, <2>2, <2>3, TypeWhole
<1> QED
  BY <1>1, <1>2, <1>3, <1>4, <1>5, <1>6, <1>7, <1>8, <1>9, <1>10, <1>11,
     <1>12, <1>13, <1>14, <1>15, <1>16 DEF Begin, Save

-----------------------------------------------------------------------------
(* The lock.  A process that owns it is the only one.                      *)
Step(p) ==
  Begin(p) \/ Load(p) \/ Edit(p) \/ Save(p) \/ EndSession(p) \/ Crash(p)

LEMMA Alone ==
  ASSUME Owner, NEW p \in Proc, NEW q \in Proc, pc[p] \in Owning,
         pc[q] \in Owning
  PROVE  p = q
  BY DEF Owner

LEMMA OwningPlaces ==
  /\ InSession \subseteq Owning /\ {"linking", "counting"} \subseteq Owning
  /\ {"idle", "asked", "dead"} \cap Owning = {}
  /\ {"idle", "asked", "dead"} \cap InSession = {}
  BY DEF Owning, InSession, Saving

(* A step of a process within its session leaves the lock alone.           *)
LEMMA MovesOn ==
  ASSUME PlacesOK, Owner, LockedInSession, NEW p \in Proc, NEW l \in InSession,
         pc[p] \in InSession, Goto(p, l), UNCHANGED <<lock, locked>>
  PROVE  Owner' /\ LockedInSession'
  BY OwningPlaces DEF PlacesOK, Owner, LockedInSession, Goto

LEMMA LockStep ==
  ASSUME Obeying, TypeOK, Owner, LockedInSession, NEW p \in Proc, Step(p)
  PROVE  Owner' /\ LockedInSession'
<1> PlacesOK
  BY TypeParts
<1> USE OwningPlaces, Places, Contents
<1>1. CASE CreateLock(p)
  <2>1. CASE lock = Absent /\ lock' = p /\ Goto(p, "linking")
    BY <1>1, <2>1 DEF CreateLock, PlacesOK, Owner, LockedInSession, Goto, be
  <2>2. CASE Goto(p, "asked") /\ UNCHANGED lock
    BY <1>1, <2>2 DEF CreateLock, PlacesOK, Owner, LockedInSession, Goto, be
  <2> QED
    BY <1>1, <2>1, <2>2 DEF CreateLock, LockIsFree
<1>2. CASE Answer(p)
  BY <1>2 DEF Obeying, Answer, PlacesOK, Owner, LockedInSession, Goto, dir
<1>3. CASE LinkLock(p) \/ CountLinks(p)
  <2>1. pc[p] \in {"linking", "counting"} /\ lock = p
    BY <1>3 DEF LinkLock, CountLinks, Owner
  <2>2. CASE Acquired(p) /\ UNCHANGED lock
    BY <1>3, <2>1, <2>2 DEF PlacesOK, Owner, LockedInSession, Acquired, Goto
  <2>3. CASE Goto(p, "counting") /\ UNCHANGED <<lock, be>>
    BY <1>3, <2>1, <2>3 DEF PlacesOK, Owner, LockedInSession, Goto, be
  <2>4. CASE LockRefused(p)
    BY <1>3, <2>1, <2>4
       DEF PlacesOK, Owner, LockedInSession, LockRefused, Goto, be
  <2> QED
    BY <1>3, <2>2, <2>3, <2>4 DEF LinkLock, CountLinks
<1>4. CASE EndSession(p)
  <2>1. pc[p] \in InSession /\ lock = p
    BY <1>4 DEF EndSession, Owner
  <2>2. Goto(p, "idle") /\ lock' \in {Absent, lock}
        /\ locked' = [locked EXCEPT ![p] = FALSE]
    BY <1>4 DEF EndSession
  <2> QED
    BY <2>1, <2>2 DEF PlacesOK, Owner, LockedInSession, Goto
<1>5. CASE Crash(p)
  BY <1>5 DEF Crash, PlacesOK, Owner, LockedInSession, Goto, dir
<1>6. CASE Edit(p)
  BY <1>6 DEF Edit, PlacesOK, Owner, LockedInSession, dir, be
<1>7. CASE Load(p) \/ Save(p)
  <2>1. pc[p] \in InSession
    BY <1>7 DEF Load, Save, Backup, OpenTmp, FillTmp, UnlinkData, LinkData,
       CopyData, DropTmp, RemoveOldFiles
  <2>2. \E l \in InSession : Goto(p, l)
    BY <1>7 DEF Load, Save, Backup, OpenTmp, FillTmp, UnlinkData, LinkData,
       CopyData, DropTmp, RemoveOldFiles
  <2>3. UNCHANGED <<lock, locked>>
    BY <1>7 DEF Obeying, Load, Save, Backup, OpenTmp, FillTmp, UnlinkData,
       LinkData, CopyData, DropTmp, RemoveOldFiles, dir, be
  <2> QED
    BY <2>1, <2>2, <2>3, MovesOn
<1> QED
  BY <1>1, <1>2, <1>3, <1>4, <1>5, <1>6, <1>7 DEF Step, Begin

-----------------------------------------------------------------------------
(* The data file during the owner's session.                               *)

(* A process takes a step: the others are where they were.                 *)
LEMMA OthersStay ==
  ASSUME PlacesOK, NEW p \in Proc, NEW q \in Proc, q # p, Step(p)
  PROVE  pc'[q] = pc[q]
<1>1. CASE Begin(p)
  <2>1. \E l \in {"linking", "asked", "open", "idle", "counting"} : Goto(p, l)
    BY <1>1 DEF Begin, CreateLock, Answer, LinkLock, CountLinks,
       LockRefused, Acquired
  <2> QED
    BY <2>1 DEF Goto, PlacesOK
<1>2. CASE Load(p) \/ Save(p) \/ EndSession(p) \/ Crash(p)
  <2>1. \E l \in Place : Goto(p, l)
    BY <1>2, Places DEF Load, Save, Backup, OpenTmp, FillTmp, UnlinkData,
       LinkData, CopyData, DropTmp, RemoveOldFiles, EndSession, Crash
  <2> QED
    BY <2>1 DEF Goto, PlacesOK
<1>3. CASE Edit(p)
  BY <1>3 DEF Edit
<1> QED
  BY <1>1, <1>2, <1>3 DEF Step

LEMMA StoredStep ==
  ASSUME Obeying, TypeOK, Owner, \A q \in Proc : StoredAt(q),
         NEW p \in Proc, Step(p)
  PROVE  \A q \in Proc : StoredAt(q)'
<1> FilesOK /\ PlacesOK /\ BooksOK
  BY TypeParts
<1> USE OwningPlaces, Places, Contents
<1>1. ASSUME NEW q \in Proc, q # p  PROVE StoredAt(q)'
  <2>1. pc'[q] = pc[q]
    BY <1>1, OthersStay
  <2>2. CASE pc[p] \in Owning
    <3>1. pc[q] \notin Owning
      BY <1>1, <2>2, Alone
    <3> QED
      BY <2>1, <3>1 DEF StoredAt
  <2>3. CASE pc[p] \notin Owning
    <3>1. CreateLock(p) \/ Answer(p) \/ Crash(p)
      BY <2>3, ZenonT(60)
      DEF Step, Begin, Save, LinkLock, CountLinks, Load, Edit, Backup,
         OpenTmp, FillTmp, UnlinkData, LinkData, CopyData, DropTmp,
         RemoveOldFiles, EndSession
    <3>2. UNCHANGED <<data, tmp, mem, from>>
      BY <3>1 DEF CreateLock, Answer, Crash, dir, book
    <3> QED
      BY <2>1, <3>2 DEF StoredAt
  <2> QED
    BY <2>2, <2>3
<1>2. StoredAt(p)'
  <2>1. CASE Begin(p) \/ EndSession(p) \/ Crash(p)
    <3>1. \E l \in {"linking", "asked", "open", "idle", "counting", "dead"} :
            Goto(p, l)
      BY <2>1 DEF Begin, CreateLock, Answer, LinkLock, CountLinks, Acquired,
         LockRefused, EndSession, Crash
    <3>2. pc'[p] \in {"linking", "asked", "open", "idle", "counting", "dead"}
      BY <3>1 DEF Goto, PlacesOK
    <3> QED
      BY <3>2 DEF StoredAt
  <2>2. CASE Load(p)
    BY <2>2 DEF Load, Obeying, StoredAt, FilesOK, PlacesOK, BooksOK, Goto,
       dir, be, book, hist
  <2>3. CASE Edit(p)
    BY <2>3 DEF Edit, Obeying, StoredAt, FilesOK, PlacesOK, BooksOK, dir, be
  <2>4. CASE Backup(p)
    BY <2>4 DEF Backup, Obeying, StoredAt, FilesOK, PlacesOK, BooksOK, Goto,
       be, book, hist
  <2>5. CASE OpenTmp(p)
    BY <2>5 DEF OpenTmp, Obeying, StoredAt, FilesOK, PlacesOK, BooksOK, Goto,
       be, book, hist
  <2>6. CASE FillTmp(p)
    BY <2>6 DEF FillTmp, Obeying, StoredAt, FilesOK, PlacesOK, BooksOK, Goto,
       be, book, hist
  <2>7. CASE UnlinkData(p)
    BY <2>7 DEF UnlinkData, Obeying, StoredAt, FilesOK, PlacesOK, BooksOK,
       Goto, be, book, hist
  <2>8. CASE LinkData(p)
    <3>1. /\ pc[p] = "unlinked" /\ data = Absent /\ tmp[p] \in {mem[p], Absent}
          /\ UNCHANGED <<tmp, mem, from>>
      BY <2>8 DEF LinkData, StoredAt, book
    <3>2. CASE data' = tmp[p] /\ tmp[p] # Absent /\ Goto(p, "published")
      BY <3>1, <3>2 DEF StoredAt, PlacesOK, Goto
    <3>3. CASE data' = p /\ Goto(p, "copying")
      BY <3>1, <3>3 DEF StoredAt, PlacesOK, Goto
    <3>4. CASE data' = data /\ Goto(p, "cleaning")
      BY <3>1, <3>4 DEF StoredAt, PlacesOK, Goto
    <3> QED
      BY <2>8, <3>2, <3>3, <3>4 DEF LinkData, CanPublish
  <2>9. CASE CopyData(p)
    BY <2>9 DEF CopyData, Obeying, StoredAt, FilesOK, PlacesOK, BooksOK, Goto,
       be, book, hist
  <2>10. CASE DropTmp(p)
    BY <2>10 DEF DropTmp, Obeying, StoredAt, FilesOK, PlacesOK, BooksOK, Goto,
       be
  <2>11. CASE RemoveOldFiles(p)
    BY <2>11 DEF RemoveOldFiles, Obeying, StoredAt, FilesOK, PlacesOK,
       BooksOK, Goto, dir, be, book, hist
  <2> QED
    BY <2>1, <2>2, <2>3, <2>4, <2>5, <2>6, <2>7, <2>8, <2>9, <2>10, <2>11
       DEF Step, Save
<1> QED
  BY <1>1, <1>2

-----------------------------------------------------------------------------
(* Together: the invariant is inductive.                                   *)
LEMMA StepInv == Obeying /\ IInv /\ [Next]_vars => IInv'
<1> SUFFICES ASSUME Obeying, IInv, [Next]_vars PROVE IInv'
  OBVIOUS
<1>1. CASE UNCHANGED vars
  BY <1>1, StutterInv
<1>2. CASE Next
  <2>1. PICK p \in Proc : Step(p)
    BY <1>2 DEF Next, Step
  <2>2. TypeOK'
    BY <2>1, TypeStep DEF IInv, Step
  <2> QED
    BY <2>1, <2>2, LockStep, StoredStep DEF IInv
<1> QED
  BY <1>1, <1>2

(* The variables of the file backend keep their types, whatever users and  *)
(* disks do.                                                               *)
THEOREM FileTypes == Spec => []TypeOK
<1>1. Init => TypeOK
  BY InitInv DEF IInv
<1>2. TypeOK /\ [Next]_vars => TypeOK'
  <2> SUFFICES ASSUME TypeOK, [Next]_vars PROVE TypeOK'
    OBVIOUS
  <2>1. CASE UNCHANGED vars
    BY <2>1 DEF TypeOK, vars, dir, be, book, hist, Content, Complete
  <2>2. CASE Next
    BY <2>2, TypeStep DEF Next
  <2> QED
    BY <2>1, <2>2
<1> QED
  BY <1>1, <1>2, PTL DEF Spec

LEMMA Invariance == Obeying => (Spec => []IInv)
<1> SUFFICES ASSUME Obeying PROVE Spec => []IInv
  OBVIOUS
<1>1. IInv /\ [Next]_vars => IInv'
  BY StepInv
<1> QED
  BY InitInv, <1>1, PTL DEF Spec

(* A session that obtained the lock has it until it ends: no two sessions  *)
(* of any number of processes hold it together, wherever processes crash   *)
(* and file operations fail.                                               *)
THEOREM LockIsHeld == Obeying => (Spec => []LockHeld)
<1> SUFFICES ASSUME Obeying PROVE Spec => []LockHeld
  OBVIOUS
<1>1. IInv => LockHeld
  BY OwningPlaces DEF IInv, Owner, LockedInSession, LockHeld
<1>2. Spec => []IInv
  BY Invariance
<1> QED
  BY <1>1, <1>2, PTL

(* No save overwrites the work of another process.                         *)
THEOREM NothingOverwritten == Obeying => (Spec => NoLostUpdate)
<1> SUFFICES ASSUME Obeying PROVE Spec => NoLostUpdate
  OBVIOUS
<1>1. IInv => [\A p \in Proc : pc[p] = "filled" /\ pc'[p] = "unlinked" =>
                               data \in {from[p], p, Absent}]_vars
  BY DEF IInv, StoredAt
<1>2. Spec => []IInv
  BY Invariance
<1> QED
  BY <1>1, <1>2, PTL DEF NoLostUpdate

-----------------------------------------------------------------------------
(* What was saved stays on disk, unless it was saved as a cut copy.  The   *)
(* backups play no part in it: before the data file goes, the new book is  *)
(* complete under its temporary name, and a temporary of a failed save is  *)
(* left behind, never overwritten.                                         *)
Good(c) == c \in Complete /\ c >= promised
OnDisk == \/ Good(data)
          \/ \E c \in left : Good(c)
          \/ \E q \in Proc : Good(tmp[q])

Working == {"ready"} \cup Saving
WritesMem(p) ==
  /\ pc[p] \in Working => mem[p] >= promised
  /\ pc[p] = "filling" => tmp[p] = p
  /\ pc[p] \in {"filled", "unlinked"} => tmp[p] = mem[p]

(* Versions are numbered in the order of the edits.                        *)
Numbered ==
  /\ clock >= promised
  /\ data \in Complete => data >= promised /\ data <= clock
  /\ \A p \in Proc : mem[p] <= clock

Durable == Numbered /\ (~cut => OnDisk) /\ \A p \in Proc : WritesMem(p)

LEMMA WorkingPlaces ==
  /\ Working = {"ready", "backed", "filling", "filled", "unlinked", "copying",
                "published", "cleaning"}
  /\ Working \subseteq Owning
  BY DEF Working, Saving, Owning, InSession

(* A process that reaches no place inside its session owes nothing.        *)
LEMMA Outside ==
  ASSUME PlacesOK, NEW p \in Proc, NEW l \in Place \ Working, Goto(p, l)
  PROVE  WritesMem(p)'
  BY WorkingPlaces DEF WritesMem, Goto, PlacesOK

LEMMA WritesStep ==
  ASSUME Obeying, TypeOK, Owner, Durable, NEW p \in Proc, Step(p)
  PROVE  \A q \in Proc : WritesMem(q)'
<1> FilesOK /\ PlacesOK /\ BooksOK
  BY TypeParts
<1> Numbered /\ \A q \in Proc : WritesMem(q)
  BY DEF Durable
<1> USE OwningPlaces, Places, Contents, WorkingPlaces
<1>1. ASSUME NEW q \in Proc, q # p  PROVE WritesMem(q)'
  <2>1. pc'[q] = pc[q]
    BY <1>1, OthersStay
  <2>2. CASE pc[p] \in Owning
    <3>1. pc[q] \notin Owning
      BY <1>1, <2>2, Alone
    <3> QED
      BY <2>1, <3>1 DEF WritesMem
  <2>3. CASE pc[p] \notin Owning
    <3>1. CreateLock(p) \/ Answer(p) \/ Crash(p)
      BY <2>3, ZenonT(60)
      DEF Step, Begin, Save, LinkLock, CountLinks, Load, Edit, Backup,
         OpenTmp, FillTmp, UnlinkData, LinkData, CopyData, DropTmp,
         RemoveOldFiles, EndSession
    <3>2. UNCHANGED <<tmp, mem, promised>>
      BY <3>1 DEF CreateLock, Answer, Crash, dir, book, hist
    <3> QED
      BY <2>1, <3>2 DEF WritesMem
  <2> QED
    BY <2>2, <2>3
<1>2. WritesMem(p)'
  <2>1. CASE Begin(p) \/ EndSession(p) \/ Crash(p)
    <3>1. \E l \in {"linking", "asked", "open", "idle", "counting", "dead"} :
            Goto(p, l)
      BY <2>1 DEF Begin, CreateLock, Answer, LinkLock, CountLinks, Acquired,
         LockRefused, EndSession, Crash
    <3> QED
      BY <3>1, Outside
  <2>2. CASE Load(p)
    <3>1. CASE data \in Complete
      BY <2>2, <3>1 DEF Load, WritesMem, Numbered, PlacesOK, BooksOK, Goto, hist
    <3>2. CASE data \notin Complete
      BY <2>2, <3>2, Outside DEF Load
    <3> QED
      BY <3>1, <3>2
  <2>3. CASE Edit(p)
    BY <2>3 DEF Edit, WritesMem, Numbered, PlacesOK, BooksOK, dir, Complete
  <2>4. CASE Backup(p)
    BY <2>4 DEF Backup, WritesMem, PlacesOK, BooksOK, Goto, book, hist
  <2>5. CASE OpenTmp(p)
    BY <2>5 DEF OpenTmp, WritesMem, FilesOK, PlacesOK, BooksOK, Goto, book, hist
  <2>6. CASE FillTmp(p)
    <3>1. PICK fault \in Fault :
            /\ tmp' = [tmp EXCEPT ![p] = IF fault \/ @ = Absent THEN Absent
                                         ELSE mem[p]]
            /\ Goto(p, IF fault THEN "cleaning" ELSE "filled")
      BY <2>6 DEF FillTmp
    <3>2. /\ pc[p] = "filling" /\ tmp[p] = p /\ mem[p] >= promised
          /\ UNCHANGED <<mem, promised>>
      BY <2>6 DEF FillTmp, WritesMem, book, hist
    <3>3. CASE fault
      BY <3>1, <3>2, <3>3 DEF WritesMem, PlacesOK, Goto
    <3>4. CASE ~fault
      BY <3>1, <3>2, <3>4 DEF WritesMem, FilesOK, PlacesOK, Goto
    <3> QED
      BY <3>3, <3>4
  <2>7. CASE UnlinkData(p)
    BY <2>7 DEF UnlinkData, WritesMem, PlacesOK, BooksOK, Goto, book, hist
  <2>8. CASE LinkData(p)
    <3>1. /\ mem[p] >= promised /\ UNCHANGED <<mem, promised>>
          /\ \E l \in {"published", "copying", "cleaning"} : Goto(p, l)
      BY <2>8 DEF LinkData, WritesMem, book, hist
    <3> QED
      BY <3>1 DEF WritesMem, PlacesOK, Goto
  <2>9. CASE CopyData(p)
    BY <2>9 DEF CopyData, WritesMem, PlacesOK, BooksOK, Goto, book, hist
  <2>10. CASE DropTmp(p)
    BY <2>10 DEF DropTmp, WritesMem, PlacesOK, BooksOK, Goto, Complete
  <2>11. CASE RemoveOldFiles(p)
    BY <2>11 DEF RemoveOldFiles, WritesMem, PlacesOK, BooksOK, Goto, book, hist
  <2> QED
    BY <2>1, <2>2, <2>3, <2>4, <2>5, <2>6, <2>7, <2>8, <2>9, <2>10, <2>11
       DEF Step, Save
<1> QED
  BY <1>1, <1>2

LEMMA NumberedStep ==
  ASSUME TypeOK, Durable, \A q \in Proc : StoredAt(q), NEW p \in Proc, Step(p)
  PROVE  Numbered'
<1> FilesOK /\ PlacesOK /\ BooksOK
  BY TypeParts
<1> Numbered /\ WritesMem(p) /\ StoredAt(p)
  BY DEF Durable
<1> USE OwningPlaces, Places, Contents, WorkingPlaces
<1>1. CASE UNCHANGED <<data, mem, hist>>
  BY <1>1 DEF Numbered, hist
<1>2. CASE Load(p) /\ data \in Complete
  BY <1>2 DEF Load, Numbered, BooksOK, dir, hist
<1>3. CASE Edit(p)
  BY <1>3 DEF Edit, Numbered, BooksOK, dir, Complete
<1>4. CASE UnlinkData(p) \/ LinkData(p) \/ CopyData(p)
  <2>1. data' \in {data, Absent, p, mem[p]}
    BY <1>4 DEF UnlinkData, LinkData, CanPublish, CopyData, WritesMem
  <2>2. UNCHANGED <<mem, hist>> /\ mem[p] >= promised
    BY <1>4 DEF UnlinkData, LinkData, CopyData, WritesMem, book
  <2> QED
    BY <2>1, <2>2 DEF Numbered, hist
<1>5. CASE DropTmp(p)
  <2>1. UNCHANGED <<data, mem, clock>> /\ data \in {mem[p], p}
    BY <1>5 DEF DropTmp, StoredAt
  <2>2. promised' \in {promised, mem[p]}
    BY <1>5 DEF DropTmp
  <2>3. mem[p] \in Nat /\ promised \in Nat /\ clock \in Nat
    BY DEF BooksOK, Complete
  <2> QED
    BY <2>1, <2>2, <2>3 DEF Numbered
<1> QED
  BY <1>1, <1>2, <1>3, <1>4, <1>5
     DEF Step, Begin, CreateLock, Answer, LinkLock, CountLinks, EndSession,
         Crash, Load, Save, Backup, OpenTmp, FillTmp, RemoveOldFiles, dir, book

(* What makes a step leave the book on disk.                               *)
LEMMA StaysOnDisk ==
  ASSUME OnDisk, UNCHANGED promised,
         Good(data) => Good(data)' \/ \E q \in Proc : Good(tmp[q])',
         \A q \in Proc : Good(tmp[q]) => Good(tmp[q])' \/ tmp[q] \in left',
         left \subseteq left'
  PROVE  OnDisk'
  BY DEF OnDisk, Good

LEMMA OnDiskStep ==
  ASSUME Obeying, TypeOK, Durable, \A q \in Proc : StoredAt(q),
         NEW p \in Proc, Step(p), ~cut'
  PROVE  OnDisk'
<1> FilesOK /\ PlacesOK /\ BooksOK
  BY TypeParts
<1> WritesMem(p) /\ StoredAt(p)
  BY DEF Durable
<1> USE Contents, WorkingPlaces
<1>6. CASE DropTmp(p) /\ tmp[p] # Absent
  <2>1. data' = data /\ data = mem[p] /\ mem[p] \in Complete
        /\ promised' = mem[p]
    BY <1>6 DEF DropTmp, StoredAt, BooksOK
  <2> QED
    BY <2>1 DEF OnDisk, Good, Complete
<1> SUFFICES ASSUME ~(DropTmp(p) /\ tmp[p] # Absent) PROVE OnDisk'
  BY <1>6
<1>0. cut' = cut
  BY DEF Step, Begin, CreateLock, Answer, LinkLock, CountLinks, EndSession,
     Crash, Load, Edit, Save, Backup, OpenTmp, FillTmp, UnlinkData, LinkData,
     CopyData, DropTmp, RemoveOldFiles, hist
<1> OnDisk
  BY <1>0 DEF Durable
<1>1. CASE UNCHANGED <<data, tmp, left, promised>>
  BY <1>1, StaysOnDisk DEF Good
<1>2. CASE OpenTmp(p)
  <2>1. /\ UNCHANGED <<data, promised>>
        /\ left' = left \cup ({tmp[p]} \ {Absent})
        /\ tmp' = [tmp EXCEPT ![p] = p]
    BY <1>2 DEF OpenTmp, hist
  <2>2. \A q \in Proc : Good(tmp[q]) => Good(tmp[q])' \/ tmp[q] \in left'
    BY <2>1 DEF Good, FilesOK
  <2> QED
    BY <2>1, <2>2, StaysOnDisk DEF Good
<1>3. CASE FillTmp(p)
  <2>1. UNCHANGED <<data, left, promised>> /\ tmp[p] = p
    BY <1>3 DEF FillTmp, WritesMem, hist
  <2>2. \A q \in Proc : q # p => tmp'[q] = tmp[q]
    BY <1>3 DEF FillTmp, FilesOK
  <2>3. \A q \in Proc : Good(tmp[q]) => Good(tmp[q])'
    BY <2>1, <2>2 DEF Good
  <2> QED
    BY <2>1, <2>3, StaysOnDisk DEF Good
<1>4. CASE UnlinkData(p)
  <2>1. UNCHANGED <<tmp, left, promised>> /\ pc[p] = "filled"
    BY <1>4 DEF UnlinkData, hist
  <2>2. Good(tmp[p])'
    BY <2>1 DEF WritesMem, Good, BooksOK
  <2> QED
    BY <2>1, <2>2, StaysOnDisk DEF Good
<1>5. CASE LinkData(p) \/ CopyData(p)
  <2>1. UNCHANGED <<tmp, left, promised>> /\ data \in {Absent, p}
    BY <1>5 DEF LinkData, CopyData, StoredAt, hist
  <2> QED
    BY <2>1, StaysOnDisk DEF Good
<1>5a. CASE DropTmp(p)
  <2>1. UNCHANGED <<data, left, promised>> /\ tmp' = [tmp EXCEPT ![p] = Absent]
        /\ tmp[p] = Absent
    BY <1>5a DEF DropTmp
  <2>2. \A q \in Proc : Good(tmp[q]) => Good(tmp[q])'
    BY <2>1 DEF Good, FilesOK
  <2> QED
    BY <2>1, <2>2, StaysOnDisk DEF Good
<1>7. CASE RemoveOldFiles(p)
  <2>1. UNCHANGED <<data, tmp, left, promised>>
    BY <1>7 DEF RemoveOldFiles, Obeying, dir, hist
  <2> QED
    BY <2>1, <1>1
<1> QED
  BY <1>1, <1>2, <1>3, <1>4, <1>5, <1>5a, <1>7
     DEF Step, Begin, CreateLock, Answer, LinkLock, CountLinks, EndSession,
         Crash, Load, Edit, Save, Backup, dir, hist

(* Whatever crashes and whatever operation of a save fails, for any number *)
(* of processes: what a save was reported to have stored, or something     *)
(* newer, is on disk in full (SavedSurvives), unless that save made the    *)
(* data file by a copy that was cut short without being noticed.           *)
THEOREM SavedStays == Obeying => (Spec => []SavedSurvives)
<1> SUFFICES ASSUME Obeying PROVE Spec => []SavedSurvives
  OBVIOUS
<1>1. Init => Durable
  BY Contents, WorkingPlaces
     DEF Init, Durable, Numbered, OnDisk, Good, WritesMem
<1>2. IInv /\ Durable /\ [Next]_vars => Durable'
  <2> SUFFICES ASSUME IInv, Durable, [Next]_vars PROVE Durable'
    OBVIOUS
  <2>1. CASE UNCHANGED vars
    BY <2>1 DEF Durable, Numbered, OnDisk, Good, WritesMem, vars, dir, book, hist
  <2>2. CASE Next
    <3>1. PICK p \in Proc : Step(p)
      BY <2>2 DEF Next, Step
    <3> QED
      BY <3>1, NumberedStep, OnDiskStep, WritesStep DEF Durable, IInv
  <2> QED
    BY <2>1, <2>2
<1>3. Durable => SavedSurvives
  BY DEF Durable, OnDisk, Good, SavedSurvives, SavedIsOnDisk
<1>4. Spec => []IInv
  BY Invariance
<1> QED
  BY <1>1, <1>2, <1>3, <1>4, PTL DEF Spec

-----------------------------------------------------------------------------
(* With hard links a name only ever comes to denote a finished file.       *)
Finished ==
  /\ data \notin Proc
  /\ \A p \in Proc : /\ pc[p] # "copying"
                     /\ pc[p] \in {"filled", "unlinked"} =>
                          tmp[p] \in {mem[p], Absent}

LEMMA FinishedStep ==
  ASSUME FALSE \notin Links, TypeOK, Finished, NEW p \in Proc, Step(p)
  PROVE  Finished'
<1> FilesOK /\ PlacesOK /\ BooksOK
  BY TypeParts
<1> USE Places, Contents
<1>1. CASE Begin(p) \/ EndSession(p) \/ Crash(p)
  <2>1. UNCHANGED <<data, tmp, mem>>
    BY <1>1 DEF Begin, CreateLock, Answer, LinkLock, CountLinks, EndSession,
       Crash, dir, book
  <2>2. \E l \in {"linking", "asked", "open", "idle", "counting", "dead"} :
          Goto(p, l)
    BY <1>1 DEF Begin, CreateLock, Answer, LinkLock, CountLinks, LockRefused,
       Acquired, EndSession, Crash
  <2> QED
    BY <2>1, <2>2 DEF Finished, Goto, PlacesOK
<1>2. CASE Load(p)
  BY <1>2 DEF Load, Finished, FilesOK, PlacesOK, BooksOK, Goto, dir, be, book,
     hist
<1>3. CASE Edit(p)
  BY <1>3 DEF Edit, Finished, FilesOK, PlacesOK, BooksOK, dir, be
<1>4. CASE Backup(p)
  BY <1>4 DEF Backup, Finished, FilesOK, PlacesOK, BooksOK, Goto, be, book,
     hist
<1>5. CASE OpenTmp(p)
  BY <1>5 DEF OpenTmp, Finished, FilesOK, PlacesOK, BooksOK, Goto, be, book,
     hist
<1>6. CASE FillTmp(p)
  BY <1>6 DEF FillTmp, Finished, FilesOK, PlacesOK, BooksOK, Goto, be, book,
     hist
<1>7. CASE UnlinkData(p)
  BY <1>7 DEF UnlinkData, Finished, FilesOK, PlacesOK, BooksOK, Goto, be,
     book, hist
<1>8. CASE LinkData(p)
  <2>1. /\ pc[p] = "unlinked" /\ tmp[p] \in {mem[p], Absent}
        /\ UNCHANGED <<tmp, mem>>
    BY <1>8 DEF LinkData, Finished, book
  <2>2. mem[p] \notin Proc
    BY DEF BooksOK
  <2>3. CASE data' = tmp[p] /\ tmp[p] # Absent /\ Goto(p, "published")
    BY <2>1, <2>2, <2>3 DEF Finished, PlacesOK, Goto
  <2>4. CASE data' = data /\ Goto(p, "cleaning")
    BY <2>1, <2>4 DEF Finished, PlacesOK, Goto
  <2> QED
    BY <1>8, <2>3, <2>4 DEF LinkData, CanPublish
<1>9. CASE CopyData(p)
  BY <1>9 DEF CopyData, Finished, FilesOK, PlacesOK, BooksOK, Goto, be, book,
     hist
<1>10. CASE DropTmp(p)
  BY <1>10 DEF DropTmp, Finished, FilesOK, PlacesOK, BooksOK, Goto, be
<1>11. CASE RemoveOldFiles(p)
  BY <1>11 DEF RemoveOldFiles, Finished, FilesOK, PlacesOK, BooksOK, Goto,
     dir, be, book, hist
<1> QED
  BY <1>1, <1>2, <1>3, <1>4, <1>5, <1>6, <1>7, <1>8, <1>9, <1>10, <1>11
     DEF Step, Save

(* Where hard links exist the data file is complete or missing, also for   *)
(* users who open a locked file anyway and with every retention preference.*)
THEOREM NoTornData == FALSE \notin Links => (Spec => []NeverTorn)
<1> SUFFICES ASSUME FALSE \notin Links PROVE Spec => []NeverTorn
  OBVIOUS
<1>1. Init => Finished
  BY DEF Init, Finished
<1>2. TypeOK /\ Finished /\ [Next]_vars => Finished'
  <2> SUFFICES ASSUME TypeOK, Finished, [Next]_vars PROVE Finished'
    OBVIOUS
  <2>1. CASE UNCHANGED vars
    BY <2>1 DEF Finished, vars, dir, book
  <2>2. CASE Next
    BY <2>2, FinishedStep DEF Next, Step
  <2> QED
    BY <2>1, <2>2
<1>3. Finished => NeverTorn
  BY DEF Finished, NeverTorn
<1> QED
  BY FileTypes, <1>1, <1>2, <1>3, PTL DEF Spec
=============================================================================
