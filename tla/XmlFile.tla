------------------------------- MODULE XmlFile -------------------------------
(***************************************************************************)
(* The XML file backend (backend/xml/gnc-backend-xml.c) under the session  *)
(* of qofsession.c: several GnuCash processes work on one data file in one *)
(* directory.  Each step below is one file system call, or the calls of one*)
(* function between which nothing another process does can matter; between *)
(* two steps another process may run, and any process may crash.           *)
(*                                                                         *)
(* A file is abstracted to its content: the version of the book it holds,  *)
(* or the process that has written part of it (a torn file).  Versions are *)
(* numbered in the order in which users make edits.  link() may answer     *)
(* that it is not supported (EPERM also says so of one file only), so that *)
(* with both answers in Links each call may get either.                    *)
(***************************************************************************)
EXTENDS Naturals

CONSTANTS
  Proc,         \* processes; a process that crashed never runs again (new pid)
  Absent,       \* no such file
  Retentions,   \* values retain_type may take: "never", "days", "forever"
  MayIgnore,    \* whether a user may open a locked file anyway
  Links,        \* the answers to whether link() is supported for a file
  DiskFails,    \* whether a file operation of a save may fail
  MaxVersion    \* bound on the edits made

ASSUME Retains == Retentions \subseteq {"never", "days", "forever"}
ASSUME Switches == {MayIgnore, DiskFails} \cup Links \subseteq BOOLEAN
ASSUME Kinds == Absent \notin Proc \cup Nat /\ Proc \cap Nat = {}
ASSUME Versions == MaxVersion \in Nat

VARIABLES
  data,       \* the data file, be->fullpath
  lock,       \* fullpath.LCK: the process that created the file of that name
  lnk,        \* the .LNK name of each process: whose lock file it is linked to
  tmp,        \* the temporary file of each process's present save
  kept,       \* contents of the backups
  left,       \* contents of temporaries that failed saves left behind
  pc,         \* where each process is
  lockfile,   \* be->lockfile # NULL
  linkfile,   \* be->linkfile # NULL
  locked,     \* the session obtained the lock (be->lockfd is open)
  mem,        \* the version of the book in memory
  from,       \* the version last read from or written to the data file
  dirty,      \* the book is not marked saved
  made,       \* content of the backup the present save made
  clock,      \* edits made so far
  promised,   \* the last version whose save was reported to succeed
  cut         \* the data file that save left was torn in copying, unnoticed

dir == <<data, lock, lnk, tmp, kept, left>>
be == <<lockfile, linkfile, locked>>
book == <<mem, from, dirty>>
hist == <<clock, promised, cut>>
vars == <<dir, pc, be, book, made, hist>>

Content == (0..MaxVersion) \cup Proc \cup {Absent}
Complete == 0..MaxVersion

Goto(p, l) == pc' = [pc EXCEPT ![p] = l]
Fault == IF DiskFails THEN BOOLEAN ELSE {FALSE}

(* The loaded session, from qof_session_load to qof_session_end.           *)
Saving ==
  {"backed", "filling", "filled", "unlinked", "copying", "published",
   "cleaning"}
InSession == {"open", "ready", "closing"} \cup Saving

Init ==
  /\ data = 0 /\ lock = Absent /\ kept = {} /\ left = {}
  /\ lnk = [p \in Proc |-> Absent] /\ tmp = [p \in Proc |-> Absent]
  /\ pc = [p \in Proc |-> "idle"]
  /\ lockfile = [p \in Proc |-> FALSE] /\ linkfile = [p \in Proc |-> FALSE]
  /\ locked = [p \in Proc |-> FALSE]
  /\ mem = [p \in Proc |-> 0] /\ from = [p \in Proc |-> 0]
  /\ dirty = [p \in Proc |-> FALSE] /\ made = [p \in Proc |-> Absent]
  /\ clock = 0 /\ promised = 0 /\ cut = FALSE

-----------------------------------------------------------------------------
(* qof_session_begin.  The data file must exist; then the lock file is     *)
(* tested and created exclusively.  When that fails the user is asked, and *)
(* may begin again ignoring the lock, which may be gone by then.           *)
LockIsFree == lock = Absent
CreateLockUnlinking(p) ==   \* the refusal taken through the failure path
  /\ pc[p] = "idle" /\ data # Absent
  /\ lock' = IF LockIsFree THEN p ELSE Absent
  /\ Goto(p, IF LockIsFree THEN "linking" ELSE "asked")
  /\ UNCHANGED <<data, lnk, tmp, kept, left, be, book, made, hist>>

CreateLock(p) ==
  /\ pc[p] = "idle" /\ data # Absent
  /\ \/ /\ LockIsFree
        /\ lock' = p
        /\ Goto(p, "linking")
     \/ /\ ~LockIsFree
        /\ Goto(p, "asked")
        /\ UNCHANGED lock
  /\ UNCHANGED <<data, lnk, tmp, kept, left, be, book, made, hist>>

Answer(p) ==
  /\ pc[p] = "asked"
  /\ \/ /\ MayIgnore /\ data # Absent
        /\ lockfile' = [lockfile EXCEPT ![p] = TRUE]
        /\ Goto(p, "open")
     \/ Goto(p, "idle") /\ UNCHANGED lockfile
  /\ UNCHANGED <<dir, linkfile, locked, book, made, hist>>

AcquiredUnnamed(p) ==
  /\ locked' = [locked EXCEPT ![p] = TRUE]
  /\ Goto(p, "open")
  /\ UNCHANGED lockfile

Acquired(p) ==
  /\ lockfile' = [lockfile EXCEPT ![p] = TRUE]
  /\ locked' = [locked EXCEPT ![p] = TRUE]
  /\ Goto(p, "open")

(* The failure paths unlink whatever file bears the lock's name.           *)
LockRefused(p) ==
  /\ lnk' = [lnk EXCEPT ![p] = Absent]
  /\ lock' = Absent
  /\ Goto(p, "asked")
  /\ UNCHANGED be

LinkLock(p) ==
  /\ pc[p] = "linking"
  /\ \/ /\ FALSE \in Links /\ lock # Absent   \* "just allow the lock"
        /\ Acquired(p)
        /\ UNCHANGED <<lock, lnk, linkfile>>
     \/ /\ TRUE \in Links /\ lock # Absent
        /\ lnk' = [lnk EXCEPT ![p] = lock]
        /\ Goto(p, "counting")
        /\ UNCHANGED <<lock, be>>
     \/ lock = Absent /\ LockRefused(p)
  /\ UNCHANGED <<data, tmp, kept, left, book, made, hist>>

(* st_nlink = 2: the lock's name and one .LNK name                         *)
LinkedOnce(p) == lock # Absent /\ {q \in Proc : lnk[q] = lock} = {p}

CountLinks(p) ==
  /\ pc[p] = "counting"
  /\ \/ /\ LinkedOnce(p)
        /\ linkfile' = [linkfile EXCEPT ![p] = TRUE]
        /\ Acquired(p)
        /\ UNCHANGED <<lock, lnk>>
     \/ ~LinkedOnce(p) /\ LockRefused(p)
  /\ UNCHANGED <<data, tmp, kept, left, book, made, hist>>

(* xml_session_end, on success, failure to load, or abandoning the edits   *)
EndSession(p) ==
  /\ pc[p] \in {"ready", "closing"}
  /\ lnk' = IF linkfile[p] THEN [lnk EXCEPT ![p] = Absent] ELSE lnk
  /\ lock' = IF lockfile[p] THEN Absent ELSE lock
  /\ lockfile' = [lockfile EXCEPT ![p] = FALSE]
  /\ linkfile' = [linkfile EXCEPT ![p] = FALSE]
  /\ locked' = [locked EXCEPT ![p] = FALSE]
  /\ Goto(p, "idle")
  /\ UNCHANGED <<data, tmp, kept, left, book, made, hist>>

-----------------------------------------------------------------------------
(* gnc_xml_be_load_from_file: the book read is marked saved.               *)
Load(p) ==
  /\ pc[p] = "open"
  /\ \/ /\ data \in Complete
        /\ mem' = [mem EXCEPT ![p] = data]
        /\ from' = [from EXCEPT ![p] = data]
        /\ dirty' = [dirty EXCEPT ![p] = FALSE]
        /\ Goto(p, "ready")
     \/ /\ data \notin Complete
        /\ Goto(p, "closing")
        /\ UNCHANGED book
  /\ UNCHANGED <<dir, be, made, hist>>

Edit(p) ==
  /\ pc[p] = "ready" /\ clock < MaxVersion
  /\ clock' = clock + 1
  /\ mem' = [mem EXCEPT ![p] = clock + 1]
  /\ dirty' = [dirty EXCEPT ![p] = TRUE]
  /\ UNCHANGED <<dir, pc, be, from, made, promised, cut>>

(* What copy_file may leave on a disk that fails, where links are not      *)
(* supported: only a write that returns -1 makes it fail, so that a copy   *)
(* cut short by a full disk, or whose close fails, counts as a success.    *)
CutCopies(p) == IF DiskFails /\ FALSE \in Links THEN {p} ELSE {}

(* gnc_xml_be_backup_file: no backup of a file that does not exist.  It    *)
(* also fails when a backup of the same second exists already.             *)
Backup(p) ==
  /\ pc[p] = "ready"
  /\ \/ /\ data # Absent
        /\ \E copy \in {data} \cup CutCopies(p) :
             /\ kept' = kept \cup {copy}
             /\ made' = [made EXCEPT ![p] = copy]
        /\ Goto(p, "backed")
     \/ /\ data = Absent
        /\ made' = [made EXCEPT ![p] = Absent]
        /\ Goto(p, "backed")
        /\ UNCHANGED kept
     \/ /\ data # Absent /\ DiskFails
        /\ \E part \in SUBSET CutCopies(p) : kept' = kept \cup part
        /\ made' = [made EXCEPT ![p] = Absent]
        /\ Goto(p, "cleaning")
  /\ UNCHANGED <<data, lock, lnk, tmp, left, be, book, hist>>

(* mktemp gives a name of its own: what an earlier save left stays.        *)
OpenTmp(p) ==
  /\ pc[p] = "backed"
  /\ left' = left \cup ({tmp[p]} \ {Absent})
  /\ tmp' = [tmp EXCEPT ![p] = p]
  /\ Goto(p, "filling")
  /\ UNCHANGED <<data, lock, lnk, kept, be, book, made, hist>>

FillTmpUnchecked(p) ==   \* the result of the write is not looked at
  /\ pc[p] = "filling"
  /\ \E fault \in Fault :
       tmp' = [tmp EXCEPT ![p] = IF fault \/ @ = Absent THEN @ ELSE mem[p]]
  /\ Goto(p, "filled")
  /\ UNCHANGED <<data, lock, lnk, kept, left, be, book, made, hist>>

(* gnc_book_write_to_xml_file_v2, and the removal of the file if it fails. *)
(* A file another process has unlinked is written all the same.            *)
FillTmp(p) ==
  /\ pc[p] = "filling"
  /\ \E fault \in Fault :
       /\ tmp' = [tmp EXCEPT ![p] = IF fault \/ @ = Absent THEN Absent
                                    ELSE mem[p]]
       /\ Goto(p, IF fault THEN "cleaning" ELSE "filled")
  /\ UNCHANGED <<data, lock, lnk, kept, left, be, book, made, hist>>

UnlinkData(p) ==
  /\ pc[p] = "filled"
  /\ \/ data' = Absent /\ Goto(p, "unlinked")
     \/ DiskFails /\ data # Absent /\ Goto(p, "cleaning") /\ UNCHANGED data
  /\ UNCHANGED <<lock, lnk, tmp, kept, left, be, book, made, hist>>

(* gnc_int_link_or_make_backup(tmp_name, datafile): link, or, where links  *)
(* are not supported, copy into a file created exclusively.                *)
CanPublish(p) == tmp[p] # Absent /\ data = Absent

LinkData(p) ==
  /\ pc[p] = "unlinked"
  /\ \/ /\ TRUE \in Links /\ CanPublish(p)
        /\ data' = tmp[p]
        /\ Goto(p, "published")
     \/ /\ FALSE \in Links /\ CanPublish(p)
        /\ data' = p
        /\ Goto(p, "copying")
     \/ /\ ~CanPublish(p) \/ DiskFails
        /\ Goto(p, "cleaning")
        /\ UNCHANGED data
  /\ UNCHANGED <<lock, lnk, tmp, kept, left, be, book, made, hist>>

(* The end of the copy.  It may be cut short, noticed or not.              *)
CopyData(p) ==
  /\ pc[p] = "copying"
  /\ \/ /\ data' = IF data = p THEN mem[p] ELSE data
        /\ Goto(p, "published")
     \/ /\ DiskFails
        /\ Goto(p, "published") \/ Goto(p, "cleaning")
        /\ UNCHANGED data
  /\ UNCHANGED <<lock, lnk, tmp, kept, left, be, book, made, hist>>

(* The book is marked saved once the temporary name is gone.               *)
DropTmp(p) ==
  /\ pc[p] = "published"
  /\ tmp' = [tmp EXCEPT ![p] = Absent]
  /\ from' = [from EXCEPT ![p] = mem[p]]
  /\ \/ /\ tmp[p] # Absent
        /\ dirty' = [dirty EXCEPT ![p] = FALSE]
        /\ promised' = mem[p]
        /\ cut' = (data = p)
     \/ tmp[p] = Absent /\ UNCHANGED <<dirty, promised, cut>>
  /\ Goto(p, "cleaning")
  /\ UNCHANGED <<data, lock, lnk, kept, left, be, mem, made, clock>>

-----------------------------------------------------------------------------
(* gnc_xml_be_remove_old_files, which xml_sync_all calls whether the save  *)
(* succeeded or not.  A .LNK file goes when it is older than the lock (so  *)
(* not when it is linked to it); with "days" a backup goes when it is old  *)
(* enough, never one that a present save made; with "never" every other    *)
(* file goes whose name begins with the data file's: the backups, the      *)
(* temporaries of every process, and the lock file itself.                 *)
StaleLinks(p) == {q \in Proc : lnk[q] \notin {Absent, lock} /\
                               ~(q = p /\ linkfile[p])}

RemoveOldFiles(p) ==
  /\ pc[p] = "cleaning"
  /\ Goto(p, "ready")
  /\ \/ lock = Absent /\ UNCHANGED dir
     \/ /\ lock # Absent
        /\ \E gone \in SUBSET StaleLinks(p) :
             lnk' = [q \in Proc |-> IF q \in gone THEN Absent ELSE lnk[q]]
        /\ \/ /\ "forever" \in Retentions
              /\ UNCHANGED <<lock, tmp, kept, left>>
           \/ /\ "days" \in Retentions
              /\ \E old \in SUBSET (kept \ {made[q] : q \in Proc}) :
                   kept' = kept \ old
              /\ UNCHANGED <<lock, tmp, left>>
           \/ /\ "never" \in Retentions
              /\ kept' = {} /\ left' = {}
              /\ tmp' = [q \in Proc |-> Absent]
              /\ lock' = Absent
        /\ UNCHANGED data
  /\ made' = [made EXCEPT ![p] = Absent]
  /\ UNCHANGED <<be, book, hist>>

(* A process is killed: its files stay as they are.                        *)
Crash(p) ==
  /\ pc[p] \notin {"idle", "dead"}
  /\ Goto(p, "dead")
  /\ lockfile' = [lockfile EXCEPT ![p] = FALSE]
  /\ linkfile' = [linkfile EXCEPT ![p] = FALSE]
  /\ locked' = [locked EXCEPT ![p] = FALSE]
  /\ UNCHANGED <<dir, book, made, hist>>

Save(p) == \/ Backup(p) \/ OpenTmp(p) \/ FillTmp(p) \/ UnlinkData(p)
           \/ LinkData(p) \/ CopyData(p) \/ DropTmp(p) \/ RemoveOldFiles(p)
Begin(p) == CreateLock(p) \/ Answer(p) \/ LinkLock(p) \/ CountLinks(p)
Next == \E p \in Proc :
          \/ Begin(p) \/ Load(p) \/ Edit(p) \/ Save(p) \/ EndSession(p)
          \/ Crash(p)
Spec == Init /\ [][Next]_vars

-----------------------------------------------------------------------------
(* The variables keep their types; a temporary is torn by its own process  *)
(* only, and the backend knows the lock's name exactly during a session.   *)
TypeOK ==
  /\ data \in Content /\ lock \in Proc \cup {Absent}
  /\ lnk \in [Proc -> Proc \cup {Absent}] /\ tmp \in [Proc -> Content]
  /\ \A p \in Proc : tmp[p] \in Complete \cup {p, Absent}
  /\ kept \subseteq Content \ {Absent} /\ left \subseteq Content \ {Absent}
  /\ pc \in [Proc -> InSession \cup {"idle", "asked", "linking", "counting",
                                    "dead"}]
  /\ lockfile \in [Proc -> BOOLEAN] /\ linkfile \in [Proc -> BOOLEAN]
  /\ \A p \in Proc : lockfile[p] <=> pc[p] \in InSession
  /\ locked \in [Proc -> BOOLEAN] /\ dirty \in [Proc -> BOOLEAN]
  /\ mem \in [Proc -> Complete] /\ from \in [Proc -> Complete]
  /\ made \in [Proc -> Content]
  /\ clock \in Complete /\ promised \in Complete /\ cut \in BOOLEAN

(* An open session that obtained the lock still has it: the file of the    *)
(* lock's name is the one it created, so that no second process can obtain *)
(* the lock while the first one works on the data file.                    *)
LockHeld == \A p \in Proc : locked[p] => lock = p

(* The data file is never a torn one: whatever crashes or fails, whoever   *)
(* opens the file finds a complete book in it or no file at all.           *)
NeverTorn == data \notin Proc

(* A book that is marked saved has been saved: what a save reported to     *)
(* have stored, or something newer, is in full on disk, under one name or  *)
(* another.  The code breaks this where the new data file is a copy: one   *)
(* cut short by a full disk is not noticed, and the temporary file is      *)
(* unlinked all the same.                                                  *)
SavedIsOnDisk ==
  \E c \in {data} \cup kept \cup left \cup {tmp[p] : p \in Proc} :
    c \in Complete /\ c >= promised

(* Unless the last save that was reported to succeed left such a copy, the *)
(* saved book is on disk at every moment: also between the removal of the  *)
(* data file and its replacement, after a failed save and after crashes.   *)
SavedSurvives == ~cut => SavedIsOnDisk

(* A save replaces only what its own process read from the data file or    *)
(* wrote to it (in full, or torn by a failed copy): the work of another    *)
(* process is never overwritten unseen.                                    *)
NoLostUpdate ==
  [][\A p \in Proc : pc[p] = "filled" /\ pc'[p] = "unlinked" =>
                       data \in {from[p], p, Absent}]_vars
=============================================================================
