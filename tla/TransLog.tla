------------------------------- MODULE TransLog -------------------------------
(***************************************************************************)
(* The transaction log, "a mechanism of last resort for recovering lost    *)
(* user data in the event of a crash": engine/TransLog.c writes a record   *)
(* of a transaction whenever an edit of it begins, is committed or rolled  *)
(* back, or it is deleted; import-export/log-replay/gnc-log-replay.c reads *)
(* the records back after the book was opened as it was saved last.        *)
(*                                                                         *)
(* Several edits may be open at once, and when the book is saved.  A crash *)
(* may come at any time, also while a record is written.  The user then    *)
(* opens the book and replays what was logged since it was saved; replays  *)
(* are not logged themselves.  One currency, and the accounts for orphans  *)
(* and imbalances are there from the beginning; the splits of a            *)
(* transaction are numbered and never move to another one.                 *)
(***************************************************************************)
EXTENDS Integers, Sequences, FiniteSets, FiniteSetsExt, Functions

CONSTANTS
  Transactions,      \* the transactions there may be
  Saved,       \* the accounts that exist from the beginning
  Opened,      \* the accounts that may be opened later
  Contents,    \* what users enter: the splits of a balanced transaction
  MaxRecords   \* bound: records logged since the last save

Orphans == "Orphan"      \* the account for splits that have none
Imbalances == "Imbalance" \* the account for what is missing
Nowhere == "Nowhere"     \* no account at all
NoMemo == "none"         \* a memo that is empty
Imbalance == 0           \* the split that balances a transaction

ASSUME TransLogAssumption ==
  /\ MaxRecords \in Nat
  /\ {Orphans, Imbalances, Nowhere} \cap (Saved \cup Opened) = {}
  /\ \A c \in Contents :
       /\ DOMAIN c \subseteq Nat \ {Imbalance} /\ IsFiniteSet(DOMAIN c)
       /\ c \in [DOMAIN c -> [acc : Saved \cup Opened, memo : STRING, amt : Int]]

VARIABLES
  ledger,      \* the transactions in memory, as they are being edited
  copy,        \* what the open edit of each started from, or NotOpen
  newest,      \* the newest split that each was ever given
  accounts,    \* the accounts in memory
  file,        \* the book as it was saved last
  log,         \* the records written since
  phase,       \* "running", "crashed" or (until something is done) "recovered"
  before       \* history: what was committed when it crashed

logvars == <<ledger, copy, newest, accounts, file, log, phase, before>>

NoSplits == [s \in {} |-> s]
Absent == [is |-> "absent", splits |-> NoSplits]
Deleted == [is |-> "deleted", splits |-> NoSplits]
Live(c) == [is |-> "live", splits |-> c]
None == [t \in Transactions |-> Absent]
NotOpen == [is |-> "closed", splits |-> NoSplits]

\* The splits in c, and those in d that are not in c.
Over(c, d) == [s \in DOMAIN c \cup DOMAIN d |-> IF s \in DOMAIN c THEN c[s] ELSE d[s]]

LogInit ==
  /\ \E c \in Contents, there \in SUBSET Transactions :
       /\ \A s \in DOMAIN c : c[s].acc \in Saved
       /\ ledger = [t \in Transactions |-> IF t \in there THEN Live(c) ELSE Absent]
       /\ newest = [t \in Transactions |-> IF t \in there THEN Max(DOMAIN c) ELSE 0]
  /\ copy = [t \in Transactions |-> NotOpen]
  /\ accounts = Saved \cup {Orphans, Imbalances}
  /\ file = [book |-> ledger, accounts |-> accounts, open |-> {}]
  /\ log = <<>> /\ phase = "running" /\ before = None

-----------------------------------------------------------------------------
IsOpen(t) == copy[t] # NotOpen
Committed == [t \in Transactions |-> IF IsOpen(t) THEN copy[t] ELSE ledger[t]]

Running == phase # "crashed" /\ phase' = "running" /\ before' = None

\* xaccTransWriteLog: one line for each split
Record(flag, t, c) == [flag |-> flag, trans |-> t, splits |-> c, torn |-> FALSE]
Logs(records) == Len(log) + Len(records) <= MaxRecords /\ log' = log \o records

\* xaccTransBeginEdit
BeginEdit(t) ==
  /\ Running /\ ~IsOpen(t) /\ ledger[t] # Deleted
  /\ Logs(<<Record("B", t, ledger[t].splits)>>)
  /\ copy' = [copy EXCEPT ![t] = ledger[t]]
  /\ UNCHANGED <<ledger, newest, accounts, file>>

\* Setters called while the edit is open; a split it adds is a new one.
Edit(t, c) ==
  /\ Running /\ IsOpen(t)
  /\ ledger[t] # Live(c)
  /\ \A s \in DOMAIN c : /\ c[s].acc \in accounts
                        /\ (s \in DOMAIN ledger[t].splits \/ s > newest[t])
  /\ ledger' = [ledger EXCEPT ![t] = Live(c)]
  /\ newest' = [newest EXCEPT ![t] = Max({@} \cup DOMAIN c)]
  /\ UNCHANGED <<copy, accounts, file, log>>

Value(c) == SumFunctionOnSet([s \in DOMAIN c |-> c[s].amt], DOMAIN c)

\* Mutant: what the balance split holds already is forgotten.
AnewImbalance(c) == -Value(c)

\* What the balance split has to hold.
BalanceOf(c) ==
  (IF Imbalance \in DOMAIN c THEN c[Imbalance].amt ELSE 0) - Value(c)

\* No split has an account, so that nothing tells the currency.
Homeless(c) == \A s \in DOMAIN c : c[s].acc = Nowhere

\* A commit scrubs: a split without an account goes to Orphan, what is missing
\* to Imbalance.  Both need the currency, which is that of an account, for the
\* log does not tell.
Scrubbed(c) ==
  LET homed == [s \in DOMAIN c |-> IF c[s].acc = Nowhere
                                    THEN [c[s] EXCEPT !.acc = Orphans] ELSE c[s]]
      rest == [acc |-> Imbalances, memo |-> NoMemo, amt |-> BalanceOf(c)]
  IN IF Homeless(c) THEN c
     ELSE IF Value(c) = 0 THEN homed
     ELSE Over([s \in {Imbalance} |-> rest], homed)

\* xaccTransCommitEdit and trans_cleanup_commit
CommitEdit(t) ==
  /\ Running /\ IsOpen(t) /\ ledger[t].is = "live"
  /\ ledger' = [ledger EXCEPT ![t].splits = Scrubbed(@)]
  /\ Logs(<<Record("C", t, ledger'[t].splits)>>)
  /\ copy' = [copy EXCEPT ![t] = NotOpen]
  /\ UNCHANGED <<newest, accounts, file>>

\* xaccTransRollbackEdit
RollbackEdit(t) ==
  /\ Running /\ IsOpen(t)
  /\ Logs(<<Record("R", t, copy[t].splits)>>)
  /\ ledger' = [ledger EXCEPT ![t] = copy[t]]
  /\ copy' = [copy EXCEPT ![t] = NotOpen]
  /\ UNCHANGED <<newest, accounts, file>>

\* xaccTransDestroy and do_destroy
DeleteTrans(t) ==
  /\ Running /\ ~IsOpen(t) /\ ledger[t].is = "live"
  /\ Logs(<<Record("B", t, ledger[t].splits), Record("D", t, ledger[t].splits)>>)
  /\ ledger' = [ledger EXCEPT ![t] = Deleted]
  /\ UNCHANGED <<copy, newest, accounts, file>>

\* Accounts are not logged.
OpenAccount(a) ==
  /\ Running /\ a \notin accounts
  /\ accounts' = accounts \cup {a}
  /\ UNCHANGED <<ledger, copy, newest, file, log>>

\* gnc_file_save writes what is in memory ("Somehow make sure all in-progress
\* edits get committed!"), the splits that open edits have destroyed
\* included; xaccReopenLog begins a new log.
Save ==
  /\ Running
  /\ file' = [book |-> [t \in Transactions |->
                          IF ledger[t].is = "live"
                          THEN Live(Over(ledger[t].splits, copy[t].splits)) ELSE ledger[t]],
              accounts |-> accounts,
              open |-> {t \in Transactions : IsOpen(t)}]
  /\ log' = <<>>
  /\ UNCHANGED <<ledger, copy, newest, accounts>>

-----------------------------------------------------------------------------
Crashes ==
  /\ phase = "running" /\ phase' = "crashed"
  /\ before' = Committed
  /\ UNCHANGED <<ledger, copy, newest, accounts, file>>

Crash == Crashes /\ UNCHANGED log

\* Only the first lines of the last record reach the disk.
CrashWhileLogging(t) ==
  /\ Crashes
  /\ ledger[t].is = "live"
  /\ LET c == Scrubbed(ledger[t].splits)
     IN \E n \in DOMAIN c :
          Logs(<<[flag |-> IF IsOpen(t) THEN "C" ELSE "D", trans |-> t, torn |-> TRUE,
                  splits |-> Restrict(c, {s \in DOMAIN c : s <= n})]>>)

-----------------------------------------------------------------------------
(* gnc_file_log_replay, on the book b.                                     *)

\* Mutant: the account is only read for splits that are new.
ReadIfNew(was, line, known) ==
  [line EXCEPT !.acc  = IF was.acc = Nowhere /\ @ \in known THEN @ ELSE was.acc,
               !.memo = IF @ = NoMemo THEN was.memo ELSE @]

\* A field that is empty in the record, and an account that does not exist,
\* leave what was there.
ReadLine(was, line, known) ==
  [line EXCEPT !.acc  = IF @ \in known THEN @ ELSE was.acc,
               !.memo = IF @ = NoMemo THEN was.memo ELSE @]

\* Splits are found or made by their GUID.
ReplayCommit(b, known, r) ==
  LET old == b[r.trans].splits
      was(s) == IF s \in DOMAIN old THEN old[s]
                ELSE [acc |-> Nowhere, memo |-> NoMemo, amt |-> 0]
      new == [s \in DOMAIN r.splits |-> ReadLine(was(s), r.splits[s], known)]
  IN [b EXCEPT ![r.trans] = Live(Scrubbed(Over(new, old)))]

ReplayDelete(b, r) ==
  IF b[r.trans].is = "live" THEN [b EXCEPT ![r.trans] = Deleted] ELSE b

\* process_trans_record: begun edits and rollbacks are ignored.
ReplayRecord(b, known, r) ==
  CASE r.flag = "C" -> ReplayCommit(b, known, r)
    [] r.flag = "D" -> ReplayDelete(b, r)
    [] OTHER -> b

Replay(b, known, records) ==
  LET after[n \in 0..Len(records)] ==
        IF n = 0 THEN b ELSE ReplayRecord(after[n - 1], known, records[n])
  IN after[Len(records)]

\* The record of a deletion that has one line leaves a pointer to the freed
\* transaction, and its edit is then committed.  The program may die of it, and
\* remain crashed, or it may go on.
Recover ==
  /\ phase = "crashed" /\ phase' = "recovered"
  /\ ledger' = Replay(file.book, file.accounts, log)
  /\ copy' = [t \in Transactions |-> NotOpen]
  /\ accounts' = file.accounts
  /\ UNCHANGED <<newest, file, log, before>>

ReplayAgain ==
  /\ phase = "recovered"
  /\ ledger' = Replay(ledger, accounts, log)
  /\ UNCHANGED <<copy, newest, accounts, file, log, phase, before>>

LogNext ==
  \/ \E t \in Transactions : \/ BeginEdit(t) \/ CommitEdit(t) \/ RollbackEdit(t)
                       \/ DeleteTrans(t) \/ CrashWhileLogging(t)
                       \/ \E c \in Contents : Edit(t, c)
  \/ \E a \in Opened : OpenAccount(a)
  \/ Save \/ Crash \/ Recover \/ ReplayAgain

LogSpec == LogInit /\ [][LogNext]_logvars
-----------------------------------------------------------------------------
RecordsOf(t) == {i \in DOMAIN log : log[i].trans = t /\ log[i].flag \in {"C", "D"}}
Mentioned(t) == DOMAIN file.book[t].splits \cup
                UNION {DOMAIN log[i].splits : i \in RecordsOf(t)}

\* The file holds an edit that was not committed then, or since; or the last
\* record was torn by the crash.
Doubtful(t) ==
  IF RecordsOf(t) = {} THEN t \in file.open ELSE log[Max(RecordsOf(t))].torn

\* The transaction is there with every split that it had.
Covers(now, was) ==
  /\ now.is = was.is
  /\ \A s \in DOMAIN was.splits \ {Imbalance} :
       /\ s \in DOMAIN now.splits
       /\ now.splits[s].amt = was.splits[s].amt
       /\ was.splits[s].acc \in file.accounts => now.splits[s].acc = was.splits[s].acc
       /\ was.splits[s].memo # NoMemo => now.splits[s].memo = was.splits[s].memo

(* After a crash and a replay, or several, whatever edits were open,       *)
(* committed, rolled back or saved in between, every transaction that was  *)
(* committed is there with every split it had, and none that was deleted.  *)
NothingCommittedIsLost ==
  phase = "recovered" =>
    \A t \in Transactions : ~Doubtful(t) => Covers(ledger[t], before[t])

(* And it has nothing more but an empty split for an imbalance that there  *)
(* was while the records were replayed, if none of its splits was removed  *)
(* since the book was saved: the log does not tell which to remove.  (One  *)
(* that an earlier replay of a torn record left without any account is not *)
(* balanced either, until a replay finds one.)                             *)
RecoveredAsItWas ==
  phase = "recovered" =>
    \A t \in Transactions :
      /\ ~Doubtful(t)
      /\ ~Homeless(before[t].splits)
      /\ Mentioned(t) = DOMAIN before[t].splits
      => \A s \in DOMAIN ledger[t].splits \ DOMAIN before[t].splits :
           s = Imbalance /\ ledger[t].splits[s].amt = 0
=============================================================================
