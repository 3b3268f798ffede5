# TLA+ models and proofs of GnuCash

GnuCash keeps double-entry books. This directory models the parts of it in which an
order of steps, a failure at the wrong moment or a callback into running code decides
whether the books stay right: editing a transaction, telling the rest of the program
about it, bringing it to a file, a database or the log, and what the program does with a
book by itself: creating the transactions of schedules and sorting splits into lots; and the
numbers all of it is reckoned in. Paths below are those of the source
tree (`src/engine/Transaction.c` is the file `src/src/engine/Transaction.c` of the
repository's checkout under `src/`).

The program is one process with one thread. What makes it hard is not parallelism but

* **callbacks**: an event handler or a refresh handler calls back into the dispatcher or
  the component manager that is calling it, to any depth;
* **edits left open**: `xaccTransBeginEdit` and `xaccTransCommitEdit` may be many user
  actions apart, several transactions that share accounts may be open at once, and
  every setter of a closed transaction is an edit of its own;
* **partial failure**: a backend may refuse the second of five objects of one commit, a
  disk may fill up in the middle of a save, a process may be killed between two calls;
* **several processes** that work on one data file;
* **long sequences of legal calls** on data kept over months: what was put off, cut up,
  half recovered or looked at in the wrong moment must still add up years later.

## 1. Inventory

### Modelled

| Part | Code | State | Operations | Interacts with |
|---|---|---|---|---|
| Transactions and splits | `engine/Transaction.c`, `engine/Split.c`, `libqof/qof/qofinstance.c` | per transaction its split list, edit level, flags (dirty, to be destroyed, read-only) and the copy `orig` for a rollback; per split its account and parent, those last committed, amount, value, reconcile flag, flags | begin, commit, rollback, destroy, every setter | commits scrub, change account lists, call the backend |
| Scrubbing | `engine/Scrub.c` | none | orphans, uneven amounts, balance split | runs inside the outermost commit |
| Account split lists and balances | `engine/Account.c` | split list, sort-dirty and balance-dirty flags, three cached balances, edit level | insert and remove a split, recompute, begin and commit of the account | called by every split commit |
| Event dispatcher | `libqof/qof/qofevent.c` | list of handlers, run level, suspend counter, pending deletions | register, unregister, suspend, resume, generate, force | handlers call back |
| Component manager | `app-utils/gnc-component-manager.c` | list of components with their watches, collected changes, suspend counter | register, watch, suspend, resume, refresh, close by session | fed by the dispatcher, calls windows, which call back |
| XML file backend and lock | `backend/xml/gnc-backend-xml.c`, `libqof/qof/qofsession.c` | data file, lock and link files, backups, temporaries; per process its session | begin, load, save, remove old files, end | other processes through the directory |
| SQL and DBI backend | `backend/sql/gnc-backend-sql.c`, `gnc-transaction-sql.c`, `backend/dbi/gnc-backend-dbi.c` | rows of transactions and splits | commit of one object, save, load | called by the engine's commits, driven by flags of the objects |
| Lots and lot scrubbing | `engine/gnc-lot.c`, `policy.c`, `cap-gains.c`, `Scrub2.c`, `Scrub3.c` | per lot its splits and a cached answer to "is it closed?"; per account its lots | assign, cut, fill, merge, scrub; the lot viewer's buttons | reads the account's list, changes splits |
| Scheduled transactions | `engine/SchedXaction.c`, `app-utils/gnc-sx-instance-model.c`, `gnome/dialog-sx-since-last-run.c` | the schedule's last date, counters and deferred states; the dialog's instances | generate, update, change a state, carry out, enable | asks `Recurrence`; creates transactions |
| Recurrences | `engine/Recurrence.c` | none | set, next date, next date of a list | called by schedules |
| Transaction log and its replay | `engine/TransLog.c`, `import-export/log-replay/gnc-log-replay.c` | the records since the last save | a record for each begin, commit, rollback and deletion; replay | called by the engine's edits; replays edits |
| Exact numbers | `libqof/qof/gnc-numeric.c`, `qofmath128.c` | none | add, subtract, multiply, divide, convert, reduce, to decimal | called for every amount and balance |

What makes each correct: an edit takes effect as a whole or not at all and leaves a
balanced transaction; account lists and balances follow the committed splits; each
event reaches exactly the handlers due; each refresh reports one consistent set of
changes and misses nobody; nobody overwrites another's work or is left with a torn
file; rows agree with what the engine believes to be committed; every occurrence of a
schedule becomes transactions, is ignored or is put off, once; the parts of a cut split add
up, and lots are used up in order; what was committed before a crash is there after a
replay; a result is exact, or rounded once as asked, or an error.

### Not modelled

| Part | Code | State and behaviour | Why not, or when |
|---|---|---|---|
| Price database | `engine/gnc-pricedb.c` | two-level table of price lists, reference counts | planned |
| Business objects | `engine/gncInvoice.c`, `gncEntry.c`, `gncOwner.c` ... | invoices, their posting and payment through lots | planned |
| Account tree, merging | `engine/Account.c`, `app-utils/gnc-account-merge.c` | parent and children, moving all splits, deletion | planned; accounts are leaves in `TransEdit` |
| Budgets and periods | `engine/gnc-budget.c`, `Period.c` | a table of amounts; closing of a period is compiled out of the menus | little control |
| Commodities | `engine/gnc-commodity.c` | reference data by name | little control |
| Dates | `libqof/qof/gnc-date.c` | the chosen format | parsing and formatting in locales |
| Capital gains | `engine/cap-gains.c` | gains status of splits, gains transactions | `Lots` has one price, so that none arise; planned |
| Significant figures, doubles, strings of numbers | `libqof/qof/gnc-numeric.c` | none | logarithms and formats; no integers of bounded width |
| Formulas and creation of scheduled transactions | `app-utils/gnc-sx-instance-model.c`, `calculation/` | variables, template transactions | parsing; `SchedXaction` has instances that are created as such |
| Queries | `libqof/qof/qofquery*.c`, `qofsql.c` | compiled predicates | a pure evaluation over collections |
| Sessions and books, the rest | `qofsession.c`, `qofbook.c` | swapping of sessions, export, error stack | begin, load, save and end are in `XmlFile` and `SqlStore` |
| Object classes, identifiers, slots | `libqof/qof` | registries and hash tables | libraries without an ordering of their own |
| Merging of books | `qofbookmerge.c` | rules computed once and applied | only the QSF import uses it |
| Engine start-up, hooks, Scheme glue | `engine/gnc-engine.c`, `gnc-hooks.c` | registration | runs once |
| XML formats | `backend/xml/*-v2.c`, `sixtp.c` | parsers and writers | `XmlFile` has complete and torn files instead |
| Other SQL tables | `backend/sql/gnc-*-sql.c` | one table each | the commit of `SqlStore` without dependent rows |
| Registers | `register/`, `gnome/split-register*` | cursor, cells, the pending transaction | toolkit code; its engine calls are those of `TransEdit` |
| Windows, dialogs, plug-ins, business windows | `gnome/`, `gnome-utils/`, `business/` | toolkit state | read only for when they call the engine |
| Import and export, reports, calculator | `import-export/`, `report/`, `calculation/` | parsers, matching heuristics, formulas | change the book only through modelled edits |
| Module loader, options, utilities | `gnc-module/`, `app-utils/option-util.c`, `core-utils/` | settings and paths | no ordering of interest |
| Libraries, data, bindings, packaging | `lib/`, `accounts/`, `optional/` | | not the program's own logic |

`PROJECT.json` lists the same components with their files, and under `hazards` the
places where this code can go wrong in a way a test would hardly reach.

## 2. Plan

Order of work, the most important behaviour first. Items 1 to 9 are done.

1. `TransEdit`, with the abstract specification `Ledger`: edits of transactions,
   scrubbing, account lists and balances in one module, because one call changes all.
2. `TransEditProofs`: types, account lists, the copy, the pairing in a rollback.
3. `XmlFile`, `XmlFileProofs`: the lock and the save.
4. `QofEvent`, `GuiRefresh` and their proofs: who is told, in what order, while callbacks
   change it.
5. `SqlStore`, `SqlStoreProofs`: what a commit does to the tables.
6. `Recurrence` and `SchedXaction`: the next date, checked against a count of periods from
   the first; the states of instances over many days, dialogs and put-off dates.
7. `Lots` and `TransLog`: scrubbing an account into lots; recovering from the log.
8. `Numeric` and `Reckoning`: the arithmetic of fractions, its rounding modes and its
   overflow checks; two numbers, and what their exact result is.
9. `InductionLemmas`, and with them: in `TransEditProofs`, edits balance, are atomic, can be
   rolled back, and balances follow them; `UpkeepProofs`: the log brings back what was
   committed, scrubbing keeps lots and sums, and uses lots up in order; `QofProofs`: numbers
   are exact or rounded once; `SchedProofs`: every
   occurrence of a schedule goes one way.
10. `AccountTree`: deletion, `xaccAccountMoveAllSplits`, and moves of splits between
   transactions in `TransEdit`; gains in `Lots`, with several prices.
11. `PriceDB`, `Invoice`; slots and several commodities in `SqlStore` and `TransEdit`.

Abstract specifications still worth stating: the database as a set of committed
transactions that `SqlStore` implements when nothing fails; the log as a second copy of
the book. Every invariant that a passing run checks is the
property of a theorem.

## 3. The modules and the code

Each definition that stands for code is listed in `PROJECT.json` under `map` with its
lines. Definitions commented as mutants are what a plausible bug would make of the
definition next to them; `PROJECT.json` names, for every property of every passing run, a
mutant under which TLC finds the property violated.

### `TransEdit` and `Ledger`

`trans`, `split` and `acct` hold the fields of the C structures under the names of the
code; `orig` is `trans->orig`; `cached` holds the three balances of an account. An action
is a whole API call, because nothing else runs before it returns: `TransBeginEdit`,
`TransCommitEdit`, `TransRollbackEdit`, `TransDestroy`, `SplitSetParent`,
`SplitSetAccount`, `SplitSetAmount`, `SplitSetValue`, `SplitSetBaseValue`,
`SplitSetReconcile`, `SplitDestroy`, `TransSetDescription` (for every setter of the
transaction's own fields), `TransSetReadOnly`, `AccountBeginEdit`, `AccountCommitEdit`,
`AccountGetSplitList`. A setter on a closed transaction is its own begin and commit
(`Edit`). A call computes on a working record of the transaction, all splits, accounts and
balances, in the order of the code; the outermost commit is

    CommitEdit = [destroy an emptied one] ; ScrubImbalance ; backend ;
                 CleanupCommit (every dirty split: CommitSplits, Recompute) or DoDestroy
                 or, when the backend refuses, RollbackEdit.

Abstractions: one commodity, so that amounts need no rounding; `Descrs` stands for all
fields of a transaction that a commit does not look at; an account's list is a set, its
order matters to no property; the `of` field of a copied split is not in the code and
serves the property `FrontIsOriginal` only. Left out: splits moved between
transactions, lots and gains, deletion of accounts, trading accounts, events.

`Ledger` is what an edit promises: while a transaction is open its committed content
stays; when the edit ends the content is replaced, at once, by a balanced one, or stays.
`TransEdit` implements it under the mapping `Abs` (property `AtomicEdits`), in which the
content of an open transaction is what its copy would restore.

### `QofEvent`

`handlers` is the set of nodes of the handler list, which the list has in the order
`Precedes`: a new handler is prepended and ids rise, so newer ids come first. The ids whose handler was cleared (`dead`), `handler_run_level`,
`suspend_counter` and `pending_deletes` as in the code. `stack` is the C stack: one walk
per event being delivered, with the node it goes to next (read *before* the handler is
called) and the handler it is inside of. Calls by handlers and by others are the same
actions. `due` is history for the properties. Id overflow after 2^31 registrations is not
modelled.

### `GuiRefresh`

`components` is the set of registered ids: ids rise, so that the list is in their order and
a pass goes from the oldest (`Oldest`) to the newest. Their `info`, `changes` and `changes_backup`, `got_events` and
`suspend_counter` as in the code; `stack` holds the running code: a caller, refresh passes
and loops that close the components of a session, each with the handler it is inside of.
What is assumed of callers, because the code in `gnome/` and `gnome-utils/gnc-file.c` does
so: a handler resumes what it suspended before it returns; a full refresh and a close by
session come from menu-level code, the latter with engine events switched off; a close
handler unregisters no other component of the session. Shutdown is left out.

### `XmlFile`

Processes share a directory: data file, lock, one link name per process, temporaries and
backups. A file is a version of the book, or the process that has half written it. Each
action is one file system call (or calls between which another process does not matter),
so processes interleave between any two and may be killed anywhere: `CreateLock`,
`LinkLock`, `CountLinks` (the lock file and its link count), `Answer` (the user may open
anyway), `Load`, `Edit`, then `Backup`, `OpenTmp`, `FillTmp`, `UnlinkData`, `LinkData`,
`CopyData`, `DropTmp`, `RemoveOldFiles`, and `EndSession`. With `DiskFails` every one of
the save's operations may fail, and a copy that `copy_file` makes (of the backup, `CutCopies`,
or of the data file, `CopyData`) may be cut short with or without an error: the code looks for
`write()` returning -1 only. `cut` remembers that the save reported last left such a data
file. `Links` says what `link()` may answer: supported, not
supported, or either at each call (`EPERM` is also the answer for single files).
`RemoveOldFiles` is part of every save, whatever became of it, as in `xml_sync_all`.
With retention "days" any old backup may go, but never one made by a save still running.
Not modelled: content and compression, `.xac` files of the old format, reuse of a process
id, power failures that lose unsynced data, export.

### `SqlStore`

The engine's calls reduced to what decides about statements: `infant`, `dirty`, `doomed`
(do_free), the split list, and the copy; an object's data is a version number, a row the
version stored. A commit runs in steps, each one SQL transaction: `StoreTrans`, one
`StoreSplit` for each modified split in any order, `EndCommit`. `Possible` says whether an
INSERT would succeed; an UPDATE of no row does nothing. `Save` (menu; offered after pending
edits were finished) drops the two tables one by one, then writes everything in one SQL
transaction. `Crash` and `Load` lose and rebuild the memory. Loading commits, with scrubbing,
every transaction it has read. One of which a broken off commit stored a part (`BrokenOff`) may
be unbalanced: scrubbing then changes splits or adds some (`Scrubbable`), which are marked
clean and no infants, while nothing is stored. `patched` is the set of those splits, until a
commit finds a row for them or the book is saved; the properties except them. Whether what is
left really is unbalanced is not modelled, since amounts are not: any splits of it may be
mended, or none. Abstractions: which transaction a split may belong to is fixed (`HomeOf`); the
balance split of a commit is an `AddSplit` before it; the server refuses statements, not
commits of SQL transactions; slots and other tables are left out.

### `Recurrence`

The pure functions of `Recurrence.c`, without state. A date is a day number of a calendar
given by the lengths of its months (`MonthDays`) and a first weekday, which stand for
GLib's `GDate`; months are numbered through. `RecurrenceSet` and `NextInstance` follow the
code branch by branch (`LeaveWeekend`, `FridayForward`, `Forward`, `Align`,
`AdjustWeekend`). `Occurrence` and `EarliestAfter` are the reference: occurrence k counted
from the first date, and the earliest one after a date, by definition.

`RuleWalk` makes a recurrence (`recurrenceSet`, whose result never changes) and asks it about
one date after another, which is all that the rest of the program does with one. `Covered`
bounds the calendar: a weekend before the first date, since adjusting goes back to a Friday,
and a period after the last date asked about. GLib's calendar begins in year 1 and ends in
year 65535.

### `SchedXaction`

`sx` is one schedule (the code treats each on its own) with the last date, the occurrences
that remain, the number of the next and the list of deferred states; `instances` is the
dialog's model. `SinceLastRun` (opening the book, or the menu), `ChangeState` with the
update of the instances that its signal causes, `Accept` (`EffectChange`, one pass over the
instances), `Cancel`, `SetEnabled` with the model's event handler, and `NewDay`. Left out:
formulas and their variables, failures to create, edits of a schedule other than enabling.
Freed deferred states keep their contents in the model (see section 5).

### `Lots`

One account whose splits trade one commodity at one price; `acc` holds the splits, the
account's list and whether it is sorted, the lots, and the cached `is_closed` of each.
The operators follow the calls: `AssignToLot` and `CutSplit`, `PolicyLot` (first in, first
out) over the open lots, `Assign`, `AssignLots`, `PolicySplit`, `LotFill`, `MergeSplits`,
`MergeSubSplits`, `Refilled`, `ScrubLot`, `ScrubLots`. The loops of the code that run until
nothing is left to do are recursive functions of the number of rounds, each with as many
rounds as there can be something to do (`AssignRound`, `FillRound`, `MergeRound` change
nothing once that is so; that the rounds suffice was compared with TLC, in all states of the
run, by asking for one round more). Actions are what a user does: enter
a transaction, change an amount or a date, delete, abandon an edit while a lot viewer
looks, press the buttons of the viewer. The account is open during a scrub and its list is
therefore not sorted meanwhile, as in the code. Left out: gains, values apart from amounts,
the LIFO policy, which nothing selects, and `GNC_AUTO_SCRUB_LOTS`.

### `TransLog`

`ledger` and `copy` are transactions and their open edits, `file` the book as saved last,
`log` the records since. Every edit writes records; a crash may come at any time, also in
the middle of one, whose first lines are then on disk. `Recover` opens the saved book and
replays, `ReplayAgain` replays once more. A replay finds splits by GUID (`Over`), leaves a
field that is empty in the record as it was, and scrubs each transaction when it commits it,
which it can only if one of its accounts is known, for the currency is that of an account
(`Homeless`). `Replay` is a recursive function over the records, so that it can be reasoned
about.
Left out: several currencies, moves of splits between transactions, the file names of logs.

### `Numeric` and `Reckoning`

The functions of `gnc-numeric.c` on numbers, under the names of the code where they have
one, with the numbers of twice the width of `qofmath128.c` below them (`Mult128`, `Rem128`,
`Reduce128`, `Shifted`). `Bits` stands for the 64 bits of an integer; what overflows wraps,
as it does in the builds of this code. `Sum`, `Product`, `Ratio` and `Quotient` are the
steps at which the code checks for overflow; `Rounded` is the rounding at the end of a
conversion. The loop of `gnc_numeric_to_decimal` is a function of the number of rounds
(`MadeDecimal`, `OnePlace`) and has one round for each bit, more than it can take. `DenomAuto`
is `GNC_DENOM_AUTO`.
`Reckoning` has the reference, `Exact`, `Nearest` and `RoundedTo`: fractions of unbounded
integers, and their nearest neighbours by definition. Nothing of `gnc-numeric.c` keeps a state;
a state of `Reckoning` is the two numbers that an operation is given, and stays as it is. Left out: significant figures, which the code finds by
logarithms of doubles, doubles and strings, comparison, the operations that return their
error besides, and division by zero.

### `MCUpkeep`

Instantiates the last five. They share no state, and each behaviour is of one part
(`part`), so that one run checks them all without multiplying their states.

## 4. The runs

| Run | Instance | What it shows |
|---|---|---|
| `te_edit` | 1 transaction, 3 splits, level 1, refusing backend | types, account lists, copy, pairing of splits and copies, no half-finished transaction |
| `te_two` | 2 transactions, 2 splits, level 2, refusing backend, remote deletion, leaked edits | closed transactions are consistent and only outermost commits publish, while transactions share accounts and splits go from one freed transaction to the next |
| `te_fields` | 1 transaction, 2 splits, no backend, own fields, read-only, amounts, accounts, 2 reconcile flags | without a backend splits stay dirty, and a rollback rewrites what the edit never touched, account and flag included |
| `te_balance` | 1 transaction, 2 splits, account edits, reconcile flags | cached balances are right whenever nothing is open |
| `qe_events` | 5 registrations, events 3 deep, 3 pending deletions, 1 suspension | nested delivery and its end |
| `gr_refresh` | 3 components, 1 split with two kinds of events, 1 suspension per frame | passes, collecting, closing |
| `xf_locked` | 2 processes that obey the lock, 2 edits, both answers of `link()`, failing disk | lock, no lost update, nothing saved is lost but by an unnoticed cut copy |
| `xf_anyway` | 2 processes that may not, 1 edit, every retention, failing disk | no torn data file even then |
| `sq_steady` | 1 transaction, 3 splits, 2 versions, crashes, saves | rows are the committed states between commits, old or new within one |
| `sq_refusals` | 1 transaction, 3 splits, 2 versions, refusals | INSERT and UPDATE find what they need, no orphans, nothing left of the destroyed |
| `upkeep`, schedules | one schedule of two rules (every second day, every week), four days, ahead by one day to create and one to remind, with an end, a count or neither | each occurrence once, counters, reminders last, never too many |
| `upkeep`, recurrences | every type but "nth weekday", every adjustment, multipliers 1 and 2, 18 first dates from the third day on, asked about from 200 days | the next date is the earliest occurrence after the date |
| `upkeep`, lots | 5 splits, 3 lots, 3 transactions, 2 dates, buys of 2 and sells of 1, 2 other changes | lists agree, nothing lost, first in first out, cache right after a scrub |
| `upkeep`, log | 1 transaction of two splits, 3 contents, an account opened later, 3 records | nothing committed is lost, nothing is added |
| `upkeep`, numbers | 6 bits, numerators at both ends, around a half and a quarter of the range and small, 6 denominators, no rounding or each of 7 into each of 10 denominators | exact or an error; no product missed; decimals keep their value; rounded once, in the right direction |
| `rec_nth_weekday` | "nth weekday", otherwise as above | finding: the next date may be the same or an earlier one |

Why the bounds are enough. A transaction needs one split before, at and after the end of
the copied list to tell positions apart, hence three; two transactions to share an account
and to reuse what the other freed; two values, unset (0) and 1, to be balanced or not; two
levels for an inner commit. A torn delivery needs three walks (one that removes, one nested
in it, one below both) and two registrations besides. Two processes race for a lock; a
third meets the same names. Two versions tell stale from new; three splits give one that
is old, one that is new and one that is destroyed in a single commit, or one that a crash left
and one that loading adds to it. A commit concerns one transaction and a save writes each for
itself, so that one shows what can become of any (the theorems are for all). `te_fields` has a
view that leaves out accounts and balances, which none of its calls and properties looks at:
they only record what happened to the splits. Four days with
one day ahead let an instance be created, reminded of, put off and met again; a count of
three ends before they do. Two hundred days from dates around the ends of three kinds of
months meet every weekend and month end that two years have. Amounts 2 and -1 in three
transactions open two lots and use one up in parts, so that a split is cut; two more changes
stale a cache, or take apart what was merged. Three records hold a deletion after an
edit, or a commit, a rollback and a torn record of the same transaction. With six bits a
product of two of the numerators, of two of the denominators, of both or of neither is too
big, common denominators fit or do not, and intermediate results straddle the sign bit. Where a number is
unbounded in the code (`MaxId`, `MaxEvents`, `MaxPending`, `MaxSuspend`, `MaxHeld`,
`MaxLevel`, `MaxVersion`, `MaxVer`, `LastDay`, `LastRef`, `MaxSplits`, `MaxLots`,
`MaxTrans`, `MaxEdits`, `MaxRecords`, and the width `Bits`) the bound is a named constant in a guard. Symmetry is
used for safety only. Deadlock is not an error in `XmlFile`, where all processes may be
dead, `SqlStore`, where the identifiers may be used up, and `MCUpkeep`, whose days and
dates come to an end; elsewhere it is checked.

**Fairness.** `QofEvent` has `WF_vars(Dispatch)`: the dispatcher's loop and the return of a
handler are the program's own next step, since handlers are functions that return. The
calls of clients are not fair. `MaxEvents` bounds how often handlers nest; without it an
event that causes itself need not end, in the model as in the code. The other modules
state safety only and assume no fairness: users need not commit, and processes die.

## 5. Where code and documents disagree

The first is a run with its finding. The others were met with the same models, by setting
the constants named or by checking a property that then turned out to be false; they are the
reason for the hypotheses of the theorems and for what the passing runs keep apart.

* The n-th weekday (`rec_nth_weekday`): `nth_weekday_compare` takes the day part modulo 7
  (`Recurrence.c:150`) and gets 0 where its comment says "capped at 7 days, so
  max(matchday) == 3*7 + 7 == 28": in a month whose first day is the day after that weekday
  the match is a week early. `recurrenceNextInstance` then returns the date asked about, or
  an earlier one, against "strictly later than the 'refDate'" (`Recurrence.h:115-122`), and
  the loop of `_gnc_sx_gen_instances` does not end.
* A copy cut short (`SavedIsOnDisk` alone is violated in `xf_locked`): where hard links are not supported the new data file is a
  copy of the temporary one. `copy_file` (`gnc-backend-xml.c:403-457`) takes a last `write()`
  that is cut short, a `close()` that fails and a `read()` that is interrupted for the end of
  the file and returns TRUE. The save unlinks the temporary, which was complete, "Since we
  successfully saved the book, we should mark it clean" (`:735`), against "when it actually
  does save the data" (`qofbook.h:238`). TLC ends with a book marked saved of which no
  complete file is left: the backup is a copy too. What does hold is `SavedSurvives`, which
  excepts a data file left so (`cut`).
* An occurrence moved forward from a weekend is not found when asked about from within that
  weekend: the code looks back only (`NextIsEarliest` excepts this case).
* Schedules. An instance put off earlier that the user turns into a reminder is removed from
  the deferred states and created nowhere: it is forgotten (`EachOnce` counts it as such),
  against "A reminder can never be before any other instance type". A postponed instance is
  counted at every run in which it stays postponed, so that the counters run ahead
  (`CountersAsOfLastDate` speaks of schedules of which nothing was put off). The state of a
  first occurrence has no last date and compares equal to any other, so that removing it may
  remove another. The deferred list points to states that the dialog frees
  (`gnc-sx-instance-model.c:516`). After an automatic creation the first change of a state
  makes the remaining instances anew and loses the choices among them. The SQL backend does
  not store the deferred list.
* Lots. "makes sure that every split in the account is assigned to a lot" (`Scrub3.h`) is
  not so: a lot that a later scrub finds fat is emptied but for its opening split, after
  the assigning is over (`EverySplitAssigned` alone is violated; it is a conjunct of
  `FirstInFirstOut`, for users who only enter newer splits). A rolled-back edit leaves the
  cached `is_closed` of the abandoned amount until the next scrub, which computes it anew
  (`ScrubbedCache`). `DirectionPolicyGetSplit` supposes the account's list to be sorted,
  which it is not while a scrub has the account open.
* The log. A replay never removes a split and an empty field does not clear a text. The
  record of a deletion that has one line commits the freed transaction afterwards
  (`gnc-log-replay.c:396`). A save while edits are open writes what is not committed (the
  code's own "hack alert", `gnc-file.c:1081`), and begins a new log. Accounts are not logged:
  splits of an account opened since go to Orphan. A second replay leaves empty imbalance
  splits. A transaction recovered from a torn record, none of whose accounts is known, is
  not balanced, for it has no currency; committed as it is and replayed when an account of
  it is known, it gets a balance split that nobody committed (`RecoveredAsItWas` is
  violated without `~Homeless`; the proof's attempt found this). "silently merged in the current log file" (`gnc-log-replay.h`) is not so: logging
  is off during a replay.
* Numbers. The three cases below were confirmed with the compiled C code at 64 bits.
  `rem128` subtracts lower halves whose top bit is masked (`qofmath128.c:225-227`, "I beleive
  that ths algo is overflow-free, but should be audited some more") and is negative when a
  multiple of 2^63 lies between its operands; `reduce128` then takes the divisor for the
  common factor. 1152921504606846977/7 times 8/11, reduced and never rounded, is
  119784052426685400/1, without an error and against "all results are exact"
  (`ExactOrError` excepts these operands as `Straddles`).
  The error of `gnc_numeric_lcd` is used as a denominator, -1: 3/3037000507 times
  5/3037000493 over a common denominator and rounded is 0/-1 (`NoLcd`).
  `gnc_numeric_to_decimal` makes 4611686018427387902/8 into 2305843009213693951/4 and says
  it has three places, because a product by 5/5 that overflows is reduced again; `DecimalsAreExact`
  speaks of decimals that fit. Known to the authors ("BUG: overflow not handled") are sums over one
  denominator, which wrap (`SumFits`).
* Rollback and balances: `xaccSplitSetReconcile` recomputes the account's balance inside
  the edit; a rollback (`Transaction.c:1440`) puts the flag of the split back and neither
  recomputes nor marks the account, though "FALSE if they are correct" is the doc of the
  balance-dirty flag (`Account.h:412`); the cached cleared balance stays that of the
  abandoned edit, against `Transaction.h:201` (`te_balance` with "rollback"). It does not
  take that setter: with two transactions, the amount of one changed in its open edit, any
  commit of the other in the same account recomputes the balance with that amount, and the
  rollback leaves it so. Already while
  the edit is open, when the split is also moved to another account, the flag of the account
  that still lists it is wrong.
* Retention "never": `gnc_xml_be_remove_old_files` (`gnc-backend-xml.c:858`) removes every
  file whose name begins with the data file's, the active lock file included (`:784`, against
  the comment at `:777-780` and `qofsession.h:42-46`), at the first save (`LockHeld` with
  that retention). In the same setting a save whose last link fails goes on to remove the
  backup and the temporary, the only copies left (`SavedSurvives` with "never" and
  `DiskFails`).
* A session opened although the file was locked removes, at its end, the lock of the
  session that holds it (`LockHeld` with `MayIgnore`).
* A rollback inside a nested edit frees the copy and only decreases the level, under the
  comment "Put back to zero" (`Transaction.c:1507`); the outer rollback then follows a NULL
  pointer (`OpenHasCopy` with "rollback" and `MaxLevel` 2).
* A transaction destroyed and made read-only in the same edit is freed without its splits
  (`NoSplitOutlivesTrans` with "destroy" and "read_only"), against `Transaction.h:136`.
* A refusal of one split after its transaction was accepted restores nothing
  (`AccountListsAgree` with `SplitRejects`), against the design comment at
  `Transaction.c:134`. In the database the split's data stays unstored, and the next
  rollback marks the split clean.
* "if things go bad ... your data remains in the state it was in just after the previous
  xaccTransCommitEdit()" (`Transaction.c:82`): under the SQL backend one commit is several
  SQL transactions, so that a crash in between stores a part of it; what does hold is
  `RowsOldOrNew`. And a crash in a save, after `DropTable`, loses the book. After a crash in a
  commit, loading scrubs the part that was stored and stores nothing of it: a balance split it
  adds has no row, yet is no infant, so that its UPDATEs are lost until the book is saved
  (`InfantHasNoRow`, `CommittedIsStored` and `RowsOldOrNew` are violated without `patched`).
* An event that a refresh handler causes waits until some later event, although "when the
  counter reaches zero" all changes are to be passed on (`gnc-component-manager.h:249`):
  `gnc_gui_refresh_internal` clears `got_events` at its end. It is not lost
  (`CollectedExactly`).

## 6. What is proved

The theorems hold for every value of the constants that satisfies the named assumptions of
the modules, which say only that NULL pointers are not objects, switches are Booleans,
bounds are numbers, for `TransEdit` that the set of splits is finite, for `TransLog`
that a transaction is edited into finitely many splits with whole amounts, and for
`Reckoning` that integers have more than two bits and the numbers fit them, with positive
denominators (of an operand; the denominators to convert to may be reciprocals).

**`InductionLemmas`** has what every induction below rests on. The library's induction
theorems take the predicate as a parameter and cannot be used here; that a set of numbers
which is not empty has a least element (`LeastExists`), however, and that a family of
finite sets has a smallest member (`SmallestSet`) follow from theorems about well-founded
orders that can. An induction is then an argument about the least counterexample (`UpTo`).
With them `SumFunctionOnSet`, which is defined by a choice of an order, gets its laws: the
sum does not depend on the order (`SumRemove`), and what it is after an element more
(`SumAdd`), for equal functions (`SumSame`) and renamed elements (`SumRenamed`). `LoopExists`
and `LoopStays` say the same of loops, which the modules write as functions of the rounds
left to do: such a function exists, and what every round keeps the whole loop keeps.

**`TransEditProofs`**, under `~SplitRejects` (the disagreement above shows that it is
needed): `TypeCorrect`, `ListsAgree`, `CopyFreed`, `RollbackPairs`. None of the properties
is inductive: that a rollback may free what follows the copy depends on those splits being
in no account; that a commit may put the list's splits into accounts depends on their
being live and this transaction's. `IInv` adds this: `Owned` (the splits of a list are
live and its own; one that was never committed is dirty), `Front` (the copy covers the
front of the list, the rest was never committed) and `AtRest` (a closed transaction has no
copy and only committed splits). Since one call runs many phases, the proof has a lemma
for each phase on the working record (`ScrubSplitsInv`, `AddBalanceSplitInv`,
`CommitSplitsInv`, `CleanupCommitInv`, `DoDestroyInv`, `RestoredInv`) that keeps `WInv` and
says that splits of other transactions are untouched (`Frame`); `CommitEditInv` and
`EditInv` put them together, `TransCallInv`, `SplitCallInv` and `AccountCallInv` have one
step for each call.

The second half goes on from there to what the edits contain. Each theorem names
the callers and backends for which it holds: `~SplitRejects` again; `Destroyable`, nobody
makes a transaction read-only where transactions are destroyed; `Flat`, no rollbacks inside
nested edits. The disagreements above are what happens otherwise. With them every property
of the `te_*` runs is a theorem, and the runs' constants satisfy the hypotheses.

* `Consistent`: a closed transaction balances and each of its splits is in an account.
  `SplitsGoWithTrans`: no split outlives its transaction. `RollbackIsExact`: a rollback that
  closes the edit leaves what was committed. All three rest on `JInv`. Its part `Whole` is
  about memory: the list has each live split of the transaction once, and a split that is
  not dirty is as it was committed and as the copy has it; that is why a rollback, which
  visits the dirty splits only, restores all. Its part `Peace` is about value: what is
  committed is `Sound` (adds up to zero, entry by entry in an account), and at level 0 it is
  all there is. Of a commit, the scrubbing is the part with sums: it is enough that the
  balance split takes what the others lack (`AddBalanceRevises`) and that the changes to the
  splits of a list leave its other content (`RevisedWhole`).
* `OpenEditsCanRollBack`: an open edit has its copy (`OInv`).
* `EditsAreAtomic`: `TransEdit` implements `Ledger`; every call is a step that replaces one
  transaction's committed content by balanced content, or a stutter (`KeptStep`).
* `BalancesFollow`: the cached balances are those of the splits listed, when nothing is
  open, without rollbacks and refusals. `KInv` says who will still recompute a balance that
  is stale: the account's own commit, or the commit of an edit that has a dirty split in
  the account. A commit computes the accounts of *its* dirty splits; that no other account
  is stale because of it is `CommittedBalances`.

**`XmlFileProofs`**: `FileTypes` without hypotheses; `LockIsHeld` and `NothingOverwritten`
for processes that are `Obeying` (nobody ignores a lock, retention is not "never"; the
disagreements above show that both are needed), for any number of processes. The invariant says that
whoever is between the creation of its lock file and the end of its session owns the lock
(`Owner`), and what the owner knows of the data file and its temporary at each step of a
save (`StoredAt`). `NoTornData` needs hard links only, not obedience: a name only ever
comes to denote a finished file (`Finished`).

`SavedStays`, under the same hypotheses: wherever a save, a failing disk or a crash stops, the
version saved last, or a later one, is on disk in full, unless its save left a copy that was
cut short unnoticed (`cut`). The argument needs no backups: before
the data file is unlinked the temporary file holds the new version in full, what a failed
save or a dead process has left behind nobody overwrites, and versions rise with the edits
(`Durable`, which consists of `Numbered`, `OnDisk` and `WritesMem`).

**`QofProofs`**, about events, for any number of handlers, events and depth of nesting, over the order
of ids.
`DispatcherTypes`, `NoWalkDangles`, `ClearedNodesFreed`, `EveryoneCalled`,
`OnlyThoseDueCalled`. Cleared nodes stay in the list while any walk is under way, so that
the node a walk goes to next is always there. That all are called follows from what a walk
still owes (`Owes`): exactly those live handlers whose node is at or behind the one it goes
to next.

**`GuiRefreshProofs`**, for any components, watches, entities and kinds of events:
`ManagerTypes`, `EveryoneNotified`, `CollectsAll`, `NoFreedComponent`, `TableStays`. The
argument is that at most one pass or close loop is running, above the caller's code
(`Caller`, `Above`): during a pass the counter is positive, so that no event and no resume
starts another; during a close loop events are off, and if its handler resumes to zero there
is nothing to report, because whatever was collected before keeps its caller's suspension
(`Closing`). What a pass owes is on its list and watches what it reports (`Passing`).

**`SqlStoreProofs`**, for any transactions and splits. `StoreTypes` without hypotheses,
together with `Shape`: how flags and the place in a commit hang together.

* `RightStatement`: an object is an infant exactly if it has no row (`Flags`; a split that loading
  added may be without a row and no infant), whatever is
  refused and wherever the program crashes, if it does not save; and with saves if nothing is
  refused. With both it is false: an error in the middle of a save leaves objects without a
  row that are no infants.
* `NoOrphans`, without saves, which drop the tables one after the other.
* `NothingLeft` without crashes, from `NoneLeft`. (A crash in the middle of a save may leave the
  row of a transaction that is not loaded again.)
* `Stored`, with a server that refuses nothing: whatever crashes and is saved, the rows are the
  committed states, but for splits in `patched`. `LoadIsFresh`
  says what loading leaves in memory (`Fresh`): no flags, no copies, what the rows say and what
  was mended. Its invariant `Matches` says what each row is at every point of an edit and
  of its commit. While a save has the tables dropped there are no rows to speak of; the
  invariant then speaks of those that it is going to write (`Rows`, `Whole`). That these are the
  rows there were (`WholeIsStored`) is what makes a save harmless: a transaction that is open
  then is new, and every other has a split that is stored (`SplitKept`), by which the save finds
  it. What a crash leaves of dropped tables belongs to transactions that are not loaded again.
* `OldOrNew`, under the same hypothesis: within a commit each row is that of the state before or
  of the one being stored (`StoringMatch`), but for splits in `patched`.

**`UpkeepProofs`**, about the log, for any transactions, accounts, contents and numbers of
records, crashes and replays: `CommittedSurvives`, `NothingIsMadeUp`, and
`ReplayIsIdempotent`: a log may be replayed on what its own replay gave, which changes
nothing but the balance splits.
A replay is a recursion over the records. `ReplayRun` unfolds it, `ReplayAppend` says what
one record more does, and `ReplayedBooks` that a replay treats each transaction by itself,
so that the rest is about the run of one transaction's entry. What a replay on a book already
replayed does then follows from where each field of each split was told last
(`CommitsAgain`, and `DeletionAgain` for a transaction that a record deletes).
The invariant `LogInv` speaks of `Redone`, what a replay would give at this moment, since
nothing in the state itself says that the log is good before it is needed. For each
transaction it has four parts: a deletion is final (`Settled`; otherwise a later record would
bring the transaction back); the log keeps up with what is committed (`Logged`), which holds
while the program runs and becomes, at a crash, what the log still holds of it (`Survives`,
also of a torn record, whose lines are the front of a commit); and the book that replays have
made is the one that a first replay makes, up to the balance split, and is scrubbed
(`Restored`; without "scrubbed", replaying it would add balance splits again).

**`UpkeepProofs`**, about lots, for any number of splits and lots and any dates and amounts:
`LotsAgreeAlways`, `NothingIsLost` and `ScrubMendsCaches`, of the properties `LotsAgree`,
`NothingLost` and `ScrubbedCache`.
The actions are single calls with loops three deep, so the argument is about pairs of
accounts, not about steps. `Scrubs(a, b, made)` says of what a call makes of an account that
the lists agree again (`AccInv`), that each transaction has the same sum (`SameSums`), that
every cached answer that was right still is (`CacheKept`), and that no lots but those in
`made` join the account (`LotsKept`); `Looks` says that a call changes nothing but caches and
orders. Both are transitive, and `LoopExists` and `LoopStays` carry them through a loop: what
every round keeps holds after any number of rounds. One lemma per operation then goes from
`RemoveFacts` and `AddFacts` over the cut (`CutScrubs`), the merge and the fill to
`ScrubLots`. Sums over finite sets of splits are those of `InductionLemmas`.
The invariant `IInvLots` is `AccInv` of the account, the sums (`Adds`) and `ScrubbedCache`.
`AccInv` adds to `LotsAgree` the types and that no split is its own peer (`NoOwnPeer`): a
merge of a split with itself would destroy it, and with it what the user entered. Cached
answers need no invariant outside of `ScrubbedCache`: an abandoned edit may leave any of them
wrong, and a scrub asks for the balance again (`Known`) before it trusts one.

`FirstInFirstOutAlways` is about the order in which lots are used up, of the property
`FirstInFirstOut`. It supposes what that property does: an account in which users have only
entered splits and, once there were lots, none earlier than one already there (`tidy`). Those who
enter an older split, or move, delete and merge by hand, may well find lots used out of turn. Its
invariant `TidyInv` says of such an account that it is `Orderly(a, {})`, that its list is by
date (`InTurn`) and that a scrub leaves nothing in no lot. `Orderly(a, R)`, where `R` are parts of
splits on their way into lots, is what every step within a scrub keeps:

* `LotsInOrder`: a lot is sorted, was opened by its earliest split and is not overdrawn by the
  others; lots that are still in use are all of one sign; and no lot was touched while one of its
  sign that was opened earlier was not used up (`InOrder`);
* `LooseLast`: what is in no lot is no earlier than what is in one, and of that `R` is the
  earliest, so that what is put into a lot is later than all it meets there;
* `PartsApart`: no lot has two parts of one transaction, and a part on its way was cut off
  another that used its lot up; so the scrub of the lots, which follows, has nothing to merge;
* what else is in no lot is listed in its order of dates, which is how `AssignLots` goes through
  it.

The lemmas go the way of the code. To ask for a balance or to sort a lot only `Glances` at the
account. The policy finds the lot in use that was opened first (`PolicyLotFirst`), and a split,
put there whole (`PutInOrder`, `PutOrderly`) or cut to what is left of the lot (`CutOrderly`),
leaves the account orderly. A round of cutting leaves nothing over or uses up one lot more
(`Advances`), so that the inner loop, which the model runs one round more than there are lots, is
really over by then (`Working`, `FewerOpen`). Either may also end because the instance has no
identifier left for a part (`full`); no action does that. Over all rounds, `AssignLotsOrderly`
gives an orderly account with nothing in no lot, in which the scrub of each lot changes nothing
but caches and orders (`MergesNothing`, `FillsNothing`, `ScrubLotGlances`). That a lot was overdrawn at *no* point follows at the end:
what is left of it falls with each split but the first, and ends at no less than zero
(`PrefixTotals`).

**`SchedProofs`**, about scheduled transactions, for any days, schedules, ends, totals and
days ahead: `RemindersLastAlways`, `NeverTooManyAlways`, `EachOnceAlways` and
`CountersAlways`, each of the property it is named after. They assume of the recurrences in `Schedules` that they are
`Regular`: the next date is later than the date asked about, and it is the same from every
date before it. `PlainSchedulesAreRegular` proves this of schedules made of recurrences by the
day, by the week or once, in any number, and `MCUpkeep` has TLC evaluate it for its own.
`MadeSchedulesAreRegular` proves it of whatever `recurrenceSet` makes, by the month, the end of
the month, the last weekday and the year included, with two exceptions in which it is false:
recurrences moved *forward* off a weekend (asked about a day between the date and the one it
was moved to, the code skips to the next month) and the "nth weekday" of the disagreement
above.

`NextIsEarliestAlways` is about the recurrences themselves: whatever their type (but "nth
weekday"), multiplier, first date and adjustment, in any calendar whose months have 28 to 31
days and from any day of it, `recurrenceNextInstance` finds the earliest occurrence after the
date asked about. What makes this hard is that the code never enumerates occurrences. It moves
the *date asked about* by months, to end up in the right one, and corrects the day afterwards.
The argument goes by months instead. `Base` is the day of a month on which a rule would occur
if it did so every month and there were no weekends, `Due` that day as adjusted; both grow from
month to month (`BaseFacts`, `DueLater`), although months are of different lengths and a 31st
becomes a 28th. Whether a month's occurrence is still to come is one threshold, `Passed`, that
the code tests in a different way for each type (`PassedTest`); where weekends are moved back
from, the code goes back to the Friday when asked about a date in a weekend, and on a Friday tests
whether this month's day is at most the Sunday that follows, which comes to the same as comparing
with `Due` (`FromFriday`, `DueWhen`). So step 1 lands in the month of the threshold plus a period
(`ForwardMonth`), step 2 subtracts a remainder, which gives the first multiple of the period
after that month (`NextStep`, `AlignIs`), and that month's `Due` is the minimum by which
`EarliestAfter` is defined (`EarliestIs`, `MonthlyNext`). By the day or week the same
remainder is taken of days (`DailyNext`). The proof also found a mistake in the reference
definition: the arms of the CASE in `Occurrence` were not exclusive for the first occurrence,
where TLC takes the one written first and TLA+ any of them; it is an IF now.

The invariant `SchedInv` has to say what the dialog may be showing, since OK carries that out
whatever has happened to the schedule meanwhile. It is `Shown` (what is put off comes first,
in the order of the deferred list; reminders come last), and it is either `Current`, date by
date what the schedule generates at this moment, or `Behind`: an automatic schedule was
carried out before the dialog opened, which lists the instances just created although their
dates are past; there nothing is left to be created twice because what the schedule would
generate by now are reminders (`OnlyRemindersLeft`). That `Current` survives the answers of
the user and the updates that follow is `UpdateShown`; the alignment by dates throws away
exactly what is behind. Either way, a pass over what is shown is a run of successive
occurrences (`CurrentRun`, `BehindRun`), so that its first `k` instances take the last date
through the occurrences in order, each to the place its state names, and what was deferred
from one place to another (`PassInv`, `PassStep`, and `BalanceStep` for the counts).
`EachOnce` is then a sum over four places that each step keeps (`Balanced`).

`CountersAlways` has a second invariant, `NumberInv`, on top of the first. The number of an
instance is fixed when it is listed and used when OK is pressed, maybe days later and after
other instances were ignored or disabled, so the invariant says of what is listed, of the
schedule and of what was created the same thing: its number is one more than the occurrences
before its date (`Reckoned`, `AllNumbered`, `CreatedNumbered`). Without put-off states this
is stable, because a number then depends on nothing but the date.

**`QofProofs`**, about numbers, for integers of any width and all numbers that fit them:
`ExactOrErrorAlways`, `ProductFoundAlways`, `DecimalsAreExactAlways` and `RoundedOnceAlways`,
each of the property it is named after, with the exceptions that the property makes (sums over
one denominator, `Straddles`, `NoLcd`, twice a remainder out of range); outside of them, an
intermediate result that overflows is an error or does no harm. The properties say what was
meant, for unbounded integers; the operators of `Numeric` wrap, and mask halves. There is no
invariant here but arguments about one operation.

* What is found. `Found(r, n, e)` says of an intermediate result that it is an error or a
  fraction with the value of `n` over `e`. Sums (`SumFound`), products (`ProductIsFound`) and
  quotients (`QuotientIsFound`) are found. The remainder that `rem128` computes is either the
  true one or too low by `Half` (`RemainderIs`). A fraction that is reduced because its numerator
  is too long needs the true one (`OverlongReduced`), and `Straddles` is when it is not.
* What is kept. A conversion that may not round keeps what a number is worth (`Worth`,
  `ConvertedExactly`), for every way to choose the denominator (`TargetIs`).
* Rounding. Any rule's result depends on a quotient, on whether the remainder is zero and on how
  twice the remainder compares with the divisor (`RoundedToIs`, which is also where the sign
  goes). A remainder too low by `Half` compares as the true one does, because twice of it wraps
  (`RemainderTold`). The code divides after it has reduced the fraction of the two denominators, and none of
  the three changes if remainder and divisor are multiplied by the same factor
  (`ScaledRounding`, `MadeOver`). `FoundIsRounded` then puts the intermediate result in place of
  the exact one, so that rounding happens once.
* Lowest terms. That no product is missed takes the greatest common factor to be a sum of
  multiples (`Bezout`, by the least such sum): numbers whose multiples add up to one are
  `Coprime`, products of such numbers are (`CoprimeProduct`), and so the crosswise reduced
  product has nothing left to reduce (`CrossReducedIs`, `ProductFits`).
* Decimals. `Underway` is the invariant of the loop of `gnc_numeric_to_decimal`: the number has
  its value, and the denominator it is to have by now, what is left times a power of ten, unless
  that one has become too big, and then it stays too big (`PlaceMade`, `PlaceKept`). What is left
  halves with every round, so that the rounds of the model are enough (`MadeDecimalIs`).

Only model-checked is liveness (`EventsEnd`), which is out of the provers' reach.

## 7. Running

    tlc -config te_edit.cfg MCTransEdit.tla      # te_*: MCTransEdit
    tlc -config qe_events.cfg QofEvent.tla
    tlc -config gr_refresh.cfg MCGuiRefresh.tla
    tlc -config xf_locked.cfg MCXmlFile.tla      # xf_*: MCXmlFile
    tlc -config sq_steady.cfg MCSqlStore.tla     # sq_*: MCSqlStore
    tlc -config upkeep.cfg MCUpkeep.tla          # and rec_nth_weekday.cfg
    tlapm TransEditProofs.tla                    # and XmlFileProofs, SqlStoreProofs,
                                                 # QofProofs, GuiRefreshProofs,
                                                 # UpkeepProofs, SchedProofs,
                                                 # InductionLemmas

The longest run (`upkeep`) takes three to four minutes with two workers; `TransEditProofs` and
`SchedProofs` take several minutes each to prove from nothing, `UpkeepProofs` about a quarter of
an hour. TLC's
coverage statistics expand every use of an operator: in `Lots`, `SchedXaction` and `Recurrence` what is used several times is
therefore the parameter of an operator rather than a name in a LET.
