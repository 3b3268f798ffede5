------------------------------ MODULE TransEdit ------------------------------
(***************************************************************************)
(* The begin / commit / rollback protocol of a GnuCash transaction: what   *)
(* engine/Transaction.c, engine/Split.c, engine/Scrub.c, engine/Account.c  *)
(* and libqof/qof/qofinstance.c do together while splits are edited.       *)
(*                                                                         *)
(* An edit of transaction t may be open (editlevel > 0) over many calls,   *)
(* and several transactions that share accounts may be open at once.  All  *)
(* calls run in one thread, so each action is one whole call of the API.   *)
(* A setter called on a closed transaction is its own begin and commit.    *)
(*                                                                         *)
(* All amounts are in one commodity, so the account's denominator and the  *)
(* transaction's agree and rounding is the identity.  Splits are not moved *)
(* between transactions, and lots, gains and account deletion are left out.*)
(***************************************************************************)
EXTENDS Integers, Sequences, FiniteSets, Functions

CONSTANTS
  Trans, Split, Account,       \* the objects that may be allocated
  Imbalance, Orphan,           \* the accounts scrubbing puts splits into
  NoTrans, NoAcc, NoCopy,      \* NULL pointers
  Values,                      \* amounts and values a caller may set
  Descrs,                      \* stands for num, description, dates and kvp
  Flags,                       \* reconcile flags a caller may set
  MaxLevel,                    \* how deep a caller nests BeginEdit
  HasBackend,                  \* the book has a backend with a commit
  BackendRejects,              \* that backend may refuse a transaction
  SplitRejects,                \* that backend may refuse one split
  RemoteDeletes,               \* a rollback may answer ERR_BACKEND_MOD_DESTROY
  Calls                        \* the groups of API calls the caller uses

ASSUME NullsAreNotObjects ==
  /\ NoTrans \notin Trans
  /\ NoAcc \notin Account
  /\ {Imbalance, Orphan} \subseteq Account
ASSUME SplitsAreFinite == IsFiniteSet(Split)
ASSUME AmountsAreIntegers == Values \subseteq Int
ASSUME FlagsAreKnown == Flags \subseteq {"n", "c", "y", "f", "v"}
ASSUME LevelsArePositive == MaxLevel \in Nat \ {0}
ASSUME DescrsHaveADefault == 0 \in Descrs
ASSUME BackendFlags ==
  /\ {HasBackend, BackendRejects, SplitRejects, RemoteDeletes} \subseteq BOOLEAN
  /\ (BackendRejects \/ SplitRejects) => HasBackend

VARIABLES
  trans,     \* the fields of each transaction
  orig,      \* trans->orig, the copy BeginEdit makes for a rollback
  split,     \* the fields of each split
  acct,      \* each account's split list and flags
  cached     \* each account's balances, as last computed

vars == <<trans, orig, split, acct, cached>>

RecFlags == {"n", "c", "y", "f", "v"}

Data == [of : Split, amount : Int, value : Int, reconciled : RecFlags]

CopyRecord == [descr : Descrs, read_only : BOOLEAN, splits : Seq(Data)]

ASSUME NullIsNoCopy == NoCopy \notin CopyRecord

SplitRecord ==
  [live : BOOLEAN, parent : Trans \cup {NoTrans}, orig_parent : Trans \cup {NoTrans},
   acc : Account \cup {NoAcc}, orig_acc : Account \cup {NoAcc},
   amount : Int, value : Int, reconciled : RecFlags,
   dirty : BOOLEAN, destroying : BOOLEAN]

TransRecord ==
  [live : BOOLEAN, editlevel : Nat, dirty : BOOLEAN, destroying : BOOLEAN,
   descr : Descrs, read_only : BOOLEAN, splits : Seq(Split)]

AccountRecord ==
  [splits : SUBSET Split, sort_dirty : BOOLEAN, balance_dirty : BOOLEAN,
   editlevel : Nat]

\* What xaccFreeSplit and xaccFreeTransaction leave behind.
FreedSplit ==
  [live |-> FALSE, parent |-> NoTrans, orig_parent |-> NoTrans,
   acc |-> NoAcc, orig_acc |-> NoAcc, amount |-> 0, value |-> 0,
   reconciled |-> "n", dirty |-> FALSE, destroying |-> FALSE]

FreedTrans ==
  [live |-> FALSE, editlevel |-> 0, dirty |-> FALSE, destroying |-> FALSE,
   descr |-> 0, read_only |-> FALSE, splits |-> <<>>]

Elems(list) == {list[i] : i \in DOMAIN list}

Init ==
  /\ trans = [t \in Trans |-> FreedTrans]
  /\ orig = [t \in Trans |-> NoCopy]
  /\ split = [s \in Split |-> FreedSplit]
  /\ acct = [a \in Account |->
               [splits |-> {}, sort_dirty |-> FALSE, balance_dirty |-> FALSE,
                editlevel |-> 0]]
  /\ cached = [a \in Account |-> [balance |-> 0, cleared |-> 0, reconciled |-> 0]]

-----------------------------------------------------------------------------
(* The working state of a call on transaction t: t's own record, every     *)
(* split, every account and every cached balance.  A call transforms it    *)
(* and then stores it.                                                     *)

Work(tr, sp, ac, ca) == [tr |-> tr, sp |-> sp, ac |-> ac, ca |-> ca]

Current(t) == Work(trans[t], split, acct, cached)

Store(t, w, copy) ==
  /\ trans' = [trans EXCEPT ![t] = w.tr]
  /\ orig' = [orig EXCEPT ![t] = copy]
  /\ split' = w.sp
  /\ acct' = w.ac
  /\ cached' = w.ca

\* FOR_EACH_SPLIT visits the splits xaccTransStillHasSplit accepts.
\* Mutant: the destroyed ones too.
StillHasDestroyed(t, w) == {s \in Elems(w.tr.splits) : w.sp[s].parent = t}
StillHas(t, w) ==
  {s \in Elems(w.tr.splits) : w.sp[s].parent = t /\ ~w.sp[s].destroying}

Total(sp, S) == SumFunctionOnSet([s \in Split |-> sp[s].amount], S)

\* mark_split on splits whose accounts are A.
Mark(ac, A) ==
  [a \in Account |->
     IF a \in A THEN [ac[a] EXCEPT !.sort_dirty = TRUE, !.balance_dirty = TRUE]
                ELSE ac[a]]

RunningBalances(sp, S) ==
  [balance |-> Total(sp, S),
   cleared |-> Total(sp, {s \in S : sp[s].reconciled # "n"}),
   reconciled |-> Total(sp, {s \in S : sp[s].reconciled \in {"y", "f"}})]

\* xaccAccountRecomputeBalance on the accounts A.
Recompute(w, A) ==
  LET due == {a \in A \cap Account : w.ac[a].editlevel = 0 /\ w.ac[a].balance_dirty}
  IN  Work(w.tr, w.sp,
           [a \in Account |-> IF a \in due THEN [w.ac[a] EXCEPT !.balance_dirty = FALSE]
                                           ELSE w.ac[a]],
           [a \in Account |-> IF a \in due THEN RunningBalances(w.sp, w.ac[a].splits)
                                           ELSE w.ca[a]])

\* xaccAccountSortSplits without force; only its flags matter here.
SortSplits(rec) ==
  IF ~rec.sort_dirty \/ rec.editlevel > 0 THEN rec
  ELSE [rec EXCEPT !.sort_dirty = FALSE, !.balance_dirty = TRUE]

\* The elements of S as a list in which x precedes y when Before(x, y).
Ordered(S, Before(_, _)) ==
  {q \in [1..Cardinality(S) -> S] :
     \A i, j \in 1..Cardinality(S) : i < j => Before(q[i], q[j])}

Position(list, s) == CHOOSE i \in DOMAIN list : list[i] = s

\* What is left of a list once the splits outside S are removed.
\* Mutant: they stay.
Unfiltered(list, S) == {list}
Filtered(list, S) ==
  Ordered(S, LAMBDA x, y : Position(list, x) < Position(list, y))

\* xaccTransSortSplits: debits first, then credits, each in the old order.
DebitsFirst(list, S, sp) ==
  LET rank(s) == IF sp[s].value < 0 THEN 1 ELSE 0
  IN  Ordered(S, LAMBDA x, y :
                   \/ rank(x) < rank(y)
                   \/ rank(x) = rank(y) /\ Position(list, x) < Position(list, y))

-----------------------------------------------------------------------------
(* Scrubbing, as xaccTransCommitEdit runs it.                              *)

\* xaccTransScrubSplits: orphans go to the Orphan account, and an amount
\* that differs from its value is set to it.
ScrubSplits(t, w) ==
  LET has == StillHas(t, w)
      orphans == IF \E s \in has : w.sp[s].acc = NoAcc
                 THEN {s \in Elems(w.tr.splits) : w.sp[s].acc = NoAcc} ELSE {}
      uneven == {s \in has : w.sp[s].amount # w.sp[s].value}
      sp == [s \in Split |->
               IF s \in orphans \cup uneven
               THEN [w.sp[s] EXCEPT
                       !.acc = IF s \in orphans THEN Orphan ELSE @,
                       !.amount = IF s \in uneven THEN w.sp[s].value ELSE @,
                       !.dirty = TRUE]
               ELSE w.sp[s]]
  IN  Work(w.tr, sp, Mark(w.ac, {sp[s].acc : s \in uneven}), w.ca)

ImbalanceValue(t, w) ==
  SumFunctionOnSet([s \in Split |-> w.sp[s].value], StillHas(t, w))

\* get_balance_split: t's split in the Imbalance account, else a new one.
BalanceSplits(t, w) ==
  LET here == {s \in StillHas(t, w) : w.sp[s].acc = Imbalance}
      first == {s \in here : \A r \in here :
                  Position(w.tr.splits, s) <= Position(w.tr.splits, r)}
  IN  IF here # {} THEN first ELSE {s \in Split : ~w.sp[s].live}

NewSplit(t) == [FreedSplit EXCEPT !.live = TRUE, !.parent = t, !.dirty = TRUE]

\* add_balance_split, with b the balance split; xaccSplitSetValue keeps the
\* old value when the new one is not a number.
AddBalanceSplit(t, w, b) ==
  LET new == ~w.sp[b].live
      was == IF new THEN NewSplit(t) ELSE w.sp[b]
      diff == was.value - ImbalanceValue(t, w)
      val == IF diff \in Int THEN diff ELSE was.value
  IN  Work(IF new THEN [w.tr EXCEPT !.splits = Append(@, b)] ELSE w.tr,
           [w.sp EXCEPT ![b] = [was EXCEPT !.acc = Imbalance, !.value = val,
                                           !.amount = val, !.dirty = TRUE]],
           Mark(w.ac, {Imbalance}), w.ca)

\* xaccTransScrubImbalance: every state it may leave.
ScrubImbalance(t, w) ==
  LET even == ScrubSplits(t, w)
  IN  IF ImbalanceValue(t, even) = 0 THEN {even}
      ELSE {AddBalanceSplit(t, even, b) : b \in BalanceSplits(t, even)}

-----------------------------------------------------------------------------
(* Committing.                                                             *)

\* Which splits of S leave account a's list.  Mutant: only those that moved.
LeaveMoved(w, S, a) == {s \in S : w.sp[s].orig_acc = a /\ w.sp[s].acc # a}
Leave(w, S, a) ==
  {s \in S : w.sp[s].orig_acc = a /\ (w.sp[s].acc # a \/ w.sp[s].destroying)}

\* Which enter it.
Enter(w, S, a) ==
  {s \in S : w.sp[s].acc = a /\ w.sp[s].orig_acc # a /\ ~w.sp[s].destroying}

\* xaccSplitCommitEdit on each split of S, all of them dirty; the backend
\* refuses those in F, which then are neither freed nor clean.
CommitSplits(w, S, F) ==
  LET used(a) == \E s \in S : w.sp[s].acc = a
      touched(a) == used(a) \/ Leave(w, S, a) \cap w.ac[a].splits # {}
      committed(s) == [w.sp[s] EXCEPT !.orig_acc = w.sp[s].acc,
                                      !.orig_parent = w.sp[s].parent,
                                      !.destroying = FALSE,
                                      !.dirty = s \in F \/ ~HasBackend]
      listed == [a \in Account |->
                   [w.ac[a] EXCEPT !.splits = (@ \ Leave(w, S, a)) \cup Enter(w, S, a),
                                   !.sort_dirty = @ \/ used(a),
                                   !.balance_dirty = @ \/ touched(a)]]
      counted == Recompute(Work(w.tr, w.sp, listed, w.ca),
                           {a \in Account : touched(a)})
  IN  Work(w.tr,
           [s \in Split |-> CASE s \notin S -> w.sp[s]
                             [] s \in S \ F /\ w.sp[s].destroying -> FreedSplit
                             [] OTHER -> committed(s)],
           counted.ac, counted.ca)

\* The splits the backend may refuse when those in S are committed.
Refusals(S) == IF SplitRejects THEN SUBSET S ELSE {{}}

CommitAll(w, S) == {CommitSplits(w, S, F) : F \in Refusals(S)}

\* Mutant: only the transaction itself is freed.
DestroyBare(t, w) == {Work(FreedTrans, w.sp, w.ac, w.ca)}

\* do_destroy: t's own splits go, unless xaccSplitDestroy refuses because the
\* transaction is read-only; then t itself is freed.
DoDestroy(t, w) ==
  LET own == {s \in Elems(w.tr.splits) : w.sp[s].parent = t}
      kept == {s \in own : w.sp[s].acc # NoAcc /\ w.tr.read_only}
      sp == [s \in Split |->
               IF s \in own \ kept
               THEN [w.sp[s] EXCEPT !.dirty = TRUE, !.destroying = TRUE]
               ELSE w.sp[s]]
      S == {s \in own : sp[s].dirty}
  IN  CommitAll(Work(FreedTrans, sp, w.ac, w.ca), S)

\* trans_cleanup_commit: destroyed splits leave the list, every dirty split
\* is committed, the list is sorted and the edit is closed.
CleanupCommit(t, w) ==
  LET list == w.tr.splits
      dirty == {s \in Elems(list) : w.sp[s].dirty}
      drop == {s \in dirty : w.sp[s].parent # t \/ w.sp[s].destroying}
      S == {s \in dirty : w.sp[s].parent = t}
      closed(q) == [w.tr EXCEPT !.splits = q, !.editlevel = @ - 1]
  IN  UNION {CommitAll(Work(closed(q), w.sp, w.ac, w.ca), S) :
               q \in DebitsFirst(list, Elems(list) \ drop, w.sp)}

\* The copy xaccTransBeginEdit keeps.  "of" records which split an entry was
\* copied from; the code does not keep it and pairs the lists by position.
Dupe(t) ==
  [descr |-> trans[t].descr, read_only |-> trans[t].read_only,
   splits |-> [i \in DOMAIN trans[t].splits |->
                 LET s == trans[t].splits[i]
                 IN  [of |-> s, amount |-> split[s].amount,
                      value |-> split[s].value, reconciled |-> split[s].reconciled]]]

\* A dirty split gets the fields of its copy back.  Mutant: it stays in the
\* account it was moved to.
RestoredButAccount(rec, so) ==
  [rec EXCEPT !.parent = rec.orig_parent, !.amount = so.amount, !.value = so.value,
              !.reconciled = so.reconciled, !.destroying = FALSE, !.dirty = FALSE]
RestoredSplit(rec, so) ==
  [rec EXCEPT !.acc = rec.orig_acc, !.parent = rec.orig_parent,
              !.amount = so.amount, !.value = so.value, !.reconciled = so.reconciled,
              !.destroying = FALSE, !.dirty = FALSE]

\* The in-memory part of xaccTransRollbackEdit: dirty splits at the positions
\* of the copy get its fields back, dirty splits after them are freed.
Restored(t, w, copy) ==
  LET list == w.tr.splits
      dirty == {s \in Elems(list) : w.sp[s].dirty}
      added == {s \in dirty : Position(list, s) > Len(copy.splits)}
      restored(s) == RestoredSplit(w.sp[s], copy.splits[Position(list, s)])
      reverted(q) == [w.tr EXCEPT !.descr = copy.descr, !.read_only = copy.read_only,
                                  !.splits = q, !.destroying = FALSE,
                                  !.editlevel = @ - 1]
  IN  {Work(reverted(q),
            [s \in Split |-> CASE s \in added -> FreedSplit
                              [] s \in dirty \ added -> restored(s)
                              [] OTHER -> w.sp[s]],
            w.ac, w.ca) :
         q \in Filtered(list, Elems(list) \ added)}

\* Without a copy the code would follow a NULL pointer.
RollbackEdit(t, w, copy) ==
  /\ copy # NoCopy
  /\ \E r \in Restored(t, w, copy) :
       \/ Store(t, r, NoCopy)
       \/ /\ RemoteDeletes
          /\ \E d \in DoDestroy(t, r) : Store(t, d, NoCopy)

WithTrans(w, tr) == Work(tr, w.sp, w.ac, w.ca)

\* The outermost xaccTransCommitEdit with qof_commit_edit_part2.
CommitEdit(t, w, copy) ==
  LET empty == StillHas(t, w) = {}
      begun == WithTrans(w, [w.tr EXCEPT !.destroying = @ \/ empty])
      scrubbed == IF begun.tr.destroying THEN {begun} ELSE ScrubImbalance(t, begun)
  IN  \E v \in scrubbed :
        \/ LET clean == WithTrans(v, [v.tr EXCEPT !.dirty = @ /\ ~HasBackend])
           IN  \E d \in IF v.tr.destroying THEN DoDestroy(t, clean)
                                           ELSE CleanupCommit(t, clean) :
                 Store(t, d, NoCopy)
        \/ /\ BackendRejects
           /\ v.tr.dirty \/ v.tr.destroying
           /\ RollbackEdit(t, WithTrans(v, [v.tr EXCEPT !.destroying = FALSE]), copy)

Begun(w) ==
  WithTrans(w, [w.tr EXCEPT !.editlevel = 1, !.dirty = @ \/ ~HasBackend])

\* A setter's own BeginEdit and CommitEdit around the change that gives w.
Edit(t, w) ==
  IF trans[t].editlevel > 0 THEN Store(t, w, orig[t])
                            ELSE CommitEdit(t, Begun(w), Dupe(t))

-----------------------------------------------------------------------------
(* The calls of the API.                                                   *)

May(call) == call \in Calls

\* check_open.  Mutant: a closed transaction will do.
IsAllocated(t) == trans[t].live
IsOpen(t) == trans[t].live /\ trans[t].editlevel > 0

\* A split a caller may edit: its transaction still has it.
Held(s) ==
  /\ split[s].live
  /\ split[s].parent \in Trans
  /\ s \in StillHas(split[s].parent, Current(split[s].parent))

\* The date of entry is still unset, which dirties t at its first commit.
MallocTransaction(t) ==
  /\ ~trans[t].live
  /\ trans' = [trans EXCEPT ![t] = [FreedTrans EXCEPT !.live = TRUE, !.dirty = TRUE]]
  /\ UNCHANGED <<orig, split, acct, cached>>

SetLevel(t, n) ==
  Store(t, WithTrans(Current(t), [trans[t] EXCEPT !.editlevel = n]), orig[t])

TransBeginEdit(t) ==
  /\ trans[t].live
  /\ trans[t].editlevel < MaxLevel
  /\ IF trans[t].editlevel = 0 THEN Store(t, Begun(Current(t)), Dupe(t))
                               ELSE SetLevel(t, trans[t].editlevel + 1)

\* Mutant: an inner commit commits.
CommitInner(t) == IsOpen(t) /\ CommitEdit(t, Current(t), orig[t])

TransCommitEdit(t) ==
  /\ IsOpen(t)
  /\ IF trans[t].editlevel > 1 THEN SetLevel(t, trans[t].editlevel - 1)
                               ELSE CommitEdit(t, Current(t), orig[t])

TransRollbackEdit(t) ==
  /\ May("rollback")
  /\ IsOpen(t)
  /\ RollbackEdit(t, Current(t), orig[t])

EditTrans(t, tr, ac) == Edit(t, Work(tr, split, ac, cached))

TransDestroy(t) ==
  /\ May("destroy")
  /\ trans[t].live
  /\ ~trans[t].read_only
  /\ EditTrans(t, [trans[t] EXCEPT !.destroying = TRUE], acct)

\* xaccTransSetDescription, which stands for every setter of t's own fields.
TransSetDescription(t, d) ==
  /\ May("descr")
  /\ trans[t].live
  /\ EditTrans(t, [trans[t] EXCEPT !.descr = d, !.dirty = TRUE],
               Mark(acct, {split[s].acc : s \in StillHas(t, Current(t))}))

\* xaccTransSetReadOnly and xaccTransClearReadOnly.
TransSetReadOnly(t, b) ==
  /\ May("read_only")
  /\ trans[t].live
  /\ EditTrans(t, [trans[t] EXCEPT !.read_only = b, !.dirty = TRUE], acct)

\* xaccMallocSplit, then xaccSplitSetParent.  Mutant: at the list's head.
SetParentFirst(s, t) ==
  /\ trans[t].live
  /\ ~split[s].live
  /\ Edit(t, Work([trans[t] EXCEPT !.splits = <<s>> \o @],
                  [split EXCEPT ![s] = NewSplit(t)], acct, cached))
SplitSetParent(s, t) ==
  /\ trans[t].live
  /\ ~split[s].live
  /\ Edit(t, Work([trans[t] EXCEPT !.splits = Append(@, s)],
                  [split EXCEPT ![s] = NewSplit(t)], acct, cached))

\* A setter leaves the fields f in s and marks the accounts A.
EditSplit(s, f, A) ==
  Edit(split[s].parent,
       Work(trans[split[s].parent],
            [split EXCEPT ![s] = [f EXCEPT !.dirty = TRUE]], Mark(acct, A), cached))

SplitSetAccount(s, a) ==
  /\ May("account")
  /\ Held(s)
  /\ EditSplit(s, [split[s] EXCEPT !.acc = a], {})

SplitSetAmount(s, v) ==
  /\ May("amount")
  /\ Held(s)
  /\ EditSplit(s, [split[s] EXCEPT !.amount = v], {split[s].acc})

SplitSetValue(s, v) ==
  /\ Held(s)
  /\ EditSplit(s, [split[s] EXCEPT !.value = v], {split[s].acc})

\* xaccSplitSetBaseValue with the common currency.  A split that has no
\* account makes it return between its BeginEdit and its CommitEdit.
SplitSetBaseValue(s, v) ==
  /\ May("base_value")
  /\ Held(s)
  /\ IF split[s].acc = NoAcc
     THEN TransBeginEdit(split[s].parent)
     ELSE EditSplit(s, [split[s] EXCEPT !.value = v, !.amount = v], {split[s].acc})

\* The account's balance is recomputed at once, from the values in the edit.
SplitSetReconcile(s, r) ==
  /\ May("reconcile")
  /\ Held(s)
  /\ split[s].reconciled # r
  /\ LET sp == [split EXCEPT ![s] = [@ EXCEPT !.reconciled = r, !.dirty = TRUE]]
         w == Work(trans[split[s].parent], sp, Mark(acct, {split[s].acc}), cached)
     IN  Edit(split[s].parent, Recompute(w, {split[s].acc}))

\* xaccSplitDestroy, which refuses a split of a read-only transaction.
SplitDestroy(s) ==
  /\ May("split")
  /\ Held(s)
  /\ split[s].acc = NoAcc \/ ~trans[split[s].parent].read_only
  /\ EditSplit(s, [split[s] EXCEPT !.destroying = TRUE], {})

AccountBeginEdit(a) ==
  /\ May("acct_edit")
  /\ acct[a].editlevel < MaxLevel
  /\ acct' = [acct EXCEPT ![a].editlevel = @ + 1]
  /\ UNCHANGED <<trans, orig, split, cached>>

\* The outermost commit brings the account up to date.  Mutant: it only sorts.
CommitOnlySorts(a) ==
  /\ acct[a].editlevel > 0
  /\ acct' = [acct EXCEPT ![a] = SortSplits([acct[a] EXCEPT !.editlevel = @ - 1])]
  /\ UNCHANGED <<trans, orig, split, cached>>
AccountCommitEdit(a) ==
  /\ acct[a].editlevel > 0
  /\ LET rec == SortSplits([acct[a] EXCEPT !.editlevel = @ - 1])
         w == Recompute(Work(0, split, [acct EXCEPT ![a] = rec], cached), {a})
     IN  acct' = w.ac /\ cached' = w.ca
  /\ UNCHANGED <<trans, orig, split>>

\* A reader that sorts, and so marks the balance, but does not recompute it.
AccountGetSplitList(a) ==
  /\ May("acct_edit")
  /\ acct' = [acct EXCEPT ![a] = SortSplits(@)]
  /\ UNCHANGED <<trans, orig, split, cached>>

TransCall(t) ==
  \/ MallocTransaction(t)
  \/ TransBeginEdit(t)
  \/ TransCommitEdit(t)
  \/ TransRollbackEdit(t)
  \/ TransDestroy(t)
  \/ \E d \in Descrs : TransSetDescription(t, d)
  \/ \E b \in BOOLEAN : TransSetReadOnly(t, b)

SplitCall(s) ==
  \/ \E t \in Trans : SplitSetParent(s, t)
  \/ \E a \in Account \ {Imbalance, Orphan} : SplitSetAccount(s, a)
  \/ \E v \in Values : SplitSetAmount(s, v)
  \/ \E v \in Values : SplitSetValue(s, v)
  \/ \E v \in Values : SplitSetBaseValue(s, v)
  \/ \E r \in Flags : SplitSetReconcile(s, r)
  \/ SplitDestroy(s)

AccountCall(a) ==
  \/ AccountBeginEdit(a)
  \/ AccountCommitEdit(a)
  \/ AccountGetSplitList(a)

Next ==
  \/ \E t \in Trans : TransCall(t)
  \/ \E s \in Split : SplitCall(s)
  \/ \E a \in Account : AccountCall(a)

Spec == Init /\ [][Next]_vars

-----------------------------------------------------------------------------
(* Properties.                                                             *)

\* Every field has its C type.
TypeOK ==
  /\ trans \in [Trans -> TransRecord]
  /\ orig \in [Trans -> CopyRecord \cup {NoCopy}]
  /\ split \in [Split -> SplitRecord]
  /\ acct \in [Account -> AccountRecord]

\* An account lists exactly the splits last committed to it: edits in
\* progress do not show in the split lists of the accounts, and a commit or a
\* rollback leaves none behind (SplitCommitEdit, SplitRollbackEdit).
AccountListsAgree ==
  \A a \in Account, s \in Split :
    s \in acct[a].splits <=> split[s].live /\ split[s].orig_acc = a

\* There is a copy to roll back to only while an edit is open, and an edit
\* that was not rolled back from the inside has one (BeginEdit, "Put back to
\* zero" in trans_cleanup_commit and xaccTransRollbackEdit).
CopyOnlyWhileOpen ==
  \A t \in Trans : orig[t] # NoCopy => trans[t].live /\ trans[t].editlevel > 0

\* An open edit can always be rolled back: xaccTransRollbackEdit says it puts
\* the edit level back to zero when it drops the copy.
OpenHasCopy ==
  \A t \in Trans : IsOpen(t) => orig[t] # NoCopy

\* xaccTransRollbackEdit pairs splits and copies by position, because "the
\* splits at the front of trans->splits are exactly the same splits as in the
\* original".  The splits after them were never committed.
FrontIsOriginal ==
  \A t \in Trans : orig[t] # NoCopy =>
    LET list == trans[t].splits
        copy == orig[t].splits
    IN  /\ Len(copy) <= Len(list)
        /\ \A i \in DOMAIN list :
             IF i <= Len(copy) THEN copy[i].of = list[i]
             ELSE split[list[i]].orig_acc = NoAcc /\ split[list[i]].orig_parent = NoTrans

Closed(t) == trans[t].live /\ trans[t].editlevel = 0

\* Between edits a transaction is consistent: its splits add up to zero, each
\* has an account and an amount equal to its value, none is half destroyed,
\* and its list is exactly the splits whose parent it is (CommitEdit with
\* scrubbing, and RollbackEdit).
ClosedIsConsistent ==
  \A t \in Trans : Closed(t) =>
    LET own == Elems(trans[t].splits)
    IN  /\ SumFunctionOnSet([s \in Split |-> split[s].value], own) = 0
        /\ own = {s \in Split : split[s].live /\ split[s].parent = t}
        /\ \A s \in own :
             /\ split[s].amount = split[s].value
             /\ split[s].acc \in Account
             /\ split[s].orig_acc = split[s].acc
             /\ ~split[s].destroying

\* "FALSE if they are correct" (gnc_account_get_balance_dirty): when the flag
\* is clear the cached balances are those of the splits in the account.
BalanceFlagHonest ==
  \A a \in Account :
    acct[a].balance_dirty \/ cached[a] = RunningBalances(split, acct[a].splits)

Quiet ==
  /\ \A t \in Trans : trans[t].editlevel = 0
  /\ \A a \in Account : acct[a].editlevel = 0

\* The flag is honest at least when no edit is in progress.
QuietFlagHonest == Quiet => BalanceFlagHonest

\* xaccAccountGetBalance returns the cached balance and does not look at the
\* flag: when no edit is in progress it is the sum of the account's splits.
QuietBalanceCorrect ==
  Quiet => \A a \in Account : cached[a] = RunningBalances(split, acct[a].splits)

\* "Each split in transaction trans is removed from its account and destroyed
\* as well" (xaccTransDestroy): no split outlives its transaction.
NoSplitOutlivesTrans ==
  \A s \in Split : split[s].live => split[s].parent \in Trans /\ trans[split[s].parent].live

\* What is committed: for an open transaction, what its copy and the account
\* of each split's last commit would restore.
Entry(s, acc, d) ==
  [split |-> s, acc |-> acc, amount |-> d.amount, value |-> d.value,
   reconciled |-> d.reconciled]

Content(tr, sp, copy) ==
  LET list == tr.splits
  IN  IF copy = NoCopy
      THEN [descr |-> tr.descr, read_only |-> tr.read_only,
            entries |-> {Entry(s, sp[s].acc, sp[s]) : s \in Elems(list)}]
      ELSE [descr |-> copy.descr, read_only |-> copy.read_only,
            entries |-> {Entry(list[i], sp[list[i]].orig_acc, copy.splits[i]) :
                           i \in DOMAIN copy.splits}]

Committed(t) == Content(trans[t], split, orig[t])

\* Edits are atomic: an edit in progress leaves the committed content of
\* every transaction as it was, and its end leaves it so or replaces the
\* content of that one transaction by a balanced one.
Abs == INSTANCE Ledger WITH
         ledger <- [t \in Trans |-> Committed(t)],
         open <- {t \in Trans : trans[t].editlevel > 0}
AtomicEdits == Abs!Spec

\* "Nevermind, scratch that": a rollback leaves exactly what was committed,
\* fields, amounts, flags, accounts and the set of splits.  Before it the
\* copy tells, and for the account the last commit; after it what is there.
RollbackRestores ==
  [][\A t \in Trans :
       TransRollbackEdit(t) /\ ~RemoteDeletes => Committed(t)' = Committed(t)]_vars
=============================================================================
