-------------------------------- MODULE Lots --------------------------------
(***************************************************************************)
(* The lots of an account that trades a commodity: gnc-lot.c, policy.c (the*)
(* first-in, first-out policy), cap-gains.c, Scrub2.c and Scrub3.c.  A lot *)
(* is opened by a split and used up by later splits of the other sign.     *)
(* Scrubbing puts every split into a lot, cutting it into subsplits where  *)
(* it uses up more than one, and merges subsplits that are together again. *)
(*                                                                         *)
(* One account, in which everything has the same price: a value is a       *)
(* multiple of its amount, no gain or loss ever arises and no transaction  *)
(* that records one.  The calls are made from menus and dialogs, one after *)
(* the other, with no transaction open (GNC_AUTO_SCRUB_LOTS not set), but  *)
(* for an edit of an amount that is rolled back.                           *)
(***************************************************************************)
EXTENDS Integers, Sequences, SequencesExt, FiniteSetsExt

CONSTANTS MaxSplits, MaxLots,  \* bounds: splits and lots that exist at once
          MaxTrans,            \* bound: transactions with a split in the account
          Dates, Amounts,      \* what users enter
          MaxEdits             \* bound: other changes that users make

ASSUME LotsAssumption ==
  /\ MaxSplits \in Nat \ {0} /\ MaxLots \in Nat \ {0} /\ MaxTrans \in Nat /\ MaxEdits \in Nat
  /\ Dates \subseteq Nat /\ Amounts \subseteq Int \ {0}

VARIABLES
  acc,       \* the account: its splits, its lots and their lists
  entered,   \* history: the amount users last gave each transaction
  scrubbed,  \* history: the account was scrubbed and not changed since
  tidy,      \* history: once there were lots, users only entered newer splits
  edits      \* the number of changes made (a bound)

lotvars == <<acc, entered, scrubbed, tidy, edits>>

SplitId == 1..MaxSplits
LotId == 1..MaxLots
NoLot == 0
NoSplit == 0
\* A transaction bears the number of its first split; subsplits share it.
Unused == [trans |-> 0, date |-> 0, amt |-> 0, lot |-> NoLot, peers |-> {}]
NewLot == [splits |-> <<>>, closed |-> "unknown"]

LotInit ==
  /\ acc = [s |-> [i \in SplitId |-> Unused], list |-> <<>>, unsorted |-> FALSE,
            lot |-> [l \in LotId |-> NewLot], lots |-> <<>>, full |-> FALSE]
  /\ entered = [i \in SplitId |-> 0]
  /\ scrubbed = FALSE /\ tidy = TRUE /\ edits = 0

-----------------------------------------------------------------------------
\* SelectSeq and SortSeq would say the same, but nothing can be proved about them.
Without(list, ids) ==
  LET kept[n \in 0..Len(list)] ==
        IF n = 0 THEN <<>>
        ELSE kept[n - 1] \o (IF list[n] \in ids THEN <<>> ELSE <<list[n]>>)
  IN kept[Len(list)]
InsertBefore(list, later, i) == InsertAt(list, Min(later \cup {Len(list) + 1}), i)
\* The first member of a list that is in a set
FirstIn(list, S) == list[Min({k \in DOMAIN list : list[k] \in S})]

Sign(n) == IF n > 0 THEN 1 ELSE IF n < 0 THEN -1 ELSE 0
Abs(n) == n * Sign(n)
Used(a) == {i \in SplitId : a.s[i].trans # 0}
Total(a, ids) == SumFunctionOnSet([i \in SplitId |-> a.s[i].amt], ids)
Balance(a, l) == Total(a, ToSet(a.lot[l].splits))

\* xaccSplitOrder, as far as dates, transactions and amounts decide
Before(a, i, j) ==
  \/ a.s[i].date < a.s[j].date
  \/ a.s[i].date = a.s[j].date /\ a.s[i].trans < a.s[j].trans
  \/ /\ a.s[i].date = a.s[j].date /\ a.s[i].trans = a.s[j].trans
     /\ a.s[i].amt < a.s[j].amt \/ (a.s[i].amt = a.s[j].amt /\ i < j)

\* Its place in an account's list that is sorted
Inserted(a, list, i) ==
  InsertBefore(list, {k \in DOMAIN list : Before(a, i, list[k])}, i)

\* Leaving the account's edit brings its list up to date: SortSplits.
AccountCommit(a) ==
  LET sorted[n \in 0..Len(a.list)] ==
        IF n = 0 THEN <<>> ELSE Inserted(a, sorted[n - 1], a.list[n])
  IN [a EXCEPT !.list = IF a.unsorted THEN sorted[Len(a.list)] ELSE @,
               !.unsorted = FALSE]

\* Stable; gnc_lot_get_earliest_split and _latest_split sort the lot's list.
SortLot(a, l) ==
  LET list == a.lot[l].splits
      placed(q, i) == InsertBefore(q, {k \in DOMAIN q : a.s[i].date < a.s[q[k]].date}, i)
      sorted[n \in 0..Len(list)] ==
        IF n = 0 THEN <<>> ELSE placed(sorted[n - 1], list[n])
  IN [a EXCEPT !.lot[l].splits = sorted[Len(list)]]
Earliest(a, l) == Head(SortLot(a, l).lot[l].splits)
Latest(a, l) == Last(SortLot(a, l).lot[l].splits)

UsedUp(a, l) == a.lot[l].splits # <<>> /\ Balance(a, l) = 0

\* gnc_lot_get_balance remembers whether the lot is closed.
Known(a, l) ==
  [a EXCEPT !.lot[l].closed = IF UsedUp(a, l) THEN "yes" ELSE "no"]
Ask(a, l) == IF a.lot[l].closed = "unknown" THEN Known(a, l) ELSE a
IsClosed(a, l) == Ask(a, l).lot[l].closed = "yes"

\* mark_split: amounts or dates have changed.
Mark(a, ids) ==
  [a EXCEPT !.unsorted = TRUE,
            !.lot = [l \in LotId |-> IF \E i \in ids : a.s[i].lot = l
                                    THEN [@[l] EXCEPT !.closed = "unknown"] ELSE @[l]]]

\* gnc_lot_remove_split of each: a lot without splits leaves its account.
RemoveSplits(a, ids) ==
  LET from == {l \in LotId : \E i \in ids : a.s[i].lot = l}
      left(l) == Without(a.lot[l].splits, ids)
  IN [a EXCEPT !.s = [i \in SplitId |->
                        IF i \in ids THEN [@[i] EXCEPT !.lot = NoLot] ELSE @[i]],
               !.unsorted = TRUE,
               !.lot = [l \in LotId |-> IF l \in from
                          THEN [splits |-> left(l), closed |-> "unknown"] ELSE @[l]],
               !.lots = Without(@, {l \in from : left(l) = <<>>})]

\* gnc_lot_add_split; a lot joins its account with its first split.
AddSplit(a, i, l) ==
  LET b == IF a.s[i].lot # NoLot THEN RemoveSplits(a, {i}) ELSE a
  IN IF a.s[i].lot = l THEN a
     ELSE [b EXCEPT !.s[i].lot = l, !.unsorted = TRUE,
                    !.lots = IF Contains(@, l) THEN @ ELSE <<l>> \o @,
                    !.lot[l] = [splits |-> Append(@.splits, i), closed |-> "unknown"]]

-----------------------------------------------------------------------------
(* Putting a split into a lot; rest is what is left to be put elsewhere.   *)

\* Mutant: the rest is computed from the lot's balance with the wrong sign.
CutTwice(a, i, l) ==
  LET free == SplitId \ Used(a)
      j    == Min(free)
      part == -Balance(a, l)
      cut  == [a EXCEPT !.s[i].amt = part, !.s[i].peers = @ \cup {j},
                        !.s[j] = [a.s[i] EXCEPT !.amt = @ + part, !.peers = {i}],
                        !.list = <<j>> \o @]
  IN IF free = {} THEN [acc |-> [a EXCEPT !.full = TRUE], rest |-> NoSplit]
     ELSE [acc |-> AddSplit(cut, i, l), rest |-> j]

\* The part that closes the lot stays; the other part is a new split, which
\* the open account takes in at the head of its list.
CutSplit(a, i, l) ==
  LET free == SplitId \ Used(a)
      j    == Min(free)
      part == -Balance(a, l)
      cut  == [a EXCEPT !.s[i].amt = part, !.s[i].peers = @ \cup {j},
                        !.s[j] = [trans |-> a.s[i].trans, date |-> a.s[i].date,
                                  amt |-> a.s[i].amt - part, lot |-> NoLot,
                                  peers |-> {i}],
                        !.list = <<j>> \o @]
  IN IF free = {} THEN [acc |-> [a EXCEPT !.full = TRUE], rest |-> NoSplit]
     ELSE [acc |-> AddSplit(cut, i, l), rest |-> j]

\* xaccSplitAssignToLot
AssignToLot(a0, i, l) ==
  LET a   == Known(a0, l)
      bal == Balance(a, l)
      amt == a.s[i].amt
  IN CASE a0.s[i].lot # NoLot \/ amt = 0 -> [acc |-> a0, rest |-> NoSplit]
       [] OTHER ->
          CASE IsClosed(a, l) -> [acc |-> a, rest |-> i]
            [] ~IsClosed(a, l) /\ (Sign(bal) # -Sign(amt) \/ Abs(amt) <= Abs(bal)) ->
                 [acc |-> AddSplit(a, i, l), rest |-> NoSplit]
            [] OTHER -> CutSplit(a, i, l)

\* finder_helper: an open lot that the split would make smaller
Suits(a, l, amt) ==
  /\ ~IsClosed(a, l) /\ a.lot[l].splits # <<>>
  /\ LET opening == a.s[Earliest(a, l)].amt
     IN /\ Sign(opening) = -Sign(amt)
        /\ opening > 0 <=> Balance(a, l) > 0

\* It asks every lot whether it is closed and sorts those that are not.
AskOne(a, l) ==
  LET asked(b) == IF IsClosed(b, l) THEN b ELSE SortLot(Known(b, l), l)
  IN asked(Ask(a, l))
AskAll(a) ==
  LET loop[n \in 0..Len(a.lots)] ==
        IF n = 0 THEN a ELSE AskOne(loop[n - 1], a.lots[n])
  IN loop[Len(a.lots)]

\* Mutant: last in, first out.
LatestLot(a, amt) ==
  LET suits == {k \in DOMAIN a.lots : Suits(a, a.lots[k], amt)}
      opened(k) == a.s[Earliest(a, a.lots[k])].date
  IN IF suits = {} THEN NoLot
     ELSE a.lots[Min({k \in suits : \A j \in suits : opened(k) >= opened(j)})]

\* FIFOPolicyGetLot: the one opened first; of several, the first in the list
PolicyLot(a, amt) ==
  LET suits == {k \in DOMAIN a.lots : Suits(a, a.lots[k], amt)}
      opened(k) == a.s[Earliest(a, a.lots[k])].date
  IN IF suits = {} THEN NoLot
     ELSE a.lots[Min({k \in suits : \A j \in suits : opened(k) <= opened(j)})]

\* A lot made anew; it is in the account's list once a split is added.
FreshLot(a) == CHOOSE l \in LotId : l \notin ToSet(a.lots)

\* xaccSplitAssign: cut up until nothing is left.  A lot that a part is cut for
\* is used up then, and a lot made anew takes in what is left.
AssignFound(a, i, l) ==
  CASE l # NoLot -> AssignToLot(a, i, l)
    [] l = NoLot /\ ToSet(a.lots) # LotId ->
         AssignToLot([a EXCEPT !.lot[FreshLot(a)] = NewLot], i, FreshLot(a))
    [] OTHER -> [acc |-> [a EXCEPT !.full = TRUE], rest |-> NoSplit]

AssignRound(r) ==
  IF r.rest = NoSplit \/ r.acc.full THEN r
  ELSE LET once(b) == AssignFound(b, r.rest, PolicyLot(b, b.s[r.rest].amt))
       IN once(AskAll(r.acc))

Assign(a, i) ==
  LET loop[n \in 0..Len(a.lots) + 1] ==
        IF n = 0 THEN [acc |-> a, rest |-> i] ELSE AssignRound(loop[n - 1])
  IN loop[Len(a.lots) + 1].acc

\* xaccAccountAssignLots, which goes back to the head after a split is cut;
\* no part of what Assign was given is left for later.
Unassigned(a) == {i \in ToSet(a.list) : a.s[i].lot = NoLot /\ a.s[i].amt # 0}
AssignNext(a) ==
  IF Unassigned(a) = {} \/ a.full THEN a ELSE Assign(a, FirstIn(a.list, Unassigned(a)))

AssignLots(a) ==
  LET rounds == Cardinality(Unassigned(a))
      loop[n \in 0..rounds] == IF n = 0 THEN a ELSE AssignNext(loop[n - 1])
  IN loop[rounds]

\* DirectionPolicyGetSplit, forwards: the first split of the account's list
\* that makes the lot smaller and is not earlier than what it has
PolicySplit(a, l) ==
  LET fits == {i \in Unassigned(a) :
                /\ a.s[i].date >= a.s[Latest(a, l)].date
                /\ Balance(a, l) < 0 <=> a.s[i].amt > 0}
  IN IF a.lot[l].splits = <<>> \/ UsedUp(a, l) \/ fits = {}
     THEN NoSplit ELSE FirstIn(a.list, fits)

\* xaccLotFill: every round but the last puts a split into the lot.
FillRound(a, l) ==
  LET b == Ask(a, l)
      i == PolicySplit(b, l)
      asked == IF b.lot[l].splits = <<>> THEN b ELSE SortLot(Known(b, l), l)
  IN IF IsClosed(b, l) \/ b.full THEN b
     ELSE IF i = NoSplit THEN asked
     ELSE AssignToLot(asked, i, l).acc

LotFill(a, l) ==
  LET rounds == Cardinality(Unassigned(a)) + 1
      loop[n \in 0..rounds] == IF n = 0 THEN a ELSE FillRound(loop[n - 1], l)
  IN loop[rounds]

\* Mutant: the lot is not told that j is destroyed.
MergeUntold(a, i, j) ==
  LET kept == [a EXCEPT !.s[i].amt = @ + a.s[j].amt,
                        !.s[i].peers = (@ \cup a.s[j].peers) \ {i, j},
                        !.s[j] = Unused,
                        !.list = Without(@, {j})]
      unlinked(k) == [kept.s[k] EXCEPT !.peers = @ \ {j}]
  IN Mark([kept EXCEPT !.s = [k \in SplitId |-> unlinked(k)]], {i})

\* merge_splits: j becomes part of i again and is destroyed.  Nobody can find
\* a destroyed split by its GUID.
MergeSplits(a, i, j) ==
  LET gone == RemoveSplits([a EXCEPT !.s[i].amt = @ + a.s[j].amt], {j})
      kept == [gone EXCEPT !.s[i].peers = (@ \cup a.s[j].peers) \ {i, j},
                           !.s[j] = Unused,
                           !.list = Without(@, {j})]
      unlinked(k) == [kept.s[k] EXCEPT !.peers = @ \ {j}]
  IN Mark([kept EXCEPT !.s = [k \in SplitId |-> unlinked(k)]], {i})

\* xaccScrubMergeLotSubSplits: every round but the last destroys a split of the lot.
MergeRound(a, l) ==
  LET mates(i) == {j \in a.s[i].peers : a.s[j].lot = l /\ a.s[j].trans = a.s[i].trans}
      todo == {i \in ToSet(a.lot[l].splits) : mates(i) # {}}
      first == FirstIn(a.lot[l].splits, todo)
  IN IF todo = {} THEN a ELSE MergeSplits(a, first, Min(mates(first)))

MergeSubSplits(a, l) ==
  LET rounds == Len(a.lot[l].splits)
      loop[n \in 0..rounds] == IF n = 0 THEN a ELSE MergeRound(loop[n - 1], l)
  IN loop[rounds]

\* A fat lot keeps its opening split only.
Thinned(a, l) ==
  RemoveSplits(SortLot(a, l), ToSet(a.lot[l].splits) \ {Earliest(a, l)})

Refilled(a, l) ==
  LET opening == a.s[Earliest(a, l)].amt
      fat     == (opening > 0 \/ Balance(a, l) > 0) /\ ~(opening > 0 /\ Balance(a, l) > 0)
  IN IF Balance(a, l) = 0 THEN a
     ELSE MergeSubSplits(LotFill(IF fat THEN Thinned(a, l) ELSE SortLot(a, l), l), l)

\* Mutant: trusts the cached answer.
ScrubIfOpen(a, l) ==
  LET b == Ask(MergeSubSplits(a, l), l)
  IN IF IsClosed(b, l) THEN b ELSE Refilled(b, l)

\* xaccScrubLot
ScrubLot(a, l) == Refilled(Known(MergeSubSplits(a, l), l), l)

\* xaccAccountScrubLots
ScrubNext(a, l) == IF a.full THEN a ELSE ScrubLot(a, l)
ScrubEach(a) ==
  LET loop[n \in 0..Len(a.lots)] ==
        IF n = 0 THEN a ELSE ScrubNext(loop[n - 1], a.lots[n])
  IN loop[Len(a.lots)]

ScrubLots(a) == ScrubEach(AssignLots(a))

-----------------------------------------------------------------------------
(* The calls.  full marks the bound on splits and lots reached.            *)
Edited(a, tidily) ==
  /\ acc' = a
  /\ tidy' = (tidy /\ tidily)
  /\ scrubbed' = FALSE
Counted == edits < MaxEdits /\ edits' = edits + 1

\* The register enters a transaction; the closed account keeps its order.
Enter(d, n) ==
  /\ Used(acc) # SplitId
  /\ Cardinality({acc.s[i].trans : i \in Used(acc)}) < MaxTrans
  /\ LET i == Min(SplitId \ Used(acc))
         a == [acc EXCEPT !.s[i] = [Unused EXCEPT !.trans = i, !.date = d, !.amt = n]]
     IN /\ \A j \in Used(acc) : acc.s[j].trans # i
        /\ Edited([a EXCEPT !.unsorted = TRUE, !.list = Inserted(a, @, i)],
               acc.lots = <<>> \/ \A j \in Used(acc) : acc.s[j].date <= d)
        /\ entered' = [entered EXCEPT ![i] = n]
  /\ UNCHANGED edits

Amount(i, n) ==
  /\ Counted
  /\ i \in Used(acc) /\ n # acc.s[i].amt
  /\ Edited(Mark([acc EXCEPT !.s[i].amt = n], {i}), FALSE)
  /\ entered' = [entered EXCEPT ![acc.s[i].trans] = @ + n - acc.s[i].amt]

DatePosted(t, d) ==
  /\ Counted
  /\ \E i \in Used(acc) : acc.s[i].trans = t /\ acc.s[i].date # d
  /\ LET mine == {i \in Used(acc) : acc.s[i].trans = t}
         a == [acc EXCEPT !.s = [i \in SplitId |->
                 IF i \in mine THEN [@[i] EXCEPT !.date = d] ELSE @[i]]]
     IN Edited(Mark(a, mine), FALSE)
  /\ UNCHANGED entered

\* A lot viewer looks at the lot in the middle of an edit that is abandoned:
\* the rollback restores the amount, and nothing else.
AbandonAmount(i, n) ==
  /\ Counted
  /\ i \in Used(acc) /\ acc.s[i].lot # NoLot /\ n # acc.s[i].amt
  /\ LET l == acc.s[i].lot
         seen == Known([acc EXCEPT !.s[i].amt = n], l)
     IN Edited([acc EXCEPT !.lot = seen.lot, !.unsorted = TRUE], FALSE)
  /\ UNCHANGED entered

TransDestroy(t) ==
  /\ Counted
  /\ t \in {acc.s[i].trans : i \in Used(acc)}
  /\ LET mine == {i \in Used(acc) : acc.s[i].trans = t}
         a == RemoveSplits(acc, mine)
     IN Edited([a EXCEPT !.s = [i \in SplitId |-> IF i \in mine THEN Unused ELSE @[i]],
                         !.list = Without(@, mine)], FALSE)
  /\ entered' = [entered EXCEPT ![t] = 0]

\* xaccAccountGetSplitList, by anything that shows the account
GetSplitList ==
  /\ acc.unsorted
  /\ acc' = AccountCommit(acc)
  /\ UNCHANGED <<entered, scrubbed, tidy, edits>>

\* The lot viewer's buttons
ViewerNew ==
  /\ Counted
  /\ ToSet(acc.lots) # LotId
  /\ LET l == FreshLot(acc)
     IN Edited([acc EXCEPT !.lots = <<l>> \o @, !.lot[l] = NewLot], TRUE)
  /\ UNCHANGED entered

ViewerDelete(l) ==
  /\ Counted
  /\ Contains(acc.lots, l)
  /\ Edited([acc EXCEPT
       !.lots = Without(@, {l}), !.lot[l] = NewLot,
       !.s = [i \in SplitId |-> IF @[i].lot = l THEN [@[i] EXCEPT !.lot = NoLot] ELSE @[i]]], FALSE)
  /\ UNCHANGED entered

ViewerScrub(l) ==
  /\ Counted
  /\ Contains(acc.lots, l)
  /\ Edited(AccountCommit(ScrubLot(acc, l)), FALSE)
  /\ ~acc'.full
  /\ UNCHANGED entered

AccountScrubLots ==
  /\ ~scrubbed
  /\ acc' = AccountCommit(ScrubLots(acc))
  /\ ~acc'.full
  /\ scrubbed' = TRUE
  /\ UNCHANGED <<entered, tidy, edits>>

LotNext ==
  \/ \E d \in Dates, n \in Amounts : Enter(d, n)
  \/ \E i \in SplitId, n \in Amounts : Amount(i, n) \/ AbandonAmount(i, n)
  \/ \E t \in SplitId, d \in Dates : DatePosted(t, d)
  \/ \E t \in SplitId : TransDestroy(t)
  \/ GetSplitList \/ ViewerNew \/ AccountScrubLots
  \/ \E l \in LotId : ViewerDelete(l) \/ ViewerScrub(l)

LotSpec == LotInit /\ [][LotNext]_lotvars
-----------------------------------------------------------------------------
(* Whatever is cut, merged, moved, deleted and scrubbed: a lot lists       *)
(* exactly the splits that point to it, the account exactly its splits and *)
(* every lot that has one, and nothing is listed twice.                    *)
LotsAgree ==
  /\ IsInjective(acc.list) /\ ToSet(acc.list) = Used(acc)
  /\ IsInjective(acc.lots)
  /\ \A l \in LotId :
       /\ IsInjective(acc.lot[l].splits)
       /\ ToSet(acc.lot[l].splits) = {i \in Used(acc) : acc.s[i].lot = l}
       /\ acc.lot[l].splits # <<>> => Contains(acc.lots, l)

(* However often a split is cut up and its parts are merged and cut again, *)
(* the parts of a transaction add up to what the user entered.             *)
NothingLost ==
  \A t \in SplitId :
    Total(acc, {i \in Used(acc) : acc.s[i].trans = t}) = entered[t]

(* "makes sure that every split in the account is assigned to a lot"       *)
EverySplitAssigned ==
  scrubbed => \A i \in Used(acc) : acc.s[i].amt # 0 => acc.s[i].lot # NoLot

(* A lot is opened by its earliest split and used up by the others; at no  *)
(* point is more taken out of it than was put in.                          *)
Opening(l) == acc.s[Earliest(acc, l)]
NeverOverdrawn(l) ==
  LET q == SortLot(acc, l).lot[l].splits
  IN \A k \in DOMAIN q : Sign(Total(acc, {q[j] : j \in 1..k})) \in {0, Sign(Opening(l).amt)}

(* A lot is not touched while one of its sign that was opened earlier is   *)
(* not used up, nor opened while there is one of the other sign to use up. *)
Users(l) == ToSet(acc.lot[l].splits) \ {Earliest(acc, l)}
UsedInOrder(l, k) ==
  /\ ~UsedUp(acc, l) /\ ~UsedUp(acc, k) => Opening(l).amt > 0 <=> Opening(k).amt > 0
  /\ Sign(Opening(l).amt) = Sign(Opening(k).amt) /\ Opening(l).date < Opening(k).date =>
       /\ Users(k) # {} => UsedUp(acc, l)
       /\ \A i \in Users(l), j \in Users(k) : acc.s[i].date <= acc.s[j].date

(* First in, first out: while users only enter splits, once there are lots *)
(* each no earlier than the last, every scrub leaves every split in a lot, *)
(* no lot overdrawn, and the lots used up in the order of their opening.   *)
FirstInFirstOut ==
  tidy /\ scrubbed =>
    LET inUse == {l \in ToSet(acc.lots) : acc.lot[l].splits # <<>>}
    IN /\ EverySplitAssigned
       /\ \A l \in inUse : NeverOverdrawn(l)
       /\ \A l, k \in inUse : UsedInOrder(l, k)

(* A scrub of the account takes no lot for closed that is not, or for open *)
(* that is used up, even if an abandoned edit left the cached answer wrong *)
(* before.                                                                 *)
ScrubbedCache ==
  scrubbed => \A l \in ToSet(acc.lots) :
    acc.lot[l].closed \in {"unknown", IF UsedUp(acc, l) THEN "yes" ELSE "no"}
=============================================================================
