--------------------------- MODULE TransEditProofs ---------------------------
(***************************************************************************)
(* Proofs about TransEdit.  The inductive invariant IInv says, besides the *)
(* types and AccountListsAgree, which splits a transaction's list may hold *)
(* and what the copy of an open edit covers: a rollback frees the splits   *)
(* after the copy, so these must be in no account, and a commit enters the *)
(* splits of the list into accounts, so these must be live.                *)
(*                                                                         *)
(* The second half is about content: what is at rest balances, an edit     *)
(* changes nothing until it ends, and a rollback leaves what was           *)
(* committed: TransEdit implements Ledger.  Then the balances the accounts *)
(* keep are shown to follow their splits.                                  *)
(***************************************************************************)
EXTENDS TransEdit, InductionLemmas, TLAPS, SequenceTheorems, FiniteSetTheorems

Typed(w) ==
  /\ w.tr \in TransRecord
  /\ w.sp \in [Split -> SplitRecord]
  /\ w.ac \in [Account -> AccountRecord]

Agree(sp, ac) ==
  \A a \in Account, s \in Split :
    s \in ac[a].splits <=> sp[s].live /\ sp[s].orig_acc = a

\* The splits in t's list are live and t's; one that is not is dirty.
Owned(t, tr, sp) ==
  \A s \in Elems(tr.splits) :
    /\ sp[s].live
    /\ sp[s].parent = t
    /\ sp[s].dirty \/ sp[s].orig_parent = t

\* The copy covers the front of the list, the rest was never committed.
Front(t, tr, sp, copy) ==
  copy # NoCopy =>
    /\ Len(copy.splits) <= Len(tr.splits)
    /\ \A i \in DOMAIN tr.splits :
         LET s == tr.splits[i]
         IN  IF i <= Len(copy.splits)
             THEN copy.splits[i].of = s /\ sp[s].orig_parent = t
             ELSE sp[s].orig_acc = NoAcc /\ sp[s].orig_parent = NoTrans

\* A transaction at rest has no copy and only splits committed to it.
AtRest(t, tr, sp, copy) ==
  /\ tr.editlevel = 0 =>
       copy = NoCopy /\ \A s \in Elems(tr.splits) : sp[s].orig_parent = t
  /\ copy # NoCopy => tr.live

IInv ==
  /\ TypeOK
  /\ Agree(split, acct)
  /\ \A t \in Trans :
       /\ Owned(t, trans[t], split)
       /\ Front(t, trans[t], split, orig[t])
       /\ AtRest(t, trans[t], split, orig[t])

\* The same for the working state of a call on t.
WInv(t, w, copy) ==
  /\ Typed(w)
  /\ Agree(w.sp, w.ac)
  /\ Owned(t, w.tr, w.sp)
  /\ Front(t, w.tr, w.sp, copy)

\* A call on t leaves the splits of other transactions alone.
Frame(t, sp0, sp) ==
  \A s \in Split : sp0[s].live /\ sp0[s].parent # t => sp[s] = sp0[s]

Copies == CopyRecord \cup {NoCopy}

-----------------------------------------------------------------------------

LEMMA WorkFields ==
  ASSUME NEW tr, NEW sp, NEW ac, NEW ca
  PROVE  /\ Work(tr, sp, ac, ca).tr = tr
         /\ Work(tr, sp, ac, ca).sp = sp
         /\ Work(tr, sp, ac, ca).ac = ac
         /\ Work(tr, sp, ac, ca).ca = ca
  BY DEF Work

\* Storing a working state that satisfies the invariant re-establishes it.
LEMMA StoreInv ==
  ASSUME IInv, NEW t \in Trans, NEW w, NEW copy \in Copies,
         WInv(t, w, copy), Frame(t, split, w.sp), AtRest(t, w.tr, w.sp, copy),
         Store(t, w, copy)
  PROVE  IInv'
<1>1. /\ trans' = [trans EXCEPT ![t] = w.tr] /\ orig' = [orig EXCEPT ![t] = copy]
      /\ split' = w.sp /\ acct' = w.ac
  BY DEF Store
<1>2. TypeOK'
  BY <1>1 DEF IInv, TypeOK, WInv, Typed, Copies
<1>3. Agree(split, acct)'
  BY <1>1 DEF WInv, Agree
<1>4. ASSUME NEW u \in Trans
      PROVE  /\ Owned(u, trans[u], split)'
             /\ Front(u, trans[u], split, orig[u])'
             /\ AtRest(u, trans[u], split, orig[u])'
  <2>1. CASE u = t
    <3>1. trans'[u] = w.tr /\ orig'[u] = copy
      BY <1>1, <2>1 DEF IInv, TypeOK
    <3> QED
      BY <1>1, <2>1, <3>1 DEF WInv, Owned, Front, AtRest
  <2>2. CASE u # t
    <3>1. trans'[u] = trans[u] /\ orig'[u] = orig[u]
      BY <1>1, <2>2 DEF IInv, TypeOK
    <3>2. /\ Owned(u, trans[u], split)
          /\ Front(u, trans[u], split, orig[u])
          /\ AtRest(u, trans[u], split, orig[u])
      BY DEF IInv
    <3>3. trans[u].splits \in Seq(Split)
      BY DEF IInv, TypeOK, TransRecord
    <3>4. \A s \in Elems(trans[u].splits) : s \in Split /\ w.sp[s] = split[s]
      BY <2>2, <3>2, <3>3, ElementOfSeq DEF Owned, Frame, Elems
    <3>5. \A i \in DOMAIN trans[u].splits : trans[u].splits[i] \in Elems(trans[u].splits)
      BY DEF Elems
    <3>6. Owned(u, trans[u], split)'
      BY <1>1, <3>1, <3>2, <3>4 DEF Owned
    <3>7. Front(u, trans[u], split, orig[u])'
      <4> DEFINE list == trans[u].splits
      <4>1. \A i \in DOMAIN list : w.sp[list[i]] = split[list[i]]
        BY <3>4, <3>5
      <4>2. Front(u, trans[u], w.sp, orig[u])
        BY <3>2, <4>1 DEF Front
      <4> QED
        BY <1>1, <3>1, <4>2 DEF Front
    <3>8. AtRest(u, trans[u], split, orig[u])'
      BY <1>1, <3>1, <3>2, <3>4 DEF AtRest
    <3> QED
      BY <3>6, <3>7, <3>8
  <2> QED
    BY <2>1, <2>2
<1> QED
  BY <1>2, <1>3, <1>4 DEF IInv

\* Marking and recomputing touch flags only.
LEMMA MarkKeepsLists ==
  ASSUME NEW ac \in [Account -> AccountRecord], NEW A
  PROVE  /\ Mark(ac, A) \in [Account -> AccountRecord]
         /\ \A a \in Account : Mark(ac, A)[a].splits = ac[a].splits
  BY DEF Mark, AccountRecord

LEMMA RecomputeKeepsLists ==
  ASSUME NEW w, w.ac \in [Account -> AccountRecord], NEW A
  PROVE  /\ Recompute(w, A).tr = w.tr
         /\ Recompute(w, A).sp = w.sp
         /\ Recompute(w, A).ac \in [Account -> AccountRecord]
         /\ \A a \in Account : Recompute(w, A).ac[a].splits = w.ac[a].splits
  BY DEF Recompute, Work, AccountRecord

LEMMA FreedTypes ==
  /\ FreedSplit \in SplitRecord /\ ~FreedSplit.live
  /\ FreedTrans \in TransRecord
<1>1. FreedSplit \in SplitRecord
  BY DEF FreedSplit, SplitRecord, RecFlags
<1>2. ~FreedSplit.live
  BY DEF FreedSplit
<1>3. FreedTrans \in TransRecord
  BY DescrsHaveADefault DEF FreedTrans, TransRecord
<1> QED
  BY <1>1, <1>2, <1>3

LEMMA NewSplitType ==
  ASSUME NEW t \in Trans
  PROVE  /\ NewSplit(t) \in SplitRecord
         /\ NewSplit(t).live /\ NewSplit(t).parent = t /\ NewSplit(t).dirty
         /\ NewSplit(t).orig_acc = NoAcc /\ NewSplit(t).orig_parent = NoTrans
<1>1. NewSplit(t) \in SplitRecord
  BY FreedTypes DEF NewSplit, SplitRecord
<1> QED
  BY <1>1 DEF NewSplit, FreedSplit

\* A transaction's list may be replaced by any list of splits.
LEMMA ReplaceList ==
  ASSUME NEW tr \in TransRecord, NEW q \in Seq(Split)
  PROVE  /\ [tr EXCEPT !.splits = q] \in TransRecord
         /\ [tr EXCEPT !.splits = q].editlevel = tr.editlevel
         /\ [tr EXCEPT !.splits = q].live = tr.live
         /\ [tr EXCEPT !.splits = q].splits = q
  BY DEF TransRecord

LEMMA ElemsOfList ==
  ASSUME NEW list \in Seq(Split)
  PROVE  /\ Elems(list) \subseteq Split
         /\ \A i \in DOMAIN list : list[i] \in Elems(list)
         /\ \A s \in Elems(list) :
              Position(list, s) \in DOMAIN list /\ list[Position(list, s)] = s
  BY ElementOfSeq, LenProperties DEF Elems, Position

LEMMA AppendElems ==
  ASSUME NEW list \in Seq(Split), NEW s \in Split
  PROVE  /\ Append(list, s) \in Seq(Split)
         /\ Elems(Append(list, s)) = Elems(list) \cup {s}
         /\ Len(Append(list, s)) = Len(list) + 1
         /\ DOMAIN list = 1..Len(list)
         /\ Len(list) \in Nat
         /\ DOMAIN Append(list, s) = 1..(Len(list) + 1)
         /\ \A i \in 1..Len(list) : Append(list, s)[i] = list[i]
         /\ Append(list, s)[Len(list) + 1] = s
<1>1. Append(list, s) \in Seq(Split) /\ Len(Append(list, s)) = Len(list) + 1
  BY AppendProperties
<1>2. DOMAIN list = 1..Len(list) /\ Len(list) \in Nat
  BY LenProperties
<1>3. DOMAIN Append(list, s) = 1..(Len(list) + 1)
  BY <1>1, LenProperties
<1>4. /\ \A i \in 1..Len(list) : Append(list, s)[i] = list[i]
      /\ Append(list, s)[Len(list) + 1] = s
  BY AppendProperties
<1>5. Elems(Append(list, s)) = Elems(list) \cup {s}
  <2>1. \A i \in 1..(Len(list) + 1) : i \in 1..Len(list) \/ i = Len(list) + 1
    BY <1>2
  <2>2. \A i \in 1..Len(list) : i \in 1..(Len(list) + 1)
    BY <1>2
  <2>3. Len(list) + 1 \in 1..(Len(list) + 1)
    BY <1>2
  <2> QED
    BY <1>2, <1>3, <1>4, <2>1, <2>2, <2>3 DEF Elems
<1> QED
  BY <1>1, <1>2, <1>3, <1>4, <1>5

\* Reordering or filtering gives a list of the chosen splits.
LEMMA OrderedList ==
  ASSUME NEW S \in SUBSET Split, NEW q \in [1..Cardinality(S) -> S]
  PROVE  q \in Seq(Split) /\ Elems(q) \subseteq S
<1>1. Cardinality(S) \in Nat
  BY SplitsAreFinite, FS_Subset, FS_CardinalityType
<1>2. q \in Seq(S)
  BY <1>1, SeqDef
<1> QED
  BY <1>2, SeqMonotonic DEF Elems

-----------------------------------------------------------------------------
(* Scrubbing keeps the working state's invariant.                          *)

LEMMA ScrubSplitsInv ==
  ASSUME NEW t \in Trans, NEW w, NEW copy, WInv(t, w, copy)
  PROVE  /\ WInv(t, ScrubSplits(t, w), copy)
         /\ ScrubSplits(t, w).tr = w.tr
         /\ Frame(t, w.sp, ScrubSplits(t, w).sp)
<1> DEFINE r == ScrubSplits(t, w)
           fix == {s \in Elems(w.tr.splits) : w.sp[s].acc = NoAcc} \cup StillHas(t, w)
<1>1. w.tr \in TransRecord /\ w.sp \in [Split -> SplitRecord]
      /\ w.ac \in [Account -> AccountRecord]
  BY DEF WInv, Typed
<1>2. Elems(w.tr.splits) \subseteq Split /\ w.tr.splits \in Seq(Split)
  BY <1>1, ElemsOfList DEF TransRecord
<1>3. r.tr = w.tr
  BY DEF ScrubSplits, Work
<1>4. /\ r.ac \in [Account -> AccountRecord]
      /\ \A a \in Account : r.ac[a].splits = w.ac[a].splits
  BY <1>1, MarkKeepsLists DEF ScrubSplits, Work
<1>5. /\ r.sp \in [Split -> SplitRecord]
      /\ \A s \in Split :
           /\ r.sp[s].live = w.sp[s].live
           /\ r.sp[s].parent = w.sp[s].parent
           /\ r.sp[s].orig_parent = w.sp[s].orig_parent
           /\ r.sp[s].orig_acc = w.sp[s].orig_acc
           /\ w.sp[s].dirty => r.sp[s].dirty
           /\ s \notin Elems(w.tr.splits) => r.sp[s] = w.sp[s]
  <2> DEFINE has == StillHas(t, w)
             orphans == IF \E s \in has : w.sp[s].acc = NoAcc
                        THEN {s \in Elems(w.tr.splits) : w.sp[s].acc = NoAcc} ELSE {}
             uneven == {s \in has : w.sp[s].amount # w.sp[s].value}
  <2>1. orphans \subseteq Elems(w.tr.splits) /\ uneven \subseteq Elems(w.tr.splits)
    BY DEF StillHas
  <2>2. r.sp = [s \in Split |->
                  IF s \in orphans \cup uneven
                  THEN [w.sp[s] EXCEPT
                          !.acc = IF s \in orphans THEN Orphan ELSE @,
                          !.amount = IF s \in uneven THEN w.sp[s].value ELSE @,
                          !.dirty = TRUE]
                  ELSE w.sp[s]]
    BY DEF ScrubSplits, Work
  <2> HIDE DEF orphans, uneven, r
  <2>3. r.sp \in [Split -> SplitRecord]
    <3>1. ASSUME NEW s \in Split PROVE r.sp[s] \in SplitRecord
      <4>1. Orphan \in Account
        BY NullsAreNotObjects
      <4>2. w.sp[s] \in SplitRecord
        BY <1>1
      <4> DEFINE acc == IF s \in orphans THEN Orphan ELSE w.sp[s].acc
                 amount == IF s \in uneven THEN w.sp[s].value ELSE w.sp[s].amount
      <4>3. acc \in Account \cup {NoAcc} /\ amount \in Int
        BY <4>1, <4>2 DEF SplitRecord
      <4>4. \/ r.sp[s] = w.sp[s]
            \/ r.sp[s] = [w.sp[s] EXCEPT !.acc = acc, !.amount = amount, !.dirty = TRUE]
        BY <2>2
      <4> HIDE DEF acc, amount
      <4> QED
        BY <4>2, <4>3, <4>4 DEF SplitRecord
    <3> QED
      BY <2>2, <3>1
  <2>4. ASSUME NEW s \in Split
        PROVE  /\ r.sp[s].live = w.sp[s].live
               /\ r.sp[s].parent = w.sp[s].parent
               /\ r.sp[s].orig_parent = w.sp[s].orig_parent
               /\ r.sp[s].orig_acc = w.sp[s].orig_acc
               /\ w.sp[s].dirty => r.sp[s].dirty
    BY <1>1, <2>2, ZenonT(60) DEF SplitRecord
  <2>5. \A s \in Split : s \notin Elems(w.tr.splits) => r.sp[s] = w.sp[s]
    BY <2>1, <2>2
  <2> QED
    BY <2>3, <2>4, <2>5
<1>6. Typed(r)
  BY <1>1, <1>3, <1>4, <1>5 DEF Typed
<1>7. Agree(r.sp, r.ac)
  BY <1>4, <1>5 DEF WInv, Agree
<1>8. Owned(t, r.tr, r.sp)
  BY <1>2, <1>3, <1>5 DEF WInv, Owned
<1>9. Front(t, r.tr, r.sp, copy)
  <2>1. \A i \in DOMAIN w.tr.splits : w.tr.splits[i] \in Split
    BY <1>2, ElemsOfList
  <2> QED
    BY <1>3, <1>5, <2>1 DEF WInv, Front
<1>10. Frame(t, w.sp, r.sp)
  BY <1>2, <1>5 DEF WInv, Owned, Frame
<1> QED
  BY <1>3, <1>6, <1>7, <1>8, <1>9, <1>10 DEF WInv

LEMMA AddBalanceSplitInv ==
  ASSUME NEW t \in Trans, NEW w, NEW copy \in Copies, WInv(t, w, copy),
         NEW b \in BalanceSplits(t, w)
  PROVE  /\ WInv(t, AddBalanceSplit(t, w, b), copy)
         /\ Frame(t, w.sp, AddBalanceSplit(t, w, b).sp)
         /\ AddBalanceSplit(t, w, b).tr.editlevel = w.tr.editlevel
         /\ AddBalanceSplit(t, w, b).tr.live = w.tr.live
<1> DEFINE r == AddBalanceSplit(t, w, b)
           new == ~w.sp[b].live
           list == w.tr.splits
<1>1. w.tr \in TransRecord /\ w.sp \in [Split -> SplitRecord]
      /\ w.ac \in [Account -> AccountRecord]
  BY DEF WInv, Typed
<1>2. list \in Seq(Split) /\ Elems(list) \subseteq Split
  BY <1>1, ElemsOfList DEF TransRecord
<1>3. b \in Split /\ (new \/ b \in Elems(list))
  BY <1>2 DEF BalanceSplits, StillHas
<1>4. r.tr = IF new THEN [w.tr EXCEPT !.splits = Append(@, b)] ELSE w.tr
  BY DEF AddBalanceSplit, Work
<1>5. r.tr \in TransRecord /\ r.tr.editlevel = w.tr.editlevel /\ r.tr.live = w.tr.live
      /\ r.tr.splits = IF new THEN Append(list, b) ELSE list
  <2>1. Append(list, b) \in Seq(Split)
    BY <1>2, <1>3, AppendElems
  <2>2. CASE new
    <3>1. r.tr = [w.tr EXCEPT !.splits = Append(list, b)]
      BY <1>4, <2>2
    <3> QED
      <4> DEFINE q == Append(list, b)
                 x == [w.tr EXCEPT !.splits = q]
      <4> HIDE DEF q
      <4>1. /\ x \in TransRecord /\ x.editlevel = w.tr.editlevel
            /\ x.live = w.tr.live /\ x.splits = q
        BY <1>1, <2>1, ReplaceList DEF q
      <4> HIDE DEF r, new, x
      <4> QED
        BY <2>2, <3>1, <4>1 DEF q, x
  <2>3. CASE ~new
    BY <1>1, <1>4, <2>3
  <2> QED
    BY <2>2, <2>3
<1>6. /\ r.ac \in [Account -> AccountRecord]
      /\ \A a \in Account : r.ac[a].splits = w.ac[a].splits
  BY <1>1, MarkKeepsLists DEF AddBalanceSplit, Work
<1>7. /\ r.sp \in [Split -> SplitRecord]
      /\ \A s \in Split \ {b} : r.sp[s] = w.sp[s]
      /\ r.sp[b].live /\ r.sp[b].dirty
      /\ IF new THEN r.sp[b].parent = t /\ r.sp[b].orig_acc = NoAcc
                   /\ r.sp[b].orig_parent = NoTrans
         ELSE /\ r.sp[b].parent = w.sp[b].parent
              /\ r.sp[b].orig_parent = w.sp[b].orig_parent
              /\ r.sp[b].orig_acc = w.sp[b].orig_acc
  <2> DEFINE was == IF new THEN NewSplit(t) ELSE w.sp[b]
             diff == was.value - ImbalanceValue(t, w)
             val == IF diff \in Int THEN diff ELSE was.value
             now == [was EXCEPT !.acc = Imbalance, !.value = val,
                                !.amount = val, !.dirty = TRUE]
  <2>1. was \in SplitRecord
    BY <1>1, <1>3, NewSplitType
  <2>2. val \in Int
    BY <2>1 DEF SplitRecord
  <2>3. r.sp = [w.sp EXCEPT ![b] = now]
    BY DEF AddBalanceSplit, Work
  <2> HIDE DEF val
  <2>4. now \in SplitRecord /\ now.dirty /\ now.live = was.live
        /\ now.parent = was.parent /\ now.orig_parent = was.orig_parent
        /\ now.orig_acc = was.orig_acc
    BY <2>1, <2>2, NullsAreNotObjects DEF SplitRecord
  <2> QED
    BY <1>1, <1>3, <2>1, <2>3, <2>4, NewSplitType
<1>8. new => b \notin Elems(list)
  BY DEF WInv, Owned
<1>9. Typed(r)
  BY <1>5, <1>6, <1>7 DEF Typed
<1>10. Agree(r.sp, r.ac)
  BY <1>1, <1>3, <1>6, <1>7, NullsAreNotObjects DEF WInv, Agree
<1>11. Elems(r.tr.splits) = IF new THEN Elems(list) \cup {b} ELSE Elems(list)
  <2>1. Elems(Append(list, b)) = Elems(list) \cup {b}
    BY <1>2, <1>3, AppendElems
  <2> QED
    BY <1>5, <2>1
<1>12. Owned(t, r.tr, r.sp)
  BY <1>2, <1>3, <1>7, <1>11 DEF WInv, Owned
<1>13. Front(t, r.tr, r.sp, copy)
  <2> SUFFICES ASSUME copy # NoCopy PROVE Front(t, r.tr, r.sp, copy)
    BY DEF Front
  <2>1. /\ Len(copy.splits) <= Len(list)
        /\ \A i \in DOMAIN list :
             IF i <= Len(copy.splits)
             THEN copy.splits[i].of = list[i] /\ w.sp[list[i]].orig_parent = t
             ELSE w.sp[list[i]].orig_acc = NoAcc /\ w.sp[list[i]].orig_parent = NoTrans
    BY DEF WInv, Front
  <2>2. Len(copy.splits) \in Nat
    BY LenProperties DEF Copies, CopyRecord
  <2>3. \A i \in DOMAIN list : list[i] \in Elems(list)
    BY <1>2, ElemsOfList
  <2>4. CASE new
    <3> DEFINE q == Append(list, b)
    <3>1. r.tr.splits = q
      BY <1>5, <2>4
    <3>2. /\ DOMAIN list = 1..Len(list) /\ DOMAIN q = 1..(Len(list) + 1)
          /\ Len(list) \in Nat /\ Len(q) = Len(list) + 1
          /\ \A i \in 1..Len(list) : q[i] = list[i]
          /\ q[Len(list) + 1] = b
      BY <1>2, <1>3, AppendElems
    <3>3. ASSUME NEW i \in DOMAIN list
          PROVE  q[i] = list[i] /\ r.sp[q[i]] = w.sp[list[i]]
      <4>1. q[i] = list[i]
        BY <3>2
      <4>2. list[i] \in Split /\ list[i] # b
        BY <1>2, <1>8, <2>3, <2>4
      <4> HIDE DEF r, new, q
      <4> QED
        BY <1>7, <4>1, <4>2
    <3> HIDE DEF r, new, q
    <3>4. r.sp[b].orig_acc = NoAcc /\ r.sp[b].orig_parent = NoTrans
      BY <1>7, <2>4
    <3>5. ASSUME NEW i \in DOMAIN q
          PROVE  IF i <= Len(copy.splits)
                 THEN copy.splits[i].of = q[i] /\ r.sp[q[i]].orig_parent = t
                 ELSE r.sp[q[i]].orig_acc = NoAcc /\ r.sp[q[i]].orig_parent = NoTrans
      <4>1. CASE i \in DOMAIN list
        BY <2>1, <3>3, <4>1
      <4>2. CASE i = Len(list) + 1
        BY <2>1, <2>2, <3>2, <3>4, <4>2
      <4> QED
        BY <3>2, <4>1, <4>2
    <3> QED
      BY <2>1, <2>2, <3>1, <3>2, <3>5 DEF Front
  <2>5. CASE ~new
    <3>1. r.tr.splits = list
      BY <1>5, <2>5
    <3>2. \A s \in Split : /\ r.sp[s].orig_parent = w.sp[s].orig_parent
                           /\ r.sp[s].orig_acc = w.sp[s].orig_acc
      BY <1>7, <2>5
    <3>3. \A i \in DOMAIN list : list[i] \in Split
      BY <1>2
    <3> HIDE DEF r, new
    <3> QED
      BY <2>1, <3>1, <3>2, <3>3 DEF Front
  <2> QED
    BY <2>4, <2>5
<1>14. Frame(t, w.sp, r.sp)
  BY <1>3, <1>7 DEF WInv, Owned, Frame
<1> QED
  BY <1>5, <1>9, <1>10, <1>12, <1>13, <1>14 DEF WInv

LEMMA ScrubImbalanceInv ==
  ASSUME NEW t \in Trans, NEW w, NEW copy \in Copies, WInv(t, w, copy),
         NEW v \in ScrubImbalance(t, w)
  PROVE  /\ WInv(t, v, copy)
         /\ Frame(t, w.sp, v.sp)
         /\ v.tr.editlevel = w.tr.editlevel
         /\ v.tr.live = w.tr.live
<1> DEFINE even == ScrubSplits(t, w)
<1>1. WInv(t, even, copy) /\ even.tr = w.tr /\ Frame(t, w.sp, even.sp)
  BY ScrubSplitsInv
<1>2. v = even \/ \E b \in BalanceSplits(t, even) : v = AddBalanceSplit(t, even, b)
  BY DEF ScrubImbalance
<1> HIDE DEF even
<1>3. CASE v = even
  BY <1>1, <1>3
<1>4. ASSUME NEW b \in BalanceSplits(t, even), v = AddBalanceSplit(t, even, b)
      PROVE  /\ WInv(t, v, copy) /\ Frame(t, even.sp, v.sp)
             /\ v.tr.editlevel = w.tr.editlevel /\ v.tr.live = w.tr.live
  BY <1>1, <1>4, AddBalanceSplitInv
<1> QED
  BY <1>1, <1>2, <1>3, <1>4 DEF Frame

LEMMA FrameTrans ==
  ASSUME NEW t, NEW sp0, NEW sp1, NEW sp2,
         Frame(t, sp0, sp1), Frame(t, sp1, sp2)
  PROVE  Frame(t, sp0, sp2)
  BY DEF Frame

-----------------------------------------------------------------------------
(* Committing and rolling back.                                            *)

\* Committing live splits, none of them refused, moves each to the account
\* it names or frees it, and the account lists follow.
LEMMA CommitSplitsInv ==
  ASSUME NEW w, w.sp \in [Split -> SplitRecord], w.ac \in [Account -> AccountRecord],
         Agree(w.sp, w.ac), NEW S \in SUBSET Split, \A s \in S : w.sp[s].live
  PROVE  LET r == CommitSplits(w, S, {})
         IN  /\ r.tr = w.tr
             /\ r.sp \in [Split -> SplitRecord]
             /\ r.ac \in [Account -> AccountRecord]
             /\ Agree(r.sp, r.ac)
             /\ \A s \in Split \ S : r.sp[s] = w.sp[s]
             /\ \A s \in S : ~w.sp[s].destroying =>
                  /\ r.sp[s].live
                  /\ r.sp[s].parent = w.sp[s].parent
                  /\ r.sp[s].orig_parent = w.sp[s].parent
<1> DEFINE r == CommitSplits(w, S, {})
           gone == {s \in S : w.sp[s].destroying}
           leave(a) == Leave(w, S, a)
           enter(a) == Enter(w, S, a)
           used(a) == \E s \in S : w.sp[s].acc = a
           touched(a) == used(a) \/ leave(a) \cap w.ac[a].splits # {}
           committed(s) == [w.sp[s] EXCEPT !.orig_acc = w.sp[s].acc,
                                           !.orig_parent = w.sp[s].parent,
                                           !.destroying = FALSE,
                                           !.dirty = s \in {} \/ ~HasBackend]
           listed == [a \in Account |->
                        [w.ac[a] EXCEPT !.splits = (@ \ leave(a)) \cup enter(a),
                                        !.sort_dirty = @ \/ used(a),
                                        !.balance_dirty = @ \/ touched(a)]]
           before == Work(w.tr, w.sp, listed, w.ca)
           A == {a \in Account : touched(a)}
           counted == Recompute(before, A)
<1>1. /\ r.tr = w.tr
      /\ r.sp = [s \in Split |-> CASE s \notin S -> w.sp[s]
                                   [] s \in S \ {} /\ w.sp[s].destroying -> FreedSplit
                                   [] OTHER -> committed(s)]
      /\ r.ac = counted.ac
  BY DEF CommitSplits, Work
<1>2. /\ listed \in [Account -> AccountRecord]
      /\ \A a \in Account : listed[a].splits = (w.ac[a].splits \ leave(a)) \cup enter(a)
  <2> HIDE DEF used, touched
  <2>1. ASSUME NEW a \in Account
        PROVE  listed[a] \in AccountRecord
                 /\ listed[a].splits = (w.ac[a].splits \ leave(a)) \cup enter(a)
    <3>1. w.ac[a] \in AccountRecord
      OBVIOUS
    <3>2. leave(a) \subseteq Split /\ enter(a) \subseteq Split
      BY DEF Leave, Enter
    <3> DEFINE q == (w.ac[a].splits \ leave(a)) \cup enter(a)
               sd == w.ac[a].sort_dirty \/ used(a)
               bd == w.ac[a].balance_dirty \/ touched(a)
    <3>3. q \in SUBSET Split
      BY <3>1, <3>2 DEF AccountRecord
    <3>4. sd \in BOOLEAN /\ bd \in BOOLEAN
      OBVIOUS
    <3>5. listed[a] = [w.ac[a] EXCEPT !.splits = q, !.sort_dirty = sd, !.balance_dirty = bd]
      OBVIOUS
    <3>6. listed[a].splits = q
      BY <3>1, <3>5 DEF AccountRecord
    <3> HIDE DEF q, sd, bd, listed
    <3>7. listed[a] \in AccountRecord
      BY <3>1, <3>3, <3>4, <3>5 DEF AccountRecord
    <3> QED
      BY <3>6, <3>7 DEF q
  <2> QED
    BY <2>1
<1>3. /\ counted.ac \in [Account -> AccountRecord]
      /\ \A a \in Account : counted.ac[a].splits = listed[a].splits
  <2>1. before.ac = listed
    BY DEF Work
  <2> HIDE DEF before, listed, A
  <2> QED
    BY <1>2, <2>1, RecomputeKeepsLists
<1>4. ASSUME NEW s \in Split
      PROVE  /\ s \notin S => r.sp[s] = w.sp[s]
             /\ s \in gone => r.sp[s] = FreedSplit
             /\ s \in S \ gone => r.sp[s] = committed(s)
  BY <1>1
<1>5. ASSUME NEW s \in Split
      PROVE  /\ committed(s) \in SplitRecord
             /\ committed(s).live = w.sp[s].live
             /\ committed(s).parent = w.sp[s].parent
             /\ committed(s).orig_parent = w.sp[s].parent
             /\ committed(s).orig_acc = w.sp[s].acc
  <2> DEFINE d == s \in {} \/ ~HasBackend
  <2>1. d \in BOOLEAN /\ w.sp[s] \in SplitRecord
    OBVIOUS
  <2>2. committed(s) = [w.sp[s] EXCEPT !.orig_acc = w.sp[s].acc,
                                       !.orig_parent = w.sp[s].parent,
                                       !.destroying = FALSE, !.dirty = d]
    OBVIOUS
  <2> HIDE DEF d, committed
  <2> QED
    BY <2>1, <2>2 DEF SplitRecord
<1> HIDE DEF r, committed, counted, listed
<1>6. r.sp \in [Split -> SplitRecord]
  <2>1. \A s \in Split : r.sp[s] \in SplitRecord
    BY <1>4, <1>5, FreedTypes
  <2> QED
    BY <1>1, <2>1
<1>7. Agree(r.sp, r.ac)
  <2>1. ASSUME NEW a \in Account, NEW s \in Split
        PROVE  s \in r.ac[a].splits <=> r.sp[s].live /\ r.sp[s].orig_acc = a
    <3>1. s \in r.ac[a].splits <=> (s \in w.ac[a].splits /\ s \notin leave(a)) \/ s \in enter(a)
      BY <1>1, <1>2, <1>3
    <3>2. s \in w.ac[a].splits <=> w.sp[s].live /\ w.sp[s].orig_acc = a
      BY DEF Agree
    <3>3. CASE s \notin S
      BY <1>4, <3>1, <3>2, <3>3 DEF Leave, Enter
    <3>4. CASE s \in gone
      BY <1>4, <3>1, <3>2, <3>4, FreedTypes DEF Leave, Enter
    <3>5. CASE s \in S \ gone
      BY <1>4, <1>5, <3>1, <3>2, <3>5 DEF Leave, Enter
    <3> QED
      BY <3>3, <3>4, <3>5
  <2> QED
    BY <2>1 DEF Agree
<1> QED
  BY <1>1, <1>3, <1>4, <1>5, <1>6, <1>7 DEF r

\* The state a call leaves: t is closed or gone and nothing else changed.
Settled(t, w, sp0) ==
  /\ WInv(t, w, NoCopy)
  /\ AtRest(t, w.tr, w.sp, NoCopy)
  /\ Frame(t, sp0, w.sp)

LEMMA CleanupCommitInv ==
  ASSUME ~SplitRejects, NEW t \in Trans, NEW w, NEW copy, WInv(t, w, copy),
         w.tr.editlevel \in Nat \ {0}, NEW d \in CleanupCommit(t, w)
  PROVE  Settled(t, d, w.sp)
<1> DEFINE list == w.tr.splits
           dirty == {s \in Elems(list) : w.sp[s].dirty}
           drop == {s \in dirty : w.sp[s].parent # t \/ w.sp[s].destroying}
           S == {s \in dirty : w.sp[s].parent = t}
           kept == Elems(list) \ drop
           closed(q) == [w.tr EXCEPT !.splits = q, !.editlevel = @ - 1]
           v(q) == Work(closed(q), w.sp, w.ac, w.ca)
<1>1. w.tr \in TransRecord /\ w.sp \in [Split -> SplitRecord]
      /\ w.ac \in [Account -> AccountRecord] /\ Agree(w.sp, w.ac)
  BY DEF WInv, Typed
<1>2. list \in Seq(Split) /\ Elems(list) \subseteq Split
  BY <1>1, ElemsOfList DEF TransRecord
<1>3. PICK q \in DebitsFirst(list, kept, w.sp) : d = CommitSplits(v(q), S, {})
  <2>1. PICK q \in DebitsFirst(list, kept, w.sp) : d \in CommitAll(v(q), S)
    BY DEF CleanupCommit
  <2> HIDE DEF v, S, kept, list
  <2> QED
    BY <2>1 DEF CommitAll, Refusals
<1>4. q \in Seq(Split) /\ Elems(q) \subseteq kept
  <2>1. q \in [1..Cardinality(kept) -> kept]
    BY DEF DebitsFirst, Ordered
  <2>2. kept \in SUBSET Split
    BY <1>2
  <2> HIDE DEF kept
  <2>3. q \in Seq(Split) /\ Elems(q) \subseteq kept
    BY <2>1, <2>2, OrderedList
  <2> QED
    BY <2>3
<1>5. closed(q) \in TransRecord /\ closed(q).splits = q
  <2>1. w.tr.editlevel - 1 \in Nat
    OBVIOUS
  <2> QED
    BY <1>1, <1>4, <2>1 DEF TransRecord
<1>6. v(q).tr = closed(q) /\ v(q).sp = w.sp /\ v(q).ac = w.ac
  BY DEF Work
<1>7. S \in SUBSET Split /\ \A s \in S : w.sp[s].live /\ w.sp[s].parent = t
  BY <1>2 DEF WInv, Owned
<1>8. /\ d.tr = closed(q)
      /\ d.sp \in [Split -> SplitRecord]
      /\ d.ac \in [Account -> AccountRecord]
      /\ Agree(d.sp, d.ac)
      /\ \A s \in Split \ S : d.sp[s] = w.sp[s]
      /\ \A s \in S : ~w.sp[s].destroying =>
           /\ d.sp[s].live
           /\ d.sp[s].parent = w.sp[s].parent
           /\ d.sp[s].orig_parent = w.sp[s].parent
  <2> HIDE DEF v, S, closed
  <2> QED
    BY <1>1, <1>3, <1>6, <1>7, CommitSplitsInv
<1>9. \A s \in Elems(q) : d.sp[s].live /\ d.sp[s].parent = t /\ d.sp[s].orig_parent = t
  <2> TAKE s \in Elems(q)
  <2>1. s \in Elems(list) /\ s \notin drop /\ s \in Split
    BY <1>2, <1>4
  <2>2. w.sp[s].live /\ w.sp[s].parent = t /\ (w.sp[s].dirty \/ w.sp[s].orig_parent = t)
    BY <2>1 DEF WInv, Owned
  <2>3. CASE w.sp[s].dirty
    <3>1. s \in S /\ ~w.sp[s].destroying
      BY <2>1, <2>2, <2>3
    <3> QED
      BY <1>8, <2>2, <3>1
  <2>4. CASE ~w.sp[s].dirty
    BY <1>8, <2>1, <2>2, <2>4
  <2> QED
    BY <2>3, <2>4
<1>10. Frame(t, w.sp, d.sp)
  BY <1>7, <1>8 DEF Frame
<1> HIDE DEF closed
<1> QED
  BY <1>5, <1>8, <1>9, <1>10 DEF Settled, WInv, Typed, Owned, Front, AtRest

LEMMA DoDestroyInv ==
  ASSUME ~SplitRejects, NEW t \in Trans, NEW w, NEW copy, WInv(t, w, copy),
         NEW d \in DoDestroy(t, w)
  PROVE  Settled(t, d, w.sp)
<1> DEFINE own == {s \in Elems(w.tr.splits) : w.sp[s].parent = t}
           kept == {s \in own : w.sp[s].acc # NoAcc /\ w.tr.read_only}
           sp == [s \in Split |->
                    IF s \in own \ kept
                    THEN [w.sp[s] EXCEPT !.dirty = TRUE, !.destroying = TRUE]
                    ELSE w.sp[s]]
           S == {s \in own : sp[s].dirty}
           v == Work(FreedTrans, sp, w.ac, w.ca)
<1>1. w.tr \in TransRecord /\ w.sp \in [Split -> SplitRecord]
      /\ w.ac \in [Account -> AccountRecord] /\ Agree(w.sp, w.ac)
  BY DEF WInv, Typed
<1>2. own \in SUBSET Split
  BY <1>1, ElemsOfList DEF TransRecord
<1>3. d = CommitSplits(v, S, {})
  BY DEF DoDestroy, CommitAll, Refusals
<1>4. v.tr = FreedTrans /\ v.sp = sp /\ v.ac = w.ac
  BY DEF Work
<1>5. /\ sp \in [Split -> SplitRecord]
      /\ \A s \in Split : sp[s].live = w.sp[s].live /\ sp[s].orig_acc = w.sp[s].orig_acc
      /\ \A s \in Split \ own : sp[s] = w.sp[s]
  <2> HIDE DEF own, kept
  <2>1. ASSUME NEW s \in Split
        PROVE  /\ sp[s] \in SplitRecord /\ sp[s].live = w.sp[s].live
               /\ sp[s].orig_acc = w.sp[s].orig_acc
               /\ s \notin own => sp[s] = w.sp[s]
    <3>1. w.sp[s] \in SplitRecord
      BY <1>1
    <3>2. \/ s \in own /\ sp[s] = [w.sp[s] EXCEPT !.dirty = TRUE,
                                                 !.destroying = TRUE]
          \/ sp[s] = w.sp[s]
      OBVIOUS
    <3> HIDE DEF sp
    <3> QED
      BY <3>1, <3>2 DEF SplitRecord
  <2> QED
    BY <2>1, ZenonT(60)
<1>6. Agree(v.sp, v.ac)
  <2> HIDE DEF sp, v
  <2> QED
    BY <1>1, <1>4, <1>5 DEF Agree
<1>7. S \in SUBSET Split /\ \A s \in S : v.sp[s].live /\ w.sp[s].parent = t
  <2>1. \A s \in own : w.sp[s].live /\ w.sp[s].parent = t
    BY DEF WInv, Owned
  <2> QED
    BY <1>2, <1>4, <1>5, <2>1, ZenonT(60)
<1>8. /\ d.tr = FreedTrans
      /\ d.sp \in [Split -> SplitRecord]
      /\ d.ac \in [Account -> AccountRecord]
      /\ Agree(d.sp, d.ac)
      /\ \A s \in Split \ S : d.sp[s] = v.sp[s]
  <2>1. v.sp \in [Split -> SplitRecord] /\ v.ac \in [Account -> AccountRecord]
    BY <1>1, <1>4, <1>5
  <2> HIDE DEF v, S, sp
  <2> QED
    BY <1>3, <1>4, <1>6, <1>7, <2>1, CommitSplitsInv
<1>9. Frame(t, w.sp, d.sp)
  <2> HIDE DEF own, sp
  <2>1. ASSUME NEW s \in Split, w.sp[s].parent # t PROVE d.sp[s] = w.sp[s]
    BY <1>4, <1>5, <1>7, <1>8, <2>1 DEF own
  <2> QED
    BY <2>1 DEF Frame
<1>10. FreedTrans.splits = <<>> /\ Elems(<<>>) = {} /\ FreedTrans \in TransRecord
  BY FreedTypes DEF FreedTrans, Elems
<1> QED
  BY <1>8, <1>9, <1>10 DEF Settled, WInv, Typed, Owned, Front, AtRest

LEMMA RestoredInv ==
  ASSUME NEW t \in Trans, NEW w, NEW copy \in CopyRecord, copy # NoCopy,
         WInv(t, w, copy), w.tr.editlevel \in Nat \ {0}, NEW r \in Restored(t, w, copy)
  PROVE  Settled(t, r, w.sp)
<1> DEFINE list == w.tr.splits
           dirty == {s \in Elems(list) : w.sp[s].dirty}
           added == {s \in dirty : Position(list, s) > Len(copy.splits)}
           kept == Elems(list) \ added
           restored(s) == RestoredSplit(w.sp[s], copy.splits[Position(list, s)])
           reverted(q) == [w.tr EXCEPT !.descr = copy.descr, !.read_only = copy.read_only,
                                       !.splits = q, !.destroying = FALSE,
                                       !.editlevel = @ - 1]
<1>1. w.tr \in TransRecord /\ w.sp \in [Split -> SplitRecord]
      /\ w.ac \in [Account -> AccountRecord] /\ Agree(w.sp, w.ac)
  BY DEF WInv, Typed
<1>2. list \in Seq(Split) /\ Elems(list) \subseteq Split
  BY <1>1, ElemsOfList DEF TransRecord
<1>3. PICK q \in Filtered(list, kept) :
        r = Work(reverted(q),
                 [s \in Split |-> CASE s \in added -> FreedSplit
                                   [] s \in dirty \ added -> restored(s)
                                   [] OTHER -> w.sp[s]],
                 w.ac, w.ca)
  BY DEF Restored
<1>4. q \in Seq(Split) /\ Elems(q) \subseteq kept
  <2>1. q \in [1..Cardinality(kept) -> kept]
    BY DEF Filtered, Ordered
  <2>2. kept \in SUBSET Split
    BY <1>2
  <2> HIDE DEF kept
  <2>3. q \in Seq(Split) /\ Elems(q) \subseteq kept
    BY <2>1, <2>2, OrderedList
  <2> QED
    BY <2>3
<1>5. reverted(q) \in TransRecord /\ reverted(q).splits = q
  <2>1. w.tr.editlevel - 1 \in Nat
    OBVIOUS
  <2>2. copy.descr \in Descrs /\ copy.read_only \in BOOLEAN
    BY DEF CopyRecord
  <2> QED
    BY <1>1, <1>4, <2>1, <2>2 DEF TransRecord
<1>6. /\ r.tr = reverted(q) /\ r.ac = w.ac
      /\ r.sp = [s \in Split |-> CASE s \in added -> FreedSplit
                                   [] s \in dirty \ added -> restored(s)
                                   [] OTHER -> w.sp[s]]
  BY <1>3 DEF Work
<1>7. ASSUME NEW s \in Split
      PROVE  /\ s \in added => r.sp[s] = FreedSplit
             /\ s \in dirty \ added => r.sp[s] = restored(s)
             /\ s \notin dirty => r.sp[s] = w.sp[s]
  BY <1>6
<1>8. Len(copy.splits) \in Nat /\ copy.splits \in Seq(Data)
      /\ DOMAIN copy.splits = 1..Len(copy.splits)
      /\ DOMAIN list = 1..Len(list) /\ Len(list) \in Nat
  BY <1>2, LenProperties DEF CopyRecord
<1>9. ASSUME NEW s \in Elems(list)
      PROVE  /\ s \in Split /\ Position(list, s) \in DOMAIN list
             /\ list[Position(list, s)] = s
             /\ w.sp[s].live /\ w.sp[s].parent = t
             /\ s \in added => w.sp[s].orig_acc = NoAcc
             /\ s \notin added => w.sp[s].orig_parent = t
             /\ s \in dirty \ added => Position(list, s) \in DOMAIN copy.splits
  <2>1. s \in Split /\ Position(list, s) \in DOMAIN list /\ list[Position(list, s)] = s
    BY <1>2, ElemsOfList
  <2>2. w.sp[s].live /\ w.sp[s].parent = t /\ (w.sp[s].dirty \/ w.sp[s].orig_parent = t)
    BY DEF WInv, Owned
  <2>3. IF Position(list, s) <= Len(copy.splits) THEN w.sp[s].orig_parent = t
                                                 ELSE w.sp[s].orig_acc = NoAcc
    BY <2>1 DEF WInv, Front
  <2> QED
    BY <1>8, <2>1, <2>2, <2>3
<1>10. ASSUME NEW s \in dirty \ added
       PROVE  /\ restored(s) \in SplitRecord
              /\ restored(s).live = w.sp[s].live
              /\ restored(s).parent = w.sp[s].orig_parent
              /\ restored(s).orig_parent = w.sp[s].orig_parent
              /\ restored(s).orig_acc = w.sp[s].orig_acc
  <2> DEFINE so == copy.splits[Position(list, s)]
  <2>1. so \in Data
    BY <1>8, <1>9, ElementOfSeq
  <2>2. w.sp[s] \in SplitRecord
    BY <1>1, <1>9
  <2> HIDE DEF so
  <2>3. so.amount \in Int /\ so.value \in Int /\ so.reconciled \in RecFlags
    BY <2>1 DEF Data
  <2>4. restored(s) = [w.sp[s] EXCEPT
                         !.acc = w.sp[s].orig_acc, !.parent = w.sp[s].orig_parent,
                         !.amount = so.amount, !.value = so.value,
                         !.reconciled = so.reconciled,
                         !.destroying = FALSE, !.dirty = FALSE]
    BY DEF so, RestoredSplit
  <2> HIDE DEF restored
  <2>5. restored(s) \in SplitRecord
    <3> DEFINE x == w.sp[s]
    <3>1. x.orig_acc \in Account \cup {NoAcc} /\ x.orig_parent \in Trans \cup {NoTrans}
      BY <2>2 DEF SplitRecord
    <3> HIDE DEF x
    <3>2. restored(s) = [x EXCEPT
                           !.acc = x.orig_acc, !.parent = x.orig_parent,
                           !.amount = so.amount, !.value = so.value,
                           !.reconciled = so.reconciled,
                           !.destroying = FALSE, !.dirty = FALSE]
      BY <2>4 DEF x
    <3>3. x \in SplitRecord
      BY <2>2 DEF x
    <3> QED
      BY <2>3, <3>1, <3>2, <3>3, ZenonT(60) DEF SplitRecord
  <2>6. /\ restored(s).live = w.sp[s].live
        /\ restored(s).parent = w.sp[s].orig_parent
        /\ restored(s).orig_parent = w.sp[s].orig_parent
        /\ restored(s).orig_acc = w.sp[s].orig_acc
    BY <2>2, <2>4, SMTT(30) DEF SplitRecord
  <2> QED
    BY <2>5, <2>6
<1>11. added \subseteq dirty /\ dirty \subseteq Elems(list)
  OBVIOUS
<1> HIDE DEF restored, reverted, dirty, added
<1>12. r.sp \in [Split -> SplitRecord]
  <2>1. \A s \in Split : r.sp[s] \in SplitRecord
    BY <1>1, <1>7, <1>10, <1>11, FreedTypes
  <2> QED
    BY <1>6, <2>1
<1>13. Agree(r.sp, r.ac)
  <2>1. ASSUME NEW a \in Account, NEW s \in Split
        PROVE  s \in r.ac[a].splits <=> r.sp[s].live /\ r.sp[s].orig_acc = a
    <3>1. s \in r.ac[a].splits <=> w.sp[s].live /\ w.sp[s].orig_acc = a
      BY <1>1, <1>6 DEF Agree
    <3>2. CASE s \in added
      BY <1>7, <1>9, <1>11, <3>1, <3>2, FreedTypes, NullsAreNotObjects
    <3>3. CASE s \in dirty \ added
      BY <1>7, <1>10, <3>1, <3>3
    <3>4. CASE s \notin dirty
      BY <1>7, <3>1, <3>4
    <3> QED
      BY <3>2, <3>3, <3>4
  <2> QED
    BY <2>1 DEF Agree
<1>14. \A s \in Elems(q) : r.sp[s].live /\ r.sp[s].parent = t /\ r.sp[s].orig_parent = t
  <2> TAKE s \in Elems(q)
  <2>1. s \in Elems(list) /\ s \notin added /\ s \in Split
    BY <1>2, <1>4
  <2> QED
    BY <1>7, <1>9, <1>10, <2>1
<1>15. Frame(t, w.sp, r.sp)
  <2>1. ASSUME NEW s \in Split, w.sp[s].parent # t PROVE r.sp[s] = w.sp[s]
    BY <1>7, <1>9, <1>11, <2>1
  <2> QED
    BY <2>1 DEF Frame
<1> QED
  BY <1>1, <1>5, <1>6, <1>12, <1>13, <1>14, <1>15
  DEF Settled, WInv, Typed, Owned, Front, AtRest

LEMMA SettledInv ==
  ASSUME IInv, NEW t \in Trans, NEW w, NEW sp,
         Frame(t, split, sp), Settled(t, w, sp), Store(t, w, NoCopy)
  PROVE  IInv'
<1>1. Frame(t, split, w.sp)
  BY FrameTrans DEF Settled
<1>2. NoCopy \in Copies
  BY DEF Copies
<1> QED
  BY <1>1, <1>2, StoreInv DEF Settled

LEMMA WithTransInv ==
  ASSUME NEW t, NEW w, NEW copy, WInv(t, w, copy),
         NEW tr \in TransRecord, tr.splits = w.tr.splits
  PROVE  /\ WInv(t, WithTrans(w, tr), copy)
         /\ WithTrans(w, tr).tr = tr /\ WithTrans(w, tr).sp = w.sp
  BY DEF WithTrans, Work, WInv, Typed, Owned, Front

LEMMA RollbackEditInv ==
  ASSUME ~SplitRejects, IInv, NEW t \in Trans, NEW w, NEW copy \in Copies,
         WInv(t, w, copy), Frame(t, split, w.sp), w.tr.editlevel \in Nat \ {0},
         RollbackEdit(t, w, copy)
  PROVE  IInv'
<1>1. copy \in CopyRecord /\ copy # NoCopy
  BY DEF RollbackEdit, Copies
<1>2. PICK r \in Restored(t, w, copy) :
        Store(t, r, NoCopy) \/ \E d \in DoDestroy(t, r) : Store(t, d, NoCopy)
  BY DEF RollbackEdit
<1>3. Settled(t, r, w.sp)
  BY <1>1, RestoredInv
<1>4. CASE Store(t, r, NoCopy)
  BY <1>3, <1>4, SettledInv
<1>5. ASSUME NEW d \in DoDestroy(t, r), Store(t, d, NoCopy) PROVE IInv'
  <2>1. WInv(t, r, NoCopy) /\ Frame(t, split, r.sp)
    BY <1>3, FrameTrans DEF Settled
  <2>2. Settled(t, d, r.sp)
    BY <2>1, DoDestroyInv
  <2> QED
    BY <1>5, <2>1, <2>2, SettledInv
<1> QED
  BY <1>2, <1>4, <1>5

LEMMA CommitEditInv ==
  ASSUME ~SplitRejects, IInv, NEW t \in Trans, NEW w, NEW copy \in Copies,
         WInv(t, w, copy), Frame(t, split, w.sp), w.tr.editlevel \in Nat \ {0},
         CommitEdit(t, w, copy)
  PROVE  IInv'
<1> DEFINE empty == StillHas(t, w) = {}
           begun == WithTrans(w, [w.tr EXCEPT !.destroying = @ \/ empty])
           scrubbed == IF begun.tr.destroying THEN {begun} ELSE ScrubImbalance(t, begun)
<1>1. w.tr \in TransRecord
  BY DEF WInv, Typed
<1>2. /\ WInv(t, begun, copy) /\ begun.sp = w.sp
      /\ begun.tr.editlevel = w.tr.editlevel
  <2> DEFINE b == w.tr.destroying \/ empty
             tr == [w.tr EXCEPT !.destroying = b]
  <2> HIDE DEF empty
  <2>1. b \in BOOLEAN /\ begun = WithTrans(w, tr)
    OBVIOUS
  <2> HIDE DEF b
  <2>2. tr \in TransRecord /\ tr.splits = w.tr.splits /\ tr.editlevel = w.tr.editlevel
    BY <1>1, <2>1 DEF TransRecord
  <2> HIDE DEF tr, begun
  <2> QED
    BY <2>1, <2>2, WithTransInv
<1>3. PICK v \in scrubbed :
        \/ LET clean == WithTrans(v, [v.tr EXCEPT !.dirty = @ /\ ~HasBackend])
           IN  \E d \in IF v.tr.destroying THEN DoDestroy(t, clean)
                                           ELSE CleanupCommit(t, clean) :
                 Store(t, d, NoCopy)
        \/ RollbackEdit(t, WithTrans(v, [v.tr EXCEPT !.destroying = FALSE]), copy)
  BY DEF CommitEdit
<1> HIDE DEF begun
<1>4. /\ WInv(t, v, copy) /\ Frame(t, split, v.sp)
      /\ v.tr.editlevel = w.tr.editlevel
  <2>1. CASE v = begun
    BY <1>2, <2>1
  <2>2. CASE v \in ScrubImbalance(t, begun)
    <3>1. WInv(t, v, copy) /\ Frame(t, begun.sp, v.sp)
          /\ v.tr.editlevel = begun.tr.editlevel
      BY <1>2, <2>2, ScrubImbalanceInv
    <3> QED
      BY <1>2, <3>1, FrameTrans
  <2> QED
    BY <2>1, <2>2
<1>5. v.tr \in TransRecord
  BY <1>4 DEF WInv, Typed
<1>6. ASSUME LET clean == WithTrans(v, [v.tr EXCEPT !.dirty = @ /\ ~HasBackend])
             IN  \E d \in IF v.tr.destroying THEN DoDestroy(t, clean)
                                             ELSE CleanupCommit(t, clean) :
                   Store(t, d, NoCopy)
      PROVE  IInv'
  <2> DEFINE b == v.tr.dirty /\ ~HasBackend
             tr == [v.tr EXCEPT !.dirty = b]
             clean == WithTrans(v, tr)
  <2>1. b \in BOOLEAN
    OBVIOUS
  <2>2. PICK d \in DoDestroy(t, clean) \cup CleanupCommit(t, clean) : Store(t, d, NoCopy)
    BY <1>6
  <2> HIDE DEF b
  <2>3. tr \in TransRecord /\ tr.splits = v.tr.splits /\ tr.editlevel = v.tr.editlevel
    BY <1>5, <2>1 DEF TransRecord
  <2> HIDE DEF tr
  <2>4. WInv(t, clean, copy) /\ clean.tr = tr /\ clean.sp = v.sp
    BY <1>4, <2>3, WithTransInv
  <2> HIDE DEF clean
  <2>5. Settled(t, d, v.sp)
    BY <1>4, <2>2, <2>3, <2>4, DoDestroyInv, CleanupCommitInv
  <2> QED
    BY <1>4, <2>2, <2>5, SettledInv
<1>7. ASSUME RollbackEdit(t, WithTrans(v, [v.tr EXCEPT !.destroying = FALSE]), copy)
      PROVE  IInv'
  <2> DEFINE tr == [v.tr EXCEPT !.destroying = FALSE]
             back == WithTrans(v, tr)
  <2>1. tr \in TransRecord /\ tr.splits = v.tr.splits /\ tr.editlevel = v.tr.editlevel
    BY <1>5 DEF TransRecord
  <2>2. RollbackEdit(t, back, copy)
    BY <1>7
  <2> HIDE DEF tr
  <2>3. WInv(t, back, copy) /\ back.tr = tr /\ back.sp = v.sp
    BY <1>4, <2>1, WithTransInv
  <2> HIDE DEF back
  <2> QED
    BY <1>4, <2>1, <2>2, <2>3, RollbackEditInv
<1> QED
  BY <1>3, <1>6, <1>7

-----------------------------------------------------------------------------
(* A setter's change, within an edit of the caller or one of its own.      *)

\* What a setter on t may change of the state.
Edited(t, w) ==
  /\ Typed(w)
  /\ Agree(w.sp, w.ac)
  /\ Owned(t, w.tr, w.sp)
  /\ Frame(t, split, w.sp)
  /\ w.tr.live = trans[t].live
  /\ w.tr.editlevel = trans[t].editlevel
  /\ \A copy \in Copies :
       Front(t, trans[t], split, copy) => Front(t, w.tr, w.sp, copy)

\* The copy of a transaction at rest covers its whole list.
LEMMA DupeInv ==
  ASSUME IInv, NEW t \in Trans, trans[t].editlevel = 0
  PROVE  /\ Dupe(t) \in CopyRecord /\ Dupe(t) \in Copies
         /\ Front(t, trans[t], split, Dupe(t))
<1> DEFINE list == trans[t].splits
           entry(s) == [of |-> s, amount |-> split[s].amount,
                        value |-> split[s].value, reconciled |-> split[s].reconciled]
           entries == [i \in DOMAIN list |-> entry(list[i])]
<1>1. trans[t] \in TransRecord /\ split \in [Split -> SplitRecord]
  BY DEF IInv, TypeOK
<1>2. list \in Seq(Split) /\ DOMAIN list = 1..Len(list) /\ Len(list) \in Nat
  BY <1>1, LenProperties DEF TransRecord
<1>3. \A i \in DOMAIN list : list[i] \in Split
  BY <1>2, ElementOfSeq
<1>4. ASSUME NEW s \in Split PROVE entry(s) \in Data /\ entry(s).of = s
  BY <1>1 DEF SplitRecord, Data
<1>5. Dupe(t) = [descr |-> trans[t].descr, read_only |-> trans[t].read_only,
                 splits |-> entries]
  BY DEF Dupe
<1> HIDE DEF entry
<1>6. entries \in Seq(Data) /\ Len(entries) = Len(list)
  <2>1. entries \in [1..Len(list) -> Data]
    BY <1>2, <1>3, <1>4
  <2>2. entries \in Seq(Data)
    BY <1>2, <2>1, SeqDef
  <2> HIDE DEF entries
  <2> QED
    BY <1>2, <2>1, <2>2, LenProperties
<1>7. \A i \in DOMAIN list : entries[i].of = list[i]
  BY <1>3, <1>4
<1> HIDE DEF entries
<1>8. Dupe(t) \in CopyRecord /\ Dupe(t) \in Copies
  BY <1>1, <1>5, <1>6 DEF TransRecord, CopyRecord, Copies
<1>9. \A s \in Elems(list) : split[s].orig_parent = t
  BY DEF IInv, AtRest
<1>10. \A i \in DOMAIN list : list[i] \in Elems(list)
  BY <1>2, ElemsOfList
<1> QED
  BY <1>2, <1>5, <1>6, <1>7, <1>8, <1>9, <1>10 DEF Front

LEMMA EditInv ==
  ASSUME ~SplitRejects, IInv, NEW t \in Trans, NEW w, Edited(t, w), Edit(t, w)
  PROVE  IInv'
<1>1. /\ trans[t].editlevel \in Nat /\ orig[t] \in Copies
      /\ Front(t, trans[t], split, orig[t])
  BY DEF IInv, TypeOK, TransRecord, Copies
<1>2. CASE trans[t].editlevel > 0
  <2>1. Store(t, w, orig[t])
    BY <1>2 DEF Edit
  <2>2. WInv(t, w, orig[t]) /\ Frame(t, split, w.sp)
    BY <1>1 DEF Edited, WInv
  <2>3. AtRest(t, w.tr, w.sp, orig[t])
    BY <1>1, <1>2 DEF IInv, Edited, AtRest
  <2> QED
    BY <1>1, <2>1, <2>2, <2>3, StoreInv
<1>3. CASE ~(trans[t].editlevel > 0)
  <2>1. CommitEdit(t, Begun(w), Dupe(t)) /\ trans[t].editlevel = 0
    BY <1>1, <1>3 DEF Edit
  <2>2. Dupe(t) \in Copies /\ Front(t, trans[t], split, Dupe(t))
    BY <2>1, DupeInv
  <2>3. WInv(t, w, Dupe(t)) /\ w.tr \in TransRecord /\ Frame(t, split, w.sp)
    BY <2>2 DEF Edited, WInv, Typed
  <2> DEFINE b == w.tr.dirty \/ ~HasBackend
             tr == [w.tr EXCEPT !.editlevel = 1, !.dirty = b]
  <2>4. b \in BOOLEAN /\ Begun(w) = WithTrans(w, tr)
    BY DEF Begun
  <2> HIDE DEF b
  <2>5. tr \in TransRecord /\ tr.splits = w.tr.splits /\ tr.editlevel = 1
    BY <2>3, <2>4 DEF TransRecord
  <2> HIDE DEF tr
  <2>6. WInv(t, Begun(w), Dupe(t)) /\ Begun(w).tr = tr /\ Begun(w).sp = w.sp
    BY <2>3, <2>4, <2>5, WithTransInv
  <2> QED
    BY <2>1, <2>2, <2>3, <2>5, <2>6, CommitEditInv
<1> QED
  BY <1>2, <1>3

LEMMA CurrentFields ==
  ASSUME IInv, NEW t \in Trans
  PROVE  /\ Typed(Current(t)) /\ trans[t] \in TransRecord
         /\ split \in [Split -> SplitRecord] /\ acct \in [Account -> AccountRecord]
         /\ Current(t).tr = trans[t] /\ Current(t).sp = split /\ Current(t).ac = acct
         /\ orig[t] \in Copies
         /\ WInv(t, Current(t), orig[t])
         /\ Frame(t, split, split)
  BY DEF IInv, TypeOK, Typed, Current, Work, WInv, Copies, Frame

LEMMA ChangedTrans ==
  ASSUME IInv, NEW t \in Trans, NEW tr \in TransRecord,
         tr.splits = trans[t].splits, tr.editlevel = trans[t].editlevel, tr.live = trans[t].live,
         NEW w, w.tr = tr, w.sp = split, w.ac \in [Account -> AccountRecord],
         \A a \in Account : w.ac[a].splits = acct[a].splits
  PROVE  Edited(t, w)
<1>1. Typed(w) /\ Frame(t, split, w.sp)
  BY CurrentFields DEF Typed
<1>2. Agree(w.sp, w.ac) /\ Owned(t, w.tr, w.sp)
  BY DEF IInv, Agree, Owned
<1>3. \A copy \in Copies : Front(t, trans[t], split, copy) => Front(t, w.tr, w.sp, copy)
  BY DEF Front
<1> QED
  BY <1>1, <1>2, <1>3 DEF Edited

\* From tr1 and sp1 to tr2 and sp2, splits of t are changed and become dirty
\* and one may be made and appended.
Revised(t, tr1, sp1, tr2, sp2) ==
  /\ tr2.live = tr1.live
  /\ tr2.read_only => tr1.read_only \/ "read_only" \in Calls
  /\ \/ tr2.splits = tr1.splits
     \/ /\ tr1.live
        /\ \E b \in Split : /\ ~sp1[b].live
                            /\ tr2.splits = Append(tr1.splits, b)
                            /\ sp2[b].dirty /\ sp2[b].parent = t
  /\ \A s \in Split :
       \/ sp2[s] = sp1[s]
       \/ /\ sp2[s].dirty /\ sp2[s].parent = t
          /\ s \in Elems(tr2.splits)
          /\ s \in Elems(tr1.splits) => sp2[s].orig_acc = sp1[s].orig_acc

\* A setter leaves the accounts' lists, and each cached balance as it is, with
\* its flag, or as it should be.
Counted(w) ==
  \A a \in Account :
    /\ w.ac[a].splits = acct[a].splits /\ w.ac[a].editlevel = acct[a].editlevel
    /\ \/ w.ca[a] = RunningBalances(w.sp, w.ac[a].splits)
       \/ /\ w.ca[a] = cached[a]
          /\ acct[a].balance_dirty => w.ac[a].balance_dirty

LEMMA MarkCounts ==
  ASSUME IInv, NEW A, NEW w, w.ac = acct \/ w.ac = Mark(acct, A), w.ca = cached
  PROVE  Counted(w)
<1>1. acct \in [Account -> AccountRecord]
  BY DEF IInv, TypeOK
<1>2. ASSUME NEW a \in Account
      PROVE  /\ w.ac[a].splits = acct[a].splits /\ w.ac[a].editlevel = acct[a].editlevel
             /\ acct[a].balance_dirty => w.ac[a].balance_dirty
  <2>1. \/ w.ac[a] = acct[a]
        \/ w.ac[a] = [acct[a] EXCEPT !.sort_dirty = TRUE, !.balance_dirty = TRUE]
    BY DEF Mark
  <2>2. acct[a] \in AccountRecord
    BY <1>1
  <2> QED
    BY <2>1, <2>2 DEF AccountRecord
<1> QED
  BY <1>2 DEF Counted

LEMMA RecomputeCounts ==
  ASSUME NEW w, w.ac \in [Account -> AccountRecord], Counted(w), NEW A
  PROVE  Counted(Recompute(w, A))
<1> DEFINE v == Recompute(w, A)
           due == {a \in A \cap Account : w.ac[a].editlevel = 0 /\ w.ac[a].balance_dirty}
<1>1. /\ v.sp = w.sp
      /\ v.ac = [a \in Account |->
                   IF a \in due THEN [w.ac[a] EXCEPT !.balance_dirty = FALSE] ELSE w.ac[a]]
      /\ v.ca = [a \in Account |->
                   IF a \in due THEN RunningBalances(w.sp, w.ac[a].splits) ELSE w.ca[a]]
  BY DEF Recompute, Work
<1> HIDE DEF v, due
<1>2. ASSUME NEW a \in Account
      PROVE  /\ v.ac[a].splits = w.ac[a].splits /\ v.ac[a].editlevel = w.ac[a].editlevel
             /\ \/ v.ca[a] = RunningBalances(w.sp, w.ac[a].splits)
                \/ v.ca[a] = w.ca[a] /\ v.ac[a] = w.ac[a]
  BY <1>1 DEF AccountRecord
<1> QED
  BY <1>1, <1>2 DEF Counted, v

\* A setter, in an edit of the caller or in one of its own, makes such a change.
Change(t) ==
  \E w : /\ Edit(t, w)
         /\ Edited(t, w)
         /\ Revised(t, trans[t], split, w.tr, w.sp)
         /\ Counted(w)
         /\ trans[t].live \/ Elems(trans[t].splits) # {}
         /\ w.tr.destroying => trans[t].destroying \/ "destroy" \in Calls

LEMMA EditTransChanges ==
  ASSUME IInv, NEW t \in Trans, trans[t].live, NEW tr \in TransRecord,
         tr.splits = trans[t].splits, tr.editlevel = trans[t].editlevel, tr.live = trans[t].live,
         tr.read_only => trans[t].read_only \/ "read_only" \in Calls,
         tr.destroying => trans[t].destroying \/ "destroy" \in Calls,
         NEW A, EditTrans(t, tr, Mark(acct, A)) \/ EditTrans(t, tr, acct)
  PROVE  Change(t)
<1>1. PICK ac \in {acct, Mark(acct, A)} : Edit(t, Work(tr, split, ac, cached))
  BY DEF EditTrans
<1> DEFINE w == Work(tr, split, ac, cached)
<1>2. w.tr = tr /\ w.sp = split /\ w.ac = ac /\ w.ca = cached /\ Edit(t, w)
  BY <1>1 DEF Work
<1>3. /\ ac \in [Account -> AccountRecord]
      /\ \A a \in Account : ac[a].splits = acct[a].splits
  BY <1>1, CurrentFields, MarkKeepsLists
<1> HIDE DEF w
<1>4. Edited(t, w)
  BY <1>2, <1>3, ChangedTrans
<1>5. Revised(t, trans[t], split, w.tr, w.sp) /\ Counted(w)
  BY <1>1, <1>2, MarkCounts DEF Revised
<1> QED
  BY <1>2, <1>4, <1>5 DEF Change

\* A setter on a held split keeps where the split was committed.
SameCommitted(s, f) ==
  /\ f \in SplitRecord
  /\ f.live = split[s].live
  /\ f.parent = split[s].parent
  /\ f.orig_parent = split[s].orig_parent
  /\ f.orig_acc = split[s].orig_acc

LEMMA HeldSplit ==
  ASSUME IInv, NEW s \in Split, Held(s)
  PROVE  /\ split[s].parent \in Trans /\ split[s].live
         /\ s \in Elems(trans[split[s].parent].splits)
  BY CurrentFields DEF Held, StillHas

LEMMA ChangedSplit ==
  ASSUME IInv, NEW s \in Split, Held(s), NEW f, SameCommitted(s, f), f.dirty,
         NEW w, w.tr = trans[split[s].parent],
         w.sp = [split EXCEPT ![s] = f],
         w.ac \in [Account -> AccountRecord],
         \A a \in Account : w.ac[a].splits = acct[a].splits
  PROVE  Edited(split[s].parent, w)
<1> DEFINE t == split[s].parent
<1>1. t \in Trans /\ split[s].live /\ s \in Elems(trans[t].splits)
  BY HeldSplit
<1>2. /\ trans[t] \in TransRecord /\ split \in [Split -> SplitRecord]
      /\ Agree(split, acct) /\ Owned(t, trans[t], split)
  BY <1>1 DEF IInv, TypeOK
<1>3. \A r \in Split : r # s => w.sp[r] = split[r]
  BY <1>2
<1>4. w.sp[s] = f /\ w.sp \in [Split -> SplitRecord]
  BY <1>2 DEF SameCommitted
<1>5. Elems(trans[t].splits) \subseteq Split
      /\ \A i \in DOMAIN trans[t].splits : trans[t].splits[i] \in Split
  <2>1. trans[t].splits \in Seq(Split)
    BY <1>2 DEF TransRecord
  <2> QED
    BY <2>1, ElemsOfList
<1> HIDE DEF t
<1>6. Typed(w)
  BY <1>2, <1>4 DEF Typed, t
<1>7. Agree(w.sp, w.ac)
  BY <1>2, <1>3, <1>4 DEF Agree, SameCommitted
<1>8. Owned(t, w.tr, w.sp)
  BY <1>2, <1>3, <1>4, <1>5 DEF Owned, SameCommitted, t
<1>9. Frame(t, split, w.sp)
  BY <1>3 DEF Frame, t
<1>10. \A copy \in Copies : Front(t, trans[t], split, copy) => Front(t, w.tr, w.sp, copy)
  <2>1. \A r \in Split : w.sp[r].orig_parent = split[r].orig_parent
                       /\ w.sp[r].orig_acc = split[r].orig_acc
    BY <1>3, <1>4 DEF SameCommitted
  <2>2. w.tr = trans[t]
    BY DEF t
  <2> QED
    BY <1>5, <2>1, <2>2 DEF Front
<1> QED
  BY <1>6, <1>7, <1>8, <1>9, <1>10 DEF Edited, t

\* A setter that leaves the fields f in the held split s.
LEMMA SplitFieldsChange ==
  ASSUME IInv, NEW s \in Split, Held(s),
         NEW f, SameCommitted(s, f), f.dirty,
         NEW w, w.tr = trans[split[s].parent],
         w.sp = [split EXCEPT ![s] = f],
         w.ac \in [Account -> AccountRecord], Counted(w),
         Edit(split[s].parent, w)
  PROVE  split[s].parent \in Trans /\ Change(split[s].parent)
<1> DEFINE t == split[s].parent
<1>1. t \in Trans /\ s \in Elems(trans[t].splits)
  BY HeldSplit
<1>2. \A a \in Account : w.ac[a].splits = acct[a].splits
  BY DEF Counted
<1>3. Edited(t, w)
  BY <1>2, ChangedSplit
<1>4. split \in [Split -> SplitRecord]
  BY DEF IInv, TypeOK
<1>5. Revised(t, trans[t], split, w.tr, w.sp)
  <2>1. ASSUME NEW r \in Split
        PROVE  \/ w.sp[r] = split[r]
               \/ /\ w.sp[r].dirty /\ w.sp[r].parent = t
                  /\ r \in Elems(w.tr.splits)
                  /\ r \in Elems(trans[t].splits) => w.sp[r].orig_acc = split[r].orig_acc
    BY <1>1, <1>4 DEF SameCommitted
  <2> QED
    BY <2>1 DEF Revised
<1> HIDE DEF t
<1> QED
  BY <1>1, <1>3, <1>5 DEF Change, t

LEMMA EditSplitChanges ==
  ASSUME IInv, NEW s \in Split, Held(s), NEW f, SameCommitted(s, f),
         NEW A, EditSplit(s, f, A)
  PROVE  split[s].parent \in Trans /\ Change(split[s].parent)
<1> DEFINE t == split[s].parent
           g == [f EXCEPT !.dirty = TRUE]
           w == Work(trans[t], [split EXCEPT ![s] = g], Mark(acct, A), cached)
<1>1. SameCommitted(s, g) /\ g.dirty
  BY DEF SameCommitted, SplitRecord
<1>2. Edit(t, w)
  BY DEF EditSplit
<1> HIDE DEF g
<1>3. /\ w.tr = trans[t] /\ w.sp = [split EXCEPT ![s] = g] /\ w.ac = Mark(acct, A)
      /\ w.ca = cached
  BY DEF Work
<1>4. w.ac \in [Account -> AccountRecord] /\ Counted(w)
  <2>1. acct \in [Account -> AccountRecord]
    BY DEF IInv, TypeOK
  <2> HIDE DEF w
  <2> QED
    BY <1>3, <2>1, MarkKeepsLists, MarkCounts
<1> HIDE DEF w
<1> QED
  BY <1>1, <1>2, <1>3, <1>4, SplitFieldsChange

\* An action that changes only the flags of accounts.
LEMMA AccountFlagsInv ==
  ASSUME IInv, acct' \in [Account -> AccountRecord],
         \A a \in Account : acct'[a].splits = acct[a].splits,
         UNCHANGED <<trans, orig, split>>
  PROVE  IInv'
<1>1. TypeOK'
  BY DEF IInv, TypeOK
<1>2. Agree(split, acct)'
  BY DEF IInv, Agree
<1>3. \A t \in Trans : /\ Owned(t, trans[t], split)'
                      /\ Front(t, trans[t], split, orig[t])'
                      /\ AtRest(t, trans[t], split, orig[t])'
  BY DEF IInv, Owned, Front, AtRest
<1> QED
  BY <1>1, <1>2, <1>3 DEF IInv

LEMMA SortSplitsType ==
  ASSUME NEW rec \in AccountRecord
  PROVE  SortSplits(rec) \in AccountRecord /\ SortSplits(rec).splits = rec.splits
  BY DEF SortSplits, AccountRecord

LEMMA SetLevelInv ==
  ASSUME IInv, NEW t \in Trans, NEW n \in Nat \ {0}, trans[t].live, SetLevel(t, n)
  PROVE  IInv'
<1> DEFINE tr == [trans[t] EXCEPT !.editlevel = n]
           w == WithTrans(Current(t), tr)
<1>1. tr \in TransRecord /\ tr.splits = trans[t].splits /\ tr.editlevel = n
      /\ tr.live = trans[t].live
  BY CurrentFields DEF TransRecord
<1>2. Store(t, w, orig[t])
  BY DEF SetLevel
<1> HIDE DEF tr
<1>3. WInv(t, w, orig[t]) /\ w.tr = tr /\ w.sp = split
  BY <1>1, CurrentFields, WithTransInv
<1> HIDE DEF w
<1>4. Frame(t, split, w.sp) /\ AtRest(t, w.tr, w.sp, orig[t])
  BY <1>1, <1>3 DEF Frame, AtRest
<1> QED
  BY <1>2, <1>3, <1>4, CurrentFields, StoreInv

LEMMA MallocInv ==
  ASSUME IInv, NEW t \in Trans, MallocTransaction(t)
  PROVE  IInv'
<1> DEFINE new == [FreedTrans EXCEPT !.live = TRUE, !.dirty = TRUE]
<1>1. new \in TransRecord /\ new.splits = FreedTrans.splits /\ new.live
  BY FreedTypes DEF TransRecord
<1>2. FreedTrans.splits = <<>> /\ Elems(<<>>) = {}
  BY DEF FreedTrans, Elems
<1>3. trans' = [trans EXCEPT ![t] = new] /\ UNCHANGED <<orig, split, acct>> /\ ~trans[t].live
  BY DEF MallocTransaction
<1> HIDE DEF new
<1>4. TypeOK'
  BY <1>1, <1>3 DEF IInv, TypeOK
<1>5. Agree(split, acct)'
  BY <1>3 DEF IInv, Agree
<1>6. orig[t] = NoCopy
  BY <1>3 DEF IInv, AtRest
<1>7. ASSUME NEW u \in Trans
      PROVE  /\ Owned(u, trans[u], split)'
             /\ Front(u, trans[u], split, orig[u])'
             /\ AtRest(u, trans[u], split, orig[u])'
  <2>1. CASE u = t
    <3>1. trans'[u] = new /\ orig'[u] = NoCopy
      BY <1>3, <1>6, <2>1 DEF IInv, TypeOK
    <3> QED
      BY <1>1, <1>2, <3>1 DEF Owned, Front, AtRest
  <2>2. CASE u # t
    <3>1. trans'[u] = trans[u]
      BY <1>3, <2>2 DEF IInv, TypeOK
    <3> QED
      BY <1>3, <3>1 DEF IInv, Owned, Front, AtRest
  <2> QED
    BY <2>1, <2>2
<1> QED
  BY <1>4, <1>5, <1>7 DEF IInv

LEMMA BeginEditInv ==
  ASSUME IInv, NEW t \in Trans, TransBeginEdit(t)
  PROVE  IInv'
<1>1. trans[t].editlevel \in Nat /\ trans[t].live
  BY CurrentFields DEF TransRecord, TransBeginEdit
<1>2. CASE trans[t].editlevel = 0
  <2> DEFINE b == trans[t].dirty \/ ~HasBackend
             tr == [trans[t] EXCEPT !.editlevel = 1, !.dirty = b]
             w == Begun(Current(t))
  <2>1. Store(t, w, Dupe(t))
    BY <1>2 DEF TransBeginEdit
  <2>2. b \in BOOLEAN /\ w = WithTrans(Current(t), tr)
    BY CurrentFields DEF Begun
  <2> HIDE DEF b
  <2>3. tr \in TransRecord /\ tr.splits = trans[t].splits /\ tr.editlevel = 1 /\ tr.live
    BY <1>1, <2>2, CurrentFields DEF TransRecord
  <2>4. Dupe(t) \in Copies /\ Front(t, trans[t], split, Dupe(t))
    BY <1>2, DupeInv
  <2>5. WInv(t, Current(t), Dupe(t))
    BY <2>4, CurrentFields DEF WInv
  <2> HIDE DEF tr, w
  <2>6. WInv(t, w, Dupe(t)) /\ w.tr = tr /\ w.sp = split
    BY <2>2, <2>3, <2>5, CurrentFields, WithTransInv
  <2>7. Frame(t, split, w.sp)
    BY <2>6 DEF Frame
  <2>8. w.tr.live /\ w.tr.editlevel # 0
    BY <1>1, <2>3, <2>6
  <2>9. AtRest(t, w.tr, w.sp, Dupe(t))
    BY <2>8 DEF AtRest
  <2> QED
    BY <2>1, <2>4, <2>6, <2>7, <2>9, StoreInv
<1>3. CASE trans[t].editlevel # 0
  <2>1. SetLevel(t, trans[t].editlevel + 1) /\ trans[t].editlevel + 1 \in Nat \ {0}
    BY <1>1, <1>3 DEF TransBeginEdit
  <2> QED
    BY <1>1, <2>1, SetLevelInv
<1> QED
  BY <1>2, <1>3

\* The working state after xaccSplitSetParent of a new split.
WithSplit(s, t) ==
  Work([trans[t] EXCEPT !.splits = Append(@, s)], [split EXCEPT ![s] = NewSplit(t)],
       acct, cached)

LEMMA AddedSplit ==
  ASSUME IInv, NEW s \in Split, NEW t \in Trans, ~split[s].live
  PROVE  Edited(t, WithSplit(s, t))
<1> DEFINE list == trans[t].splits
           q == Append(list, s)
           tr == [trans[t] EXCEPT !.splits = q]
           w == WithSplit(s, t)
<1>1. ~split[s].live
  OBVIOUS
<1>2. list \in Seq(Split) /\ Elems(list) \subseteq Split
      /\ \A i \in DOMAIN list : list[i] \in Elems(list)
  BY CurrentFields, ElemsOfList DEF TransRecord
<1>3. q \in Seq(Split) /\ Elems(q) = Elems(list) \cup {s}
      /\ Len(q) = Len(list) + 1 /\ Len(list) \in Nat
      /\ DOMAIN list = 1..Len(list) /\ DOMAIN q = 1..(Len(list) + 1)
      /\ (\A i \in 1..Len(list) : q[i] = list[i]) /\ q[Len(list) + 1] = s
  BY <1>2, AppendElems
<1> HIDE DEF q
<1>4. tr \in TransRecord /\ tr.splits = q
      /\ tr.editlevel = trans[t].editlevel /\ tr.live = trans[t].live
  BY <1>3, CurrentFields, ReplaceList
<1>5. w.tr = tr /\ w.sp = [split EXCEPT ![s] = NewSplit(t)] /\ w.ac = acct
  BY DEF WithSplit, Work, q
<1> HIDE DEF tr, w, list
<1>6. w.sp \in [Split -> SplitRecord] /\ w.sp[s] = NewSplit(t)
      /\ \A r \in Split : r # s => w.sp[r] = split[r]
  BY <1>5, CurrentFields, NewSplitType
<1>7. Owned(t, trans[t], split) /\ Agree(split, acct)
  BY DEF IInv
<1>8. s \notin Elems(list)
  BY <1>1, <1>7 DEF Owned, list
<1>9. Typed(w) /\ Frame(t, split, w.sp)
  BY <1>1, <1>4, <1>5, <1>6, CurrentFields DEF Typed, Frame
<1>10. Agree(w.sp, w.ac)
  BY <1>1, <1>5, <1>6, <1>7, NewSplitType, NullsAreNotObjects DEF Agree
<1>11. Owned(t, w.tr, w.sp)
  BY <1>2, <1>3, <1>4, <1>5, <1>6, <1>7, <1>8, NewSplitType DEF Owned, list
<1>12. ASSUME NEW copy \in Copies, Front(t, trans[t], split, copy)
       PROVE  Front(t, w.tr, w.sp, copy)
  <2> SUFFICES ASSUME copy # NoCopy PROVE Front(t, w.tr, w.sp, copy)
    BY DEF Front
  <2>1. Len(copy.splits) \in Nat
    BY LenProperties DEF Copies, CopyRecord
  <2>2. Len(copy.splits) <= Len(list)
        /\ \A i \in DOMAIN list :
             IF i <= Len(copy.splits)
             THEN copy.splits[i].of = list[i] /\ split[list[i]].orig_parent = t
             ELSE split[list[i]].orig_acc = NoAcc /\ split[list[i]].orig_parent = NoTrans
    BY <1>12 DEF Front, list
  <2>3. Len(copy.splits) <= Len(q)
    BY <1>3, <2>1, <2>2
  <2>4. ASSUME NEW i \in DOMAIN q
        PROVE  IF i <= Len(copy.splits)
               THEN copy.splits[i].of = q[i] /\ w.sp[q[i]].orig_parent = t
               ELSE w.sp[q[i]].orig_acc = NoAcc /\ w.sp[q[i]].orig_parent = NoTrans
    <3>1. CASE i \in DOMAIN list
      <4>1. q[i] = list[i] /\ w.sp[q[i]] = split[list[i]]
        BY <1>2, <1>3, <1>6, <1>8, <3>1
      <4> QED
        BY <2>2, <3>1, <4>1
    <3>2. CASE i \notin DOMAIN list
      <4>1. i = Len(list) + 1
        BY <1>3, <3>2
      <4> QED
        BY <1>3, <1>6, <2>1, <2>2, <4>1, NewSplitType
    <3> QED
      BY <3>1, <3>2
  <2> QED
    BY <1>4, <1>5, <2>3, <2>4 DEF Front
<1>13. Edited(t, w)
  BY <1>4, <1>5, <1>9, <1>10, <1>11, <1>12 DEF Edited
<1> QED
  BY <1>13 DEF w

LEMMA SetParentChanges ==
  ASSUME IInv, NEW s \in Split, NEW t \in Trans, SplitSetParent(s, t)
  PROVE  Change(t)
<1> DEFINE w == WithSplit(s, t)
<1>1. Edit(t, w) /\ ~split[s].live /\ trans[t].live
  BY DEF SplitSetParent, WithSplit
<1>2. Edited(t, w)
  BY <1>1, AddedSplit
<1>3. /\ w.tr = [trans[t] EXCEPT !.splits = Append(@, s)]
      /\ w.sp = [split EXCEPT ![s] = NewSplit(t)]
      /\ w.ac = acct /\ w.ca = cached
      /\ trans[t] \in TransRecord /\ split \in [Split -> SplitRecord]
  BY CurrentFields DEF WithSplit, Work
<1> HIDE DEF w
<1>4. /\ w.tr.splits = Append(trans[t].splits, s) /\ w.tr.live = trans[t].live
      /\ w.tr.read_only = trans[t].read_only /\ w.tr.destroying = trans[t].destroying
  BY <1>3 DEF TransRecord
<1>5. w.sp[s] = NewSplit(t) /\ \A r \in Split : r # s => w.sp[r] = split[r]
  BY <1>3
<1>6. NewSplit(t).dirty /\ NewSplit(t).parent = t
  BY NewSplitType
<1>7. trans[t].splits \in Seq(Split) /\ Owned(t, trans[t], split)
  BY <1>3 DEF TransRecord, IInv
<1>8. s \in Elems(w.tr.splits) /\ s \notin Elems(trans[t].splits)
  BY <1>1, <1>4, <1>7, AppendElems DEF Owned
<1>9. Revised(t, trans[t], split, w.tr, w.sp)
  <2>1. ASSUME NEW r \in Split
        PROVE  \/ w.sp[r] = split[r]
               \/ /\ w.sp[r].dirty /\ w.sp[r].parent = t
                  /\ r \in Elems(w.tr.splits)
                  /\ r \in Elems(trans[t].splits) => w.sp[r].orig_acc = split[r].orig_acc
    BY <1>5, <1>6, <1>8
  <2> QED
    BY <1>1, <1>4, <1>5, <1>6, <2>1 DEF Revised
<1>10. Counted(w)
  BY <1>3, MarkCounts
<1> QED
  BY <1>1, <1>2, <1>4, <1>9, <1>10 DEF Change

-----------------------------------------------------------------------------
(* The theorems.                                                           *)

LEMMA InitIInv == Init => IInv
<1> SUFFICES ASSUME Init PROVE IInv
  OBVIOUS
<1>1. TypeOK
  <2>1. orig \in [Trans -> CopyRecord \cup {NoCopy}]
    BY DEF Init
  <2>2. acct \in [Account -> AccountRecord]
    BY DEF Init, AccountRecord
  <2> QED
    BY <2>1, <2>2, FreedTypes DEF Init, TypeOK
<1>2. Agree(split, acct)
  BY FreedTypes DEF Init, Agree
<1>3. FreedTrans.splits = <<>> /\ Elems(<<>>) = {}
  BY DEF FreedTrans, Elems
<1>4. \A t \in Trans : /\ Owned(t, trans[t], split)
                      /\ Front(t, trans[t], split, orig[t])
                      /\ AtRest(t, trans[t], split, orig[t])
  BY <1>3 DEF Init, Owned, Front, AtRest
<1> QED
  BY <1>1, <1>2, <1>4 DEF IInv

\* Every call on a transaction is one of five steps.
LEMMA TransCallCases ==
  ASSUME IInv, NEW t \in Trans, TransCall(t)
  PROVE  \/ MallocTransaction(t)
         \/ TransBeginEdit(t)
         \/ TransCommitEdit(t)
         \/ TransRollbackEdit(t)
         \/ Change(t)
<1>1. trans[t] \in TransRecord
  BY CurrentFields
<1>2. CASE TransDestroy(t)
  <2> DEFINE tr == [trans[t] EXCEPT !.destroying = TRUE]
  <2>1. EditTrans(t, tr, acct) /\ "destroy" \in Calls /\ trans[t].live
    BY <1>2 DEF TransDestroy, May
  <2>2. tr \in TransRecord /\ tr.splits = trans[t].splits
        /\ tr.editlevel = trans[t].editlevel /\ tr.live = trans[t].live
        /\ tr.read_only = trans[t].read_only
    BY <1>1 DEF TransRecord
  <2> HIDE DEF tr
  <2> QED
    BY <2>1, <2>2, EditTransChanges
<1>3. ASSUME NEW d \in Descrs, TransSetDescription(t, d) PROVE Change(t)
  <2> DEFINE tr == [trans[t] EXCEPT !.descr = d, !.dirty = TRUE]
             A == {split[s].acc : s \in StillHas(t, Current(t))}
  <2>1. EditTrans(t, tr, Mark(acct, A)) /\ trans[t].live
    BY <1>3 DEF TransSetDescription
  <2>2. tr \in TransRecord /\ tr.splits = trans[t].splits
        /\ tr.editlevel = trans[t].editlevel /\ tr.live = trans[t].live
        /\ tr.read_only = trans[t].read_only /\ tr.destroying = trans[t].destroying
    BY <1>1 DEF TransRecord
  <2> HIDE DEF tr, A
  <2> QED
    BY <2>1, <2>2, EditTransChanges
<1>4. ASSUME NEW b \in BOOLEAN, TransSetReadOnly(t, b) PROVE Change(t)
  <2> DEFINE tr == [trans[t] EXCEPT !.read_only = b, !.dirty = TRUE]
  <2>1. EditTrans(t, tr, acct) /\ trans[t].live /\ "read_only" \in Calls
    BY <1>4 DEF TransSetReadOnly, May
  <2>2. tr \in TransRecord /\ tr.splits = trans[t].splits
        /\ tr.editlevel = trans[t].editlevel /\ tr.live = trans[t].live
        /\ tr.destroying = trans[t].destroying
    BY <1>1 DEF TransRecord
  <2> HIDE DEF tr
  <2> QED
    BY <2>1, <2>2, EditTransChanges
<1> QED
  BY <1>2, <1>3, <1>4 DEF TransCall

\* Every call on a split changes a transaction, or only begins an edit.
LEMMA SplitCallCases ==
  ASSUME IInv, NEW s \in Split, SplitCall(s)
  PROVE  \E t \in Trans : TransBeginEdit(t) \/ Change(t)
<1> DEFINE Edits == /\ split[s].parent \in Trans
                    /\ TransBeginEdit(split[s].parent) \/ Change(split[s].parent)
<1>1. split[s] \in SplitRecord
  BY DEF IInv, TypeOK
<1>2. ASSUME NEW t \in Trans, SplitSetParent(s, t) PROVE Change(t)
  BY <1>2, SetParentChanges
<1>3. ASSUME NEW a \in Account, SplitSetAccount(s, a) PROVE Edits
  <2> DEFINE f == [split[s] EXCEPT !.acc = a]
  <2>1. Held(s) /\ EditSplit(s, f, {})
    BY <1>3 DEF SplitSetAccount
  <2>2. SameCommitted(s, f)
    BY <1>1 DEF SameCommitted, SplitRecord
  <2> HIDE DEF f
  <2> QED
    BY <2>1, <2>2, EditSplitChanges
<1>4. ASSUME NEW v \in Values, SplitSetAmount(s, v) PROVE Edits
  <2> DEFINE f == [split[s] EXCEPT !.amount = v]
  <2>1. Held(s) /\ EditSplit(s, f, {split[s].acc})
    BY <1>4 DEF SplitSetAmount
  <2>2. SameCommitted(s, f)
    BY <1>1, AmountsAreIntegers DEF SameCommitted, SplitRecord
  <2> HIDE DEF f
  <2> QED
    BY <2>1, <2>2, EditSplitChanges
<1>5. ASSUME NEW v \in Values, SplitSetValue(s, v) PROVE Edits
  <2> DEFINE f == [split[s] EXCEPT !.value = v]
  <2>1. Held(s) /\ EditSplit(s, f, {split[s].acc})
    BY <1>5 DEF SplitSetValue
  <2>2. SameCommitted(s, f)
    BY <1>1, AmountsAreIntegers DEF SameCommitted, SplitRecord
  <2> HIDE DEF f
  <2> QED
    BY <2>1, <2>2, EditSplitChanges
<1>6. ASSUME NEW v \in Values, SplitSetBaseValue(s, v) PROVE Edits
  <2> DEFINE f == [split[s] EXCEPT !.value = v, !.amount = v]
  <2>1. Held(s) /\ (TransBeginEdit(split[s].parent) \/ EditSplit(s, f, {split[s].acc}))
    BY <1>6 DEF SplitSetBaseValue
  <2>2. SameCommitted(s, f)
    BY <1>1, AmountsAreIntegers DEF SameCommitted, SplitRecord
  <2>3. split[s].parent \in Trans
    BY <2>1, HeldSplit
  <2> HIDE DEF f
  <2> QED
    BY <2>1, <2>2, <2>3, EditSplitChanges
<1>7. ASSUME NEW r \in Flags, SplitSetReconcile(s, r) PROVE Edits
  <2> DEFINE t == split[s].parent
             f == [split[s] EXCEPT !.reconciled = r, !.dirty = TRUE]
             w == Work(trans[t], [split EXCEPT ![s] = f],
                       Mark(acct, {split[s].acc}), cached)
             A == {split[s].acc}
             v == Recompute(w, A)
  <2>1. Held(s) /\ Edit(t, v)
    BY <1>7 DEF SplitSetReconcile
  <2>2. SameCommitted(s, f) /\ f.dirty
    BY <1>1, FlagsAreKnown DEF SameCommitted, SplitRecord, RecFlags
  <2> HIDE DEF f
  <2>4. acct \in [Account -> AccountRecord]
    BY DEF IInv, TypeOK
  <2>5. /\ w.tr = trans[t] /\ w.sp = [split EXCEPT ![s] = f]
        /\ w.ac = Mark(acct, A) /\ w.ca = cached
    BY DEF Work
  <2> HIDE DEF w, A
  <2>6. w.ac \in [Account -> AccountRecord] /\ Counted(w)
    BY <2>4, <2>5, MarkKeepsLists, MarkCounts
  <2>7. /\ v.tr = trans[t] /\ v.sp = [split EXCEPT ![s] = f]
        /\ v.ac \in [Account -> AccountRecord] /\ Counted(v)
    BY <2>5, <2>6, RecomputeKeepsLists, RecomputeCounts
  <2> HIDE DEF v
  <2> QED
    BY <2>1, <2>2, <2>7, SplitFieldsChange
<1>8. ASSUME SplitDestroy(s) PROVE Edits
  <2> DEFINE f == [split[s] EXCEPT !.destroying = TRUE]
  <2>1. Held(s) /\ EditSplit(s, f, {})
    BY <1>8 DEF SplitDestroy
  <2>2. SameCommitted(s, f)
    BY <1>1 DEF SameCommitted, SplitRecord
  <2> HIDE DEF f
  <2> QED
    BY <2>1, <2>2, EditSplitChanges
<1> HIDE DEF Edits
<1>9. SplitCall(s) => Edits \/ \E t \in Trans : SplitSetParent(s, t)
  BY <1>3, <1>4, <1>5, <1>6, <1>7, <1>8 DEF SplitCall
<1> QED
  BY <1>2, <1>9 DEF Edits

LEMMA TransCallInv ==
  ASSUME ~SplitRejects, IInv, NEW t \in Trans, TransCall(t)
  PROVE  IInv'
<1>1. CASE MallocTransaction(t)
  BY <1>1, MallocInv
<1>2. CASE TransBeginEdit(t)
  BY <1>2, BeginEditInv
<1>3. CASE TransCommitEdit(t)
  <2>1. trans[t].editlevel \in Nat \ {0} /\ trans[t].live
    BY <1>3, CurrentFields DEF TransCommitEdit, IsOpen, TransRecord
  <2>2. CASE trans[t].editlevel > 1
    <3>1. SetLevel(t, trans[t].editlevel - 1) /\ trans[t].editlevel - 1 \in Nat \ {0}
      BY <1>3, <2>1, <2>2 DEF TransCommitEdit
    <3> QED
      BY <2>1, <3>1, SetLevelInv
  <2>3. CASE ~(trans[t].editlevel > 1)
    <3>1. CommitEdit(t, Current(t), orig[t])
      BY <1>3, <2>3 DEF TransCommitEdit
    <3> QED
      BY <2>1, <3>1, CurrentFields, CommitEditInv
  <2> QED
    BY <2>2, <2>3
<1>4. CASE TransRollbackEdit(t)
  <2>1. RollbackEdit(t, Current(t), orig[t]) /\ trans[t].editlevel \in Nat \ {0}
    BY <1>4, CurrentFields DEF TransRollbackEdit, IsOpen, TransRecord
  <2> QED
    BY <2>1, CurrentFields, RollbackEditInv
<1>5. CASE Change(t)
  BY <1>5, EditInv DEF Change
<1> QED
  BY <1>1, <1>2, <1>3, <1>4, <1>5, TransCallCases

LEMMA SplitCallInv ==
  ASSUME ~SplitRejects, IInv, NEW s \in Split, SplitCall(s)
  PROVE  IInv'
BY SplitCallCases, BeginEditInv, EditInv DEF Change

LEMMA AccountCallInv ==
  ASSUME IInv, NEW a \in Account, AccountCall(a)
  PROVE  IInv'
<1>1. acct \in [Account -> AccountRecord] /\ acct[a] \in AccountRecord
  BY DEF IInv, TypeOK
<1>2. CASE AccountBeginEdit(a)
  <2>1. /\ acct' = [acct EXCEPT ![a].editlevel = @ + 1]
        /\ UNCHANGED <<trans, orig, split>>
    BY <1>2 DEF AccountBeginEdit
  <2>2. acct' \in [Account -> AccountRecord]
        /\ \A b \in Account : acct'[b].splits = acct[b].splits
    BY <1>1, <2>1 DEF AccountRecord
  <2> QED
    BY <2>1, <2>2, AccountFlagsInv
<1>3. CASE AccountCommitEdit(a)
  <2> DEFINE lower == [acct[a] EXCEPT !.editlevel = @ - 1]
             ac == [acct EXCEPT ![a] = SortSplits(lower)]
             w == Work(0, split, ac, cached)
  <2>1. acct' = Recompute(w, {a}).ac /\ UNCHANGED <<trans, orig, split>>
    BY <1>3 DEF AccountCommitEdit
  <2>2. lower \in AccountRecord /\ lower.splits = acct[a].splits
    <3>1. acct[a].editlevel - 1 \in Nat
      BY <1>1, <1>3 DEF AccountCommitEdit, AccountRecord
    <3> QED
      BY <1>1, <3>1 DEF AccountRecord
  <2>3. w.ac = ac
    BY DEF Work
  <2> HIDE DEF lower, w
  <2>4. /\ ac \in [Account -> AccountRecord]
        /\ \A b \in Account : ac[b].splits = acct[b].splits
    BY <1>1, <2>2, SortSplitsType
  <2> HIDE DEF ac
  <2>5. acct' \in [Account -> AccountRecord]
        /\ \A b \in Account : acct'[b].splits = acct[b].splits
    BY <2>1, <2>3, <2>4, RecomputeKeepsLists, ZenonT(60)
  <2> QED
    BY <2>1, <2>5, AccountFlagsInv
<1>4. CASE AccountGetSplitList(a)
  <2>1. acct' = [acct EXCEPT ![a] = SortSplits(acct[a])] /\ UNCHANGED <<trans, orig, split>>
    BY <1>4 DEF AccountGetSplitList
  <2>2. acct' \in [Account -> AccountRecord]
        /\ \A b \in Account : acct'[b].splits = acct[b].splits
    BY <1>1, <2>1, SortSplitsType
  <2> QED
    BY <2>1, <2>2, AccountFlagsInv
<1> QED
  BY <1>2, <1>3, <1>4 DEF AccountCall

LEMMA StepIInv == ~SplitRejects /\ IInv /\ [Next]_vars => IInv'
<1> SUFFICES ASSUME ~SplitRejects, IInv, [Next]_vars PROVE IInv'
  OBVIOUS
<1>1. CASE UNCHANGED vars
  BY <1>1 DEF vars, IInv, TypeOK, Agree, Owned, Front, AtRest
<1>2. CASE Next
  BY <1>2, TransCallInv, SplitCallInv, AccountCallInv DEF Next
<1> QED
  BY <1>1, <1>2

LEMMA SpecIInv == ~SplitRejects => (Spec => []IInv)
<1> SUFFICES ASSUME ~SplitRejects PROVE Spec => []IInv
  OBVIOUS
<1>1. IInv /\ [Next]_vars => IInv'
  BY StepIInv
<1> QED
  BY InitIInv, <1>1, PTL DEF Spec

\* Every field keeps its C type whatever calls are made, as long as the
\* backend does not refuse a single split (a refused split stays allocated
\* but outside its account, see AccountListsAgree).
THEOREM TypeCorrect == ~SplitRejects => (Spec => []TypeOK)
<1>1. IInv => TypeOK
  BY DEF IInv
<1> QED
  BY <1>1, SpecIInv, PTL

\* However edits of several transactions interleave, are rolled back or are
\* refused, an account's split list is exactly the splits committed to it.
THEOREM ListsAgree == ~SplitRejects => (Spec => []AccountListsAgree)
<1>1. IInv => AccountListsAgree
  BY DEF IInv, Agree, AccountListsAgree
<1> QED
  BY <1>1, SpecIInv, PTL

\* No copy outlives its edit: xaccTransBeginEdit never finds an old one.
THEOREM CopyFreed == ~SplitRejects => (Spec => []CopyOnlyWhileOpen)
<1>1. IInv => CopyOnlyWhileOpen
  <2> SUFFICES ASSUME IInv, NEW t \in Trans, orig[t] # NoCopy
               PROVE  trans[t].live /\ trans[t].editlevel > 0
    BY DEF CopyOnlyWhileOpen
  <2>1. trans[t].editlevel \in Nat
    BY CurrentFields DEF TransRecord
  <2> QED
    BY <2>1 DEF IInv, AtRest
<1> QED
  BY <1>1, SpecIInv, PTL

\* The pairing by position that xaccTransRollbackEdit relies on is sound:
\* the copies are of the splits at the front of the list, and the splits
\* after them were never committed, so freeing them loses nothing.
THEOREM RollbackPairs == ~SplitRejects => (Spec => []FrontIsOriginal)
<1>1. IInv => FrontIsOriginal
  <2> SUFFICES ASSUME IInv, NEW t \in Trans, orig[t] # NoCopy
               PROVE  LET list == trans[t].splits
                          copy == orig[t].splits
                      IN  /\ Len(copy) <= Len(list)
                          /\ \A i \in DOMAIN list :
                               IF i <= Len(copy) THEN copy[i].of = list[i]
                               ELSE /\ split[list[i]].orig_acc = NoAcc
                                    /\ split[list[i]].orig_parent = NoTrans
    BY DEF FrontIsOriginal
  <2> QED
    BY DEF IInv, Front
<1> QED
  BY <1>1, SpecIInv, PTL

-----------------------------------------------------------------------------
(* What a transaction contains, by its splits.                             *)

\* The split has the amount, value and flag of its copy.
SameData(rec, d) ==
  rec.amount = d.amount /\ rec.value = d.value /\ rec.reconciled = d.reconciled

\* Committed content adds up to zero and every entry is in an account.
Sound(content) ==
  Abs!Balanced(content) /\ \A e \in content.entries : e.acc \in Account

\* The list is exactly t's splits, each once; one that is not dirty is as it
\* was committed, and as it was copied.
Whole(t, tr, sp, copy) ==
  /\ \A i, j \in DOMAIN tr.splits : tr.splits[i] = tr.splits[j] => i = j
  /\ \A s \in Split : sp[s].live /\ sp[s].parent = t => s \in Elems(tr.splits)
  /\ \A s \in Elems(tr.splits) :
       sp[s].dirty \/ (sp[s].acc = sp[s].orig_acc /\ ~sp[s].destroying)
  /\ copy # NoCopy =>
       \A i \in DOMAIN copy.splits :
         sp[tr.splits[i]].dirty \/ SameData(sp[tr.splits[i]], copy.splits[i])
  /\ tr.live \/ tr.splits = <<>>
  /\ tr.read_only => "read_only" \in Calls
  /\ copy # NoCopy => (copy.read_only => "read_only" \in Calls)

\* What is committed is sound, and is all there is when no edit is open.
Peace(tr, sp, copy) ==
  /\ tr.editlevel = 0 =>
       \A s \in Elems(tr.splits) : sp[s].acc = sp[s].orig_acc /\ ~sp[s].destroying
  /\ copy # NoCopy \/ tr.editlevel = 0 => Sound(Content(tr, sp, copy))
  /\ tr.destroying => "destroy" \in Calls

JInv ==
  /\ \A t \in Trans : /\ Whole(t, trans[t], split, orig[t])
                     /\ Peace(trans[t], split, orig[t])
  /\ \A s \in Split : split[s].live => split[s].parent \in Trans

\* A call on t changes, frees or makes splits of t only.
Local(t, sp0, sp) ==
  \A s \in Split : sp[s] = sp0[s] \/ ~sp[s].live \/ sp[s].parent = t

\* Destroying a read-only transaction would leave its splits behind.
Destroyable ==
  /\ ~("destroy" \in Calls /\ "read_only" \in Calls)
  /\ ~(RemoteDeletes /\ "read_only" \in Calls)

-----------------------------------------------------------------------------
(* Content and sums.                                                       *)

LEMMA AbsSum ==
  ASSUME NEW f, NEW S
  PROVE  Abs!SumFunctionOnSet(f, S) = SumFunctionOnSet(f, S)
BY DEF Abs!SumFunctionOnSet, Abs!FoldFunctionOnSet, Abs!MapThenFoldSet,
       SumFunctionOnSet, FoldFunctionOnSet, MapThenFoldSet

LEMMA BalancedMeans ==
  ASSUME NEW c
  PROVE  Abs!Balanced(c) <=>
           /\ SumFunctionOnSet([e \in c.entries |-> e.value], c.entries) = 0
           /\ \A e \in c.entries : e.amount = e.value
BY AbsSum DEF Abs!Balanced

LEMMA ListIsFinite ==
  ASSUME NEW list \in Seq(Split)
  PROVE  IsFiniteSet(Elems(list)) /\ Elems(list) \subseteq Split
BY ElemsOfList, SplitsAreFinite, FS_Subset

\* The content of a transaction without a copy adds up to its splits' values.
LEMMA ContentSum ==
  ASSUME NEW tr \in TransRecord, NEW sp \in [Split -> SplitRecord]
  PROVE  LET c == Content(tr, sp, NoCopy)
         IN  SumFunctionOnSet([e \in c.entries |-> e.value], c.entries)
               = SumFunctionOnSet([s \in Split |-> sp[s].value], Elems(tr.splits))
<1> DEFINE own == Elems(tr.splits)
           c == Content(tr, sp, NoCopy)
           f == [s \in Split |-> sp[s].value]
           g == [e \in c.entries |-> e.value]
           b == [s \in own |-> Entry(s, sp[s].acc, sp[s])]
<1>1. IsFiniteSet(own) /\ own \subseteq Split
  BY ListIsFinite DEF TransRecord
<1>2. c.entries = {Entry(s, sp[s].acc, sp[s]) : s \in own}
  BY DEF Content
<1>3. c.entries = {b[s] : s \in own}
  BY <1>2
<1>4. \A s \in own : f[s] \in Int /\ g[b[s]] = f[s]
  <2> TAKE s \in own
  <2>1. s \in Split /\ sp[s] \in SplitRecord
    BY <1>1
  <2>2. b[s] = Entry(s, sp[s].acc, sp[s]) /\ b[s] \in c.entries
    BY <1>3
  <2>3. b[s].value = sp[s].value
    BY <2>2 DEF Entry
  <2> QED
    BY <2>1, <2>2, <2>3 DEF SplitRecord
<1>5. \A x, y \in own : b[x] = b[y] => x = y
  <2> TAKE x, y \in own
  <2>1. b[x].split = x /\ b[y].split = y
    BY DEF Entry
  <2> QED
    BY <2>1
<1> HIDE DEF own, c, f, g, b
<1>6. SumFunctionOnSet(g, {b[s] : s \in own}) = SumFunctionOnSet(f, own)
  BY <1>1, <1>4, <1>5, SumRenamed
<1> QED
  BY <1>3, <1>6 DEF own, c, f, g

-----------------------------------------------------------------------------
(* Lists.                                                                  *)

\* A strictly ordered list of as many elements as S has holds all of S, once.
LEMMA OrderedCovers ==
  ASSUME NEW S \in SUBSET Split, NEW q \in [1..Cardinality(S) -> S],
         \A i, j \in 1..Cardinality(S) : i < j => q[i] # q[j]
  PROVE  /\ Elems(q) = S
         /\ q \in Seq(Split)
         /\ \A i, j \in DOMAIN q : q[i] = q[j] => i = j
<1> DEFINE n == Cardinality(S)
<1>1. IsFiniteSet(S) /\ n \in Nat
  BY SplitsAreFinite, FS_Subset, FS_CardinalityType
<1>2. IsFiniteSet(1..n) /\ Cardinality(1..n) = n
  BY <1>1, FS_Interval
<1>3. \A i, j \in 1..n : q[i] = q[j] => i = j
  <2> SUFFICES ASSUME NEW i \in 1..n, NEW j \in 1..n, q[i] = q[j], i # j PROVE FALSE
    OBVIOUS
  <2>1. i \in Int /\ j \in Int /\ (i < j \/ j < i)
    BY <1>1
  <2> QED
    BY <2>1
<1>4. q \in Injection(1..n, S)
  BY <1>3 DEF Injection, IsInjective
<1>5. q \in Surjection(1..n, S)
  <2> HIDE DEF n
  <2> QED
    BY <1>1, <1>2, <1>4, FS_Injection DEF n
<1>6. Elems(q) = S
  BY <1>5 DEF Surjection, Elems
<1> QED
  BY <1>3, <1>6, OrderedList

\* Positions in a list without repetitions.
LEMMA PositionOf ==
  ASSUME NEW list \in Seq(Split),
         \A i, j \in DOMAIN list : list[i] = list[j] => i = j,
         NEW i \in DOMAIN list
  PROVE  Position(list, list[i]) = i
BY ElemsOfList DEF Position

LEMMA FilteredCovers ==
  ASSUME NEW list \in Seq(Split), NEW S \in SUBSET Elems(list),
         NEW q \in Filtered(list, S)
  PROVE  /\ Elems(q) = S
         /\ q \in Seq(Split)
         /\ \A i, j \in DOMAIN q : q[i] = q[j] => i = j
<1>1. S \in SUBSET Split
  BY ElemsOfList
<1>2. q \in [1..Cardinality(S) -> S]
      /\ \A i, j \in 1..Cardinality(S) :
           i < j => Position(list, q[i]) < Position(list, q[j])
  BY DEF Filtered, Ordered
<1>3. \A s \in S : Position(list, s) \in Int
  BY ElemsOfList, LenProperties
<1>4. \A i, j \in 1..Cardinality(S) : i < j => q[i] # q[j]
  <2> SUFFICES ASSUME NEW i \in 1..Cardinality(S), NEW j \in 1..Cardinality(S),
                      i < j, q[i] = q[j]
               PROVE  FALSE
    OBVIOUS
  <2>1. Position(list, q[i]) \in Int /\ Position(list, q[i]) < Position(list, q[i])
    BY <1>2, <1>3
  <2> QED
    BY <2>1
<1> QED
  BY <1>1, <1>2, <1>4, OrderedCovers

LEMMA DebitsFirstCovers ==
  ASSUME NEW list \in Seq(Split), NEW S \in SUBSET Elems(list), NEW sp,
         NEW q \in DebitsFirst(list, S, sp)
  PROVE  /\ Elems(q) = S
         /\ q \in Seq(Split)
         /\ \A i, j \in DOMAIN q : q[i] = q[j] => i = j
<1> DEFINE rank(s) == IF sp[s].value < 0 THEN 1 ELSE 0
<1>1. S \in SUBSET Split
  BY ElemsOfList
<1>2. q \in [1..Cardinality(S) -> S]
      /\ \A i, j \in 1..Cardinality(S) : i < j =>
           \/ rank(q[i]) < rank(q[j])
           \/ /\ rank(q[i]) = rank(q[j])
              /\ Position(list, q[i]) < Position(list, q[j])
  BY DEF DebitsFirst, Ordered
<1>3. \A s \in S : Position(list, s) \in Int /\ rank(s) \in Int
  BY ElemsOfList, LenProperties
<1> HIDE DEF rank
<1>4. \A i, j \in 1..Cardinality(S) : i < j => q[i] # q[j]
  <2> SUFFICES ASSUME NEW i \in 1..Cardinality(S), NEW j \in 1..Cardinality(S),
                      i < j, q[i] = q[j]
               PROVE  FALSE
    OBVIOUS
  <2>1. /\ Position(list, q[i]) \in Int /\ rank(q[i]) \in Int
        /\ \/ rank(q[i]) < rank(q[i])
           \/ Position(list, q[i]) < Position(list, q[i])
    BY <1>2, <1>3
  <2> QED
    BY <2>1
<1> QED
  BY <1>1, <1>2, <1>4, OrderedCovers

-----------------------------------------------------------------------------
(* Changes within an edit: setters and scrubbing.                          *)

LEMMA RevisedWhole ==
  ASSUME NEW t \in Trans, NEW tr1 \in TransRecord, NEW tr2 \in TransRecord,
         NEW sp1 \in [Split -> SplitRecord], NEW sp2 \in [Split -> SplitRecord],
         NEW copy \in Copies, Owned(t, tr1, sp1), Front(t, tr1, sp1, copy),
         Whole(t, tr1, sp1, copy), Revised(t, tr1, sp1, tr2, sp2)
  PROVE  /\ Whole(t, tr2, sp2, copy)
         /\ Local(t, sp1, sp2)
         /\ copy # NoCopy => Content(tr2, sp2, copy) = Content(tr1, sp1, copy)
<1> DEFINE list == tr1.splits
           q == tr2.splits
<1>1. list \in Seq(Split) /\ q \in Seq(Split)
      /\ DOMAIN list = 1..Len(list) /\ Len(list) \in Nat
      /\ Elems(list) \subseteq Split
      /\ \A i \in DOMAIN list : list[i] \in Elems(list)
  BY ElemsOfList, LenProperties DEF TransRecord
<1>2. \/ q = list
      \/ /\ tr1.live
         /\ \E b \in Split : ~sp1[b].live /\ q = Append(list, b)
                             /\ sp2[b].dirty /\ sp2[b].parent = t
  BY DEF Revised
<1>3. ASSUME NEW b \in Split, ~sp1[b].live, q = Append(list, b)
      PROVE  /\ b \notin Elems(list) /\ Elems(q) = Elems(list) \cup {b}
             /\ DOMAIN q = 1..(Len(list) + 1)
             /\ \A i \in 1..Len(list) : q[i] = list[i]
             /\ q[Len(list) + 1] = b
  <2>1. b \notin Elems(list)
    BY <1>3 DEF Owned
  <2> QED
    BY <1>1, <1>3, <2>1, AppendElems
<1>4. /\ Elems(list) \subseteq Elems(q) /\ Elems(q) \subseteq Split
      /\ \A i \in DOMAIN list : i \in DOMAIN q /\ q[i] = list[i]
      /\ \A s \in Elems(q) : s \in Elems(list) \/ (sp2[s].dirty /\ sp2[s].parent = t)
  <2>1. CASE q = list
    BY <1>1, <2>1
  <2>2. ASSUME NEW b \in Split, ~sp1[b].live, q = Append(list, b),
               sp2[b].dirty, sp2[b].parent = t
        PROVE  /\ Elems(list) \subseteq Elems(q) /\ Elems(q) \subseteq Split
               /\ \A i \in DOMAIN list : i \in DOMAIN q /\ q[i] = list[i]
               /\ \A s \in Elems(q) :
                    s \in Elems(list) \/ (sp2[s].dirty /\ sp2[s].parent = t)
    <3> HIDE DEF q, list
    <3>1. /\ Elems(q) = Elems(list) \cup {b}
          /\ DOMAIN q = 1..(Len(list) + 1)
          /\ \A i \in 1..Len(list) : q[i] = list[i]
      BY <1>3, <2>2
    <3>2. \A i \in 1..Len(list) : i \in 1..(Len(list) + 1)
      BY <1>1
    <3> QED
      BY <1>1, <2>2, <3>1, <3>2
  <2> HIDE DEF q, list
  <2> QED
    BY <1>2, <2>1, <2>2
<1>5. \A i, j \in DOMAIN q : q[i] = q[j] => i = j
  <2>1. \A i, j \in DOMAIN list : list[i] = list[j] => i = j
    BY DEF Whole
  <2>2. CASE q = list
    BY <2>1, <2>2
  <2>3. ASSUME NEW b \in Split, ~sp1[b].live, q = Append(list, b)
        PROVE  \A i, j \in DOMAIN q : q[i] = q[j] => i = j
    <3> HIDE DEF q, list
    <3>1. /\ b \notin Elems(list) /\ DOMAIN q = 1..(Len(list) + 1)
          /\ \A i \in 1..Len(list) : q[i] = list[i]
          /\ q[Len(list) + 1] = b
      BY <1>3, <2>3
    <3>2. ASSUME NEW i \in DOMAIN q
          PROVE  \/ i \in DOMAIN list /\ q[i] = list[i] /\ q[i] \in Elems(list)
                 \/ i = Len(list) + 1 /\ q[i] = b
      BY <1>1, <3>1
    <3> QED
      BY <2>1, <3>1, <3>2
  <2> HIDE DEF q, list
  <2> QED
    BY <1>2, <2>2, <2>3
<1>6. ASSUME NEW s \in Split
      PROVE  \/ sp2[s] = sp1[s]
             \/ /\ sp2[s].dirty /\ sp2[s].parent = t /\ s \in Elems(q)
                /\ s \in Elems(list) => sp2[s].orig_acc = sp1[s].orig_acc
  BY DEF Revised
<1>7. ASSUME NEW s \in Split, sp2[s].live, sp2[s].parent = t
      PROVE  s \in Elems(q)
  BY <1>4, <1>6, <1>7 DEF Whole
<1>8. ASSUME NEW s \in Elems(q)
      PROVE  sp2[s].dirty \/ (sp2[s].acc = sp2[s].orig_acc /\ ~sp2[s].destroying)
  <2> HIDE DEF q, list
  <2>1. s \in Split
    BY <1>4
  <2>2. CASE s \in Elems(list) /\ sp2[s] = sp1[s]
    BY <2>2 DEF Whole, list
  <2> QED
    BY <1>4, <1>6, <2>1, <2>2
<1>9. ASSUME copy # NoCopy, NEW i \in DOMAIN copy.splits
      PROVE  /\ q[i] = list[i] /\ list[i] \in Elems(list) /\ list[i] \in Split
             /\ sp2[q[i]].dirty \/ SameData(sp2[q[i]], copy.splits[i])
             /\ sp2[q[i]].orig_acc = sp1[q[i]].orig_acc
  <2>1. DOMAIN copy.splits = 1..Len(copy.splits) /\ Len(copy.splits) \in Nat
        /\ Len(copy.splits) <= Len(list)
    BY <1>9, LenProperties DEF Copies, CopyRecord, Front
  <2> HIDE DEF q, list
  <2>2. i \in DOMAIN list
    BY <1>1, <1>9, <2>1
  <2>3. q[i] = list[i] /\ list[i] \in Elems(list) /\ list[i] \in Split
    BY <1>1, <1>4, <2>2
  <2>4. sp1[list[i]].dirty \/ SameData(sp1[list[i]], copy.splits[i])
    BY <1>9 DEF Whole, list
  <2> QED
    BY <1>6, <2>3, <2>4
<1>10. tr2.live \/ q = <<>>
  BY <1>2 DEF Revised, Whole
<1>11. /\ tr2.read_only => "read_only" \in Calls
       /\ copy # NoCopy => (copy.read_only => "read_only" \in Calls)
  BY DEF Revised, Whole
<1>12. Local(t, sp1, sp2)
  BY <1>6 DEF Local
<1>13. copy # NoCopy => Content(tr2, sp2, copy) = Content(tr1, sp1, copy)
  <2> SUFFICES ASSUME copy # NoCopy
               PROVE  Content(tr2, sp2, copy) = Content(tr1, sp1, copy)
    OBVIOUS
  <2>1. \A i \in DOMAIN copy.splits : Entry(q[i], sp2[q[i]].orig_acc, copy.splits[i])
                                      = Entry(list[i], sp1[list[i]].orig_acc, copy.splits[i])
    <3> HIDE DEF q, list
    <3> QED
      BY <1>9 DEF Entry
  <2> QED
    BY <2>1 DEF Content
<1>14. Whole(t, tr2, sp2, copy)
  BY <1>5, <1>7, <1>8, <1>9, <1>10, <1>11 DEF Whole
<1> QED
  BY <1>12, <1>13, <1>14

-----------------------------------------------------------------------------
(* What scrubbing achieves.                                                *)

\* Every remaining split has an account and an amount equal to its value.
Even(t, w) ==
  \A s \in StillHas(t, w) : w.sp[s].amount = w.sp[s].value /\ w.sp[s].acc \in Account

LEMMA ScrubSplitsRevises ==
  ASSUME NEW t \in Trans, NEW w, NEW copy, WInv(t, w, copy)
  PROVE  LET r == ScrubSplits(t, w)
         IN  Revised(t, w.tr, w.sp, r.tr, r.sp) /\ Even(t, r)
<1> DEFINE r == ScrubSplits(t, w)
           list == w.tr.splits
           has == StillHas(t, w)
           orphans == IF \E s \in has : w.sp[s].acc = NoAcc
                      THEN {s \in Elems(list) : w.sp[s].acc = NoAcc} ELSE {}
           uneven == {s \in has : w.sp[s].amount # w.sp[s].value}
           acc(s) == IF s \in orphans THEN Orphan ELSE w.sp[s].acc
           amount(s) == IF s \in uneven THEN w.sp[s].value ELSE w.sp[s].amount
<1>1. w.tr \in TransRecord /\ w.sp \in [Split -> SplitRecord]
      /\ Elems(list) \subseteq Split
  BY ElemsOfList DEF WInv, Typed, TransRecord
<1>2. r.tr = w.tr
      /\ r.sp = [s \in Split |->
                   IF s \in orphans \cup uneven
                   THEN [w.sp[s] EXCEPT !.acc = acc(s), !.amount = amount(s),
                                        !.dirty = TRUE]
                   ELSE w.sp[s]]
  BY DEF ScrubSplits, Work
<1>3. orphans \subseteq Elems(list) /\ uneven \subseteq has /\ has \subseteq Elems(list)
  BY DEF StillHas
<1> HIDE DEF r, acc, amount
<1>4. ASSUME NEW s \in Elems(list)
      PROVE  /\ r.sp[s].orig_acc = w.sp[s].orig_acc
             /\ r.sp[s].parent = w.sp[s].parent
             /\ r.sp[s].destroying = w.sp[s].destroying
             /\ r.sp[s].value = w.sp[s].value
             /\ r.sp[s] = w.sp[s] \/ r.sp[s].dirty
             /\ s \in orphans \cup uneven =>
                  r.sp[s].acc = acc(s) /\ r.sp[s].amount = amount(s)
             /\ s \notin orphans \cup uneven => r.sp[s] = w.sp[s]
  <2>1. w.sp[s] \in SplitRecord /\ s \in Split
    BY <1>1
  <2> HIDE DEF orphans, uneven, has, list
  <2>2. \/ /\ s \in orphans \cup uneven
           /\ r.sp[s] = [w.sp[s] EXCEPT !.acc = acc(s), !.amount = amount(s),
                                        !.dirty = TRUE]
        \/ s \notin orphans \cup uneven /\ r.sp[s] = w.sp[s]
    BY <1>2, <2>1
  <2> QED
    BY <2>1, <2>2 DEF SplitRecord
<1>5. \A s \in Split : s \notin Elems(list) => r.sp[s] = w.sp[s]
  <2> HIDE DEF orphans, uneven, has, list
  <2> QED
    BY <1>2, <1>3
<1>6. \A s \in Elems(list) : w.sp[s].parent = t
  BY DEF WInv, Owned
<1>7. Revised(t, w.tr, w.sp, r.tr, r.sp)
  <2>1. ASSUME NEW s \in Split
        PROVE  \/ r.sp[s] = w.sp[s]
               \/ /\ r.sp[s].dirty /\ r.sp[s].parent = t
                  /\ s \in Elems(r.tr.splits)
                  /\ s \in Elems(w.tr.splits) => r.sp[s].orig_acc = w.sp[s].orig_acc
    BY <1>2, <1>4, <1>5, <1>6, ZenonT(60)
  <2> QED
    BY <1>2, <2>1 DEF Revised
<1>8. StillHas(t, r) = has
  <2>1. \A s \in Elems(list) : /\ r.sp[s].parent = w.sp[s].parent
                               /\ r.sp[s].destroying = w.sp[s].destroying
    BY <1>4
  <2> QED
    BY <1>2, <2>1 DEF StillHas
<1>9. ASSUME NEW s \in has
      PROVE  r.sp[s].amount = r.sp[s].value /\ r.sp[s].acc \in Account
  <2>1. s \in Elems(list) /\ w.sp[s] \in SplitRecord
    BY <1>1, <1>3
  <2>2. w.sp[s].acc \in Account \/ s \in orphans
    BY <2>1 DEF SplitRecord
  <2>3. w.sp[s].amount = w.sp[s].value \/ s \in uneven
    OBVIOUS
  <2>4. Orphan \in Account
    BY NullsAreNotObjects
  <2> HIDE DEF orphans, uneven, has, list
  <2>5. CASE s \in orphans \cup uneven
    <3>1. /\ r.sp[s].acc = acc(s) /\ r.sp[s].amount = amount(s)
          /\ r.sp[s].value = w.sp[s].value
      BY <1>4, <2>1, <2>5
    <3>2. acc(s) \in Account
      BY <2>2, <2>4 DEF acc
    <3>3. amount(s) = w.sp[s].value
      BY <2>3 DEF amount
    <3> QED
      BY <3>1, <3>2, <3>3
  <2>6. CASE s \notin orphans \cup uneven
    <3>1. r.sp[s] = w.sp[s]
      BY <1>4, <2>1, <2>6
    <3> QED
      BY <2>2, <2>3, <2>6, <3>1
  <2> QED
    BY <2>5, <2>6
<1>10. Even(t, r)
  <2> HIDE DEF has
  <2> QED
    BY <1>8, <1>9 DEF Even
<1> QED
  BY <1>7, <1>10 DEF r

LEMMA AddBalanceRevises ==
  ASSUME NEW t \in Trans, NEW w, NEW copy, WInv(t, w, copy), w.tr.live,
         Even(t, w), NEW b \in BalanceSplits(t, w)
  PROVE  LET r == AddBalanceSplit(t, w, b)
         IN  /\ Revised(t, w.tr, w.sp, r.tr, r.sp)
             /\ Even(t, r)
             /\ ImbalanceValue(t, r) = 0
<1> DEFINE r == AddBalanceSplit(t, w, b)
           new == ~w.sp[b].live
           list == w.tr.splits
           has == StillHas(t, w)
           f == [s \in Split |-> w.sp[s].value]
           g == [s \in Split |-> r.sp[s].value]
           sum == ImbalanceValue(t, w)
           was == IF new THEN NewSplit(t) ELSE w.sp[b]
           now == [was EXCEPT !.acc = Imbalance, !.value = was.value - sum,
                              !.amount = was.value - sum, !.dirty = TRUE]
<1>1. w.tr \in TransRecord /\ w.sp \in [Split -> SplitRecord]
  BY DEF WInv, Typed
<1>2. list \in Seq(Split) /\ Elems(list) \subseteq Split /\ has \subseteq Elems(list)
      /\ IsFiniteSet(has)
  <2>1. list \in Seq(Split)
    BY <1>1 DEF TransRecord
  <2>2. has \subseteq Elems(list)
    BY DEF StillHas
  <2> QED
    BY <2>1, <2>2, ListIsFinite, FS_Subset
<1>3. b \in Split /\ (new \/ b \in has)
  BY <1>2 DEF BalanceSplits, StillHas
<1>4. new => b \notin Elems(list)
  BY DEF WInv, Owned
<1>5. \A s \in has : f[s] \in Int
  <2> TAKE s \in has
  <2>1. s \in Split /\ w.sp[s] \in SplitRecord
    BY <1>1, <1>2
  <2> QED
    BY <2>1 DEF SplitRecord
<1>6. sum = SumFunctionOnSet(f, has) /\ sum \in Int
  <2> HIDE DEF f, has
  <2>1. SumFunctionOnSet(f, has) \in Int
    BY <1>2, <1>5, SumIsInt
  <2> QED
    BY <2>1 DEF f, has, ImbalanceValue
<1>7. was \in SplitRecord /\ was.value \in Int /\ was.parent = t /\ ~was.destroying
      /\ (new => was.value = 0)
  <2>1. CASE new
    <3>1. was = NewSplit(t)
      BY <2>1
    <3>2. NewSplit(t) \in SplitRecord /\ NewSplit(t).parent = t
          /\ NewSplit(t).value = 0 /\ ~NewSplit(t).destroying
      <4>1. NewSplit(t) \in SplitRecord /\ NewSplit(t).parent = t
        BY NewSplitType
      <4>2. NewSplit(t).value = 0 /\ ~NewSplit(t).destroying
        BY DEF NewSplit, FreedSplit
      <4> QED
        BY <4>1, <4>2
    <3> HIDE DEF was
    <3> QED
      BY <3>1, <3>2
  <2>2. CASE ~new
    <3>1. was = w.sp[b] /\ was \in SplitRecord /\ b \in has
      BY <1>1, <1>3, <2>2
    <3> QED
      BY <2>2, <3>1 DEF StillHas, SplitRecord
  <2> QED
    BY <2>1, <2>2
<1>8. was.value - sum \in Int
  BY <1>6, <1>7
<1>9. r.sp = [w.sp EXCEPT ![b] = now]
      /\ r.tr = IF new THEN [w.tr EXCEPT !.splits = Append(list, b)] ELSE w.tr
  BY <1>8 DEF AddBalanceSplit, Work
<1> HIDE DEF r, sum, f, g
<1>10. /\ now.acc = Imbalance /\ now.value = was.value - sum /\ now.amount = now.value
       /\ now.dirty /\ now.parent = t /\ ~now.destroying /\ now.orig_acc = was.orig_acc
       /\ now.live = was.live
  <2> HIDE DEF was
  <2> QED
    BY <1>7, SMTT(30) DEF SplitRecord
<1> HIDE DEF now
<1>11. r.sp[b] = now /\ \A s \in Split : s # b => r.sp[s] = w.sp[s]
  BY <1>1, <1>3, <1>9
<1>12. r.tr.live = w.tr.live /\ r.tr.read_only = w.tr.read_only
       /\ r.tr.splits = IF new THEN Append(list, b) ELSE list
  <2> HIDE DEF new, list
  <2> QED
    BY <1>1, <1>9 DEF TransRecord, list
<1>13. Elems(r.tr.splits) = IF new THEN Elems(list) \cup {b} ELSE Elems(list)
  <2>1. Elems(Append(list, b)) = Elems(list) \cup {b}
    BY <1>2, <1>3, AppendElems
  <2> QED
    BY <1>12, <2>1
<1>14. Revised(t, w.tr, w.sp, r.tr, r.sp)
  <2>1. ASSUME NEW s \in Split
        PROVE  \/ r.sp[s] = w.sp[s]
               \/ /\ r.sp[s].dirty /\ r.sp[s].parent = t
                  /\ s \in Elems(r.tr.splits)
                  /\ s \in Elems(list) => r.sp[s].orig_acc = w.sp[s].orig_acc
    <3>1. CASE s # b
      BY <1>11, <3>1
    <3>2. CASE s = b
      <4>1. s \in Elems(r.tr.splits)
        BY <1>2, <1>3, <1>13, <3>2
      <4>2. s \in Elems(list) => r.sp[s].orig_acc = w.sp[s].orig_acc
        BY <1>4, <1>10, <1>11, <3>2
      <4> QED
        BY <1>10, <1>11, <3>2, <4>1, <4>2
    <3> QED
      BY <3>1, <3>2
  <2>2. \/ r.tr.splits = list
        \/ /\ w.tr.live
           /\ \E c \in Split : /\ ~w.sp[c].live
                               /\ r.tr.splits = Append(list, c)
                               /\ r.sp[c].dirty /\ r.sp[c].parent = t
    BY <1>3, <1>10, <1>11, <1>12
  <2> QED
    BY <1>12, <2>1, <2>2 DEF Revised
<1>15. StillHas(t, r) = has \cup {b}
  <2>1. \A s \in Elems(list) : s # b => (s \in has <=> s \in StillHas(t, r))
    BY <1>2, <1>11, <1>13 DEF StillHas
  <2>2. b \in StillHas(t, r)
    BY <1>2, <1>3, <1>10, <1>11, <1>13 DEF StillHas
  <2>3. StillHas(t, r) \subseteq Elems(list) \cup {b}
    BY <1>13 DEF StillHas
  <2> HIDE DEF has, list
  <2> QED
    BY <1>2, <2>1, <2>2, <2>3
<1>16. Even(t, r)
  <2>1. ASSUME NEW s \in has \cup {b}
        PROVE  r.sp[s].amount = r.sp[s].value /\ r.sp[s].acc \in Account
    <3>1. CASE s = b
      BY <1>10, <1>11, <3>1, NullsAreNotObjects
    <3>2. CASE s # b
      BY <1>2, <1>11, <2>1, <3>2 DEF Even
    <3> QED
      BY <3>1, <3>2
  <2> QED
    BY <1>15, <2>1 DEF Even
<1>17. ImbalanceValue(t, r) = 0
  <2> DEFINE rest == has \ {b}
  <2>1. IsFiniteSet(rest) /\ rest \subseteq Split /\ b \notin rest
    BY <1>2, FS_Subset
  <2>2. \A s \in rest : g[s] = f[s] /\ g[s] \in Int
    BY <1>2, <1>5, <1>11 DEF f, g
  <2>3. g[b] = was.value - sum /\ g[b] \in Int
    BY <1>3, <1>8, <1>10, <1>11 DEF g
  <2>4. StillHas(t, r) = rest \cup {b}
    BY <1>15
  <2> HIDE DEF rest
  <2>5. SumFunctionOnSet(g, rest \cup {b}) = g[b] + SumFunctionOnSet(g, rest)
    BY <2>1, <2>2, <2>3, SumAdd
  <2>6. SumFunctionOnSet(g, rest) = SumFunctionOnSet(f, rest)
    BY <2>1, <2>2, SumSame
  <2>7. sum = was.value + SumFunctionOnSet(f, rest)
    <3>1. CASE new
      <4>1. rest = has
        BY <1>2, <1>4, <3>1 DEF rest
      <4>2. sum = SumFunctionOnSet(f, rest) /\ was.value = 0
        BY <1>6, <1>7, <3>1, <4>1
      <4> QED
        BY <1>6, <4>2
    <3>2. CASE ~new
      <4>1. b \in has /\ f[b] = was.value
        BY <1>3, <3>2 DEF f
      <4> HIDE DEF has
      <4>2. SumFunctionOnSet(f, has) = f[b] + SumFunctionOnSet(f, has \ {b})
        BY <1>2, <1>5, <4>1, SumRemove
      <4> QED
        BY <1>6, <4>1, <4>2 DEF rest
    <3> QED
      BY <3>1, <3>2
  <2>8. SumFunctionOnSet(f, rest) \in Int
    <3>1. \A s \in rest : f[s] \in Int
      BY <2>2
    <3> QED
      BY <2>1, <3>1, SumIsInt
  <2>9. SumFunctionOnSet(g, StillHas(t, r)) = 0
    <3> HIDE DEF was
    <3> QED
      BY <1>6, <1>7, <2>3, <2>4, <2>5, <2>6, <2>7, <2>8
  <2> QED
    BY <2>9 DEF ImbalanceValue, g
<1> QED
  BY <1>14, <1>16, <1>17 DEF r

\* A scrubbed transaction balances, and its committed content is untouched.
LEMMA ScrubbedWhole ==
  ASSUME NEW t \in Trans, NEW w, NEW copy \in Copies, WInv(t, w, copy), w.tr.live,
         Whole(t, w.tr, w.sp, copy), NEW v \in ScrubImbalance(t, w)
  PROVE  /\ Whole(t, v.tr, v.sp, copy)
         /\ Local(t, w.sp, v.sp)
         /\ copy # NoCopy => Content(v.tr, v.sp, copy) = Content(w.tr, w.sp, copy)
         /\ Even(t, v)
         /\ ImbalanceValue(t, v) = 0
<1> DEFINE e == ScrubSplits(t, w)
<1>1. WInv(t, e, copy) /\ e.tr = w.tr
  BY ScrubSplitsInv
<1>2. Revised(t, w.tr, w.sp, e.tr, e.sp) /\ Even(t, e)
  BY ScrubSplitsRevises
<1>3. \/ v = e /\ ImbalanceValue(t, e) = 0
      \/ \E b \in BalanceSplits(t, e) : v = AddBalanceSplit(t, e, b)
  BY DEF ScrubImbalance
<1> HIDE DEF e
<1>4. /\ Whole(t, e.tr, e.sp, copy)
      /\ Local(t, w.sp, e.sp)
      /\ copy # NoCopy => Content(e.tr, e.sp, copy) = Content(w.tr, w.sp, copy)
  BY <1>1, <1>2, RevisedWhole DEF WInv, Typed
<1>5. CASE v = e /\ ImbalanceValue(t, e) = 0
  BY <1>2, <1>4, <1>5
<1>6. ASSUME NEW b \in BalanceSplits(t, e), v = AddBalanceSplit(t, e, b)
      PROVE  /\ Whole(t, v.tr, v.sp, copy)
             /\ Local(t, w.sp, v.sp)
             /\ copy # NoCopy => Content(v.tr, v.sp, copy) = Content(w.tr, w.sp, copy)
             /\ Even(t, v)
             /\ ImbalanceValue(t, v) = 0
  <2>1. Revised(t, e.tr, e.sp, v.tr, v.sp) /\ Even(t, v) /\ ImbalanceValue(t, v) = 0
    BY <1>1, <1>2, <1>6, AddBalanceRevises
  <2>2. WInv(t, v, copy)
    BY <1>1, <1>6, AddBalanceSplitInv
  <2>3. /\ Whole(t, v.tr, v.sp, copy)
        /\ Local(t, e.sp, v.sp)
        /\ copy # NoCopy => Content(v.tr, v.sp, copy) = Content(e.tr, e.sp, copy)
    BY <1>1, <1>4, <2>1, <2>2, RevisedWhole DEF WInv, Typed
  <2>4. Local(t, w.sp, v.sp)
    BY <1>4, <2>3 DEF Local
  <2> QED
    BY <1>4, <2>1, <2>3, <2>4
<1> QED
  BY <1>3, <1>5, <1>6

-----------------------------------------------------------------------------
(* The end of an edit.                                                     *)

\* What committing the splits S does to each of them.
LEMMA CommittedSplits ==
  ASSUME NEW w, w.sp \in [Split -> SplitRecord], NEW S \in SUBSET Split
  PROVE  LET r == CommitSplits(w, S, {})
         IN  \A s \in Split :
               /\ s \notin S => r.sp[s] = w.sp[s]
               /\ s \in S /\ w.sp[s].destroying => ~r.sp[s].live
               /\ s \in S /\ ~w.sp[s].destroying =>
                    /\ r.sp[s].acc = w.sp[s].acc /\ r.sp[s].orig_acc = w.sp[s].acc
                    /\ r.sp[s].amount = w.sp[s].amount
                    /\ r.sp[s].value = w.sp[s].value
                    /\ r.sp[s].reconciled = w.sp[s].reconciled
                    /\ r.sp[s].parent = w.sp[s].parent
                    /\ ~r.sp[s].destroying
<1> DEFINE r == CommitSplits(w, S, {})
           committed(s) == [w.sp[s] EXCEPT !.orig_acc = w.sp[s].acc,
                                           !.orig_parent = w.sp[s].parent,
                                           !.destroying = FALSE,
                                           !.dirty = s \in {} \/ ~HasBackend]
<1>1. r.sp = [s \in Split |-> CASE s \notin S -> w.sp[s]
                                [] s \in S \ {} /\ w.sp[s].destroying -> FreedSplit
                                [] OTHER -> committed(s)]
  BY DEF CommitSplits, Work
<1>2. ~FreedSplit.live
  BY FreedTypes
<1> HIDE DEF r
<1>3. ASSUME NEW s \in Split
      PROVE  /\ s \notin S => r.sp[s] = w.sp[s]
             /\ s \in S /\ w.sp[s].destroying => ~r.sp[s].live
             /\ s \in S /\ ~w.sp[s].destroying => r.sp[s] = committed(s)
  <2> HIDE DEF committed
  <2> QED
    BY <1>1, <1>2
<1>4. ASSUME NEW s \in Split
      PROVE  /\ committed(s).acc = w.sp[s].acc /\ committed(s).orig_acc = w.sp[s].acc
             /\ committed(s).amount = w.sp[s].amount
             /\ committed(s).value = w.sp[s].value
             /\ committed(s).reconciled = w.sp[s].reconciled
             /\ committed(s).parent = w.sp[s].parent
             /\ ~committed(s).destroying
  <2> DEFINE d == s \in {} \/ ~HasBackend
  <2>1. w.sp[s] \in SplitRecord
    OBVIOUS
  <2>2. committed(s) = [w.sp[s] EXCEPT !.orig_acc = w.sp[s].acc,
                                       !.orig_parent = w.sp[s].parent,
                                       !.destroying = FALSE, !.dirty = d]
    OBVIOUS
  <2> HIDE DEF d, committed
  <2> QED
    BY <2>1, <2>2 DEF SplitRecord
<1> HIDE DEF committed
<1> QED
  BY <1>3, <1>4 DEF r

\* A call on t that leaves it without a copy and with sound content.
Done(t, w, sp0) ==
  /\ Whole(t, w.tr, w.sp, NoCopy)
  /\ \A s \in Elems(w.tr.splits) : w.sp[s].acc = w.sp[s].orig_acc /\ ~w.sp[s].destroying
  /\ Sound(Content(w.tr, w.sp, NoCopy))
  /\ Local(t, sp0, w.sp)

\* Content without a copy is sound if the splits in the list are.
LEMMA SoundList ==
  ASSUME NEW tr \in TransRecord, NEW sp \in [Split -> SplitRecord],
         SumFunctionOnSet([s \in Split |-> sp[s].value], Elems(tr.splits)) = 0,
         \A s \in Elems(tr.splits) : /\ sp[s].amount = sp[s].value
                                     /\ sp[s].acc \in Account
  PROVE  Sound(Content(tr, sp, NoCopy))
<1> DEFINE c == Content(tr, sp, NoCopy)
<1>1. SumFunctionOnSet([e \in c.entries |-> e.value], c.entries) = 0
  BY ContentSum
<1>2. c.entries = {Entry(s, sp[s].acc, sp[s]) : s \in Elems(tr.splits)}
  BY DEF Content
<1>3. \A e \in c.entries : e.amount = e.value /\ e.acc \in Account
  BY <1>2 DEF Entry
<1> HIDE DEF c
<1> QED
  BY <1>1, <1>3, BalancedMeans DEF Sound, c

LEMMA CleanupCommitDone ==
  ASSUME ~SplitRejects, NEW t \in Trans, NEW w, NEW copy, WInv(t, w, copy),
         Whole(t, w.tr, w.sp, copy), Even(t, w), ImbalanceValue(t, w) = 0,
         w.tr.editlevel \in Nat \ {0}, NEW d \in CleanupCommit(t, w)
  PROVE  /\ Done(t, d, w.sp)
         /\ d.tr.editlevel = w.tr.editlevel - 1
         /\ d.tr.destroying = w.tr.destroying
<1> DEFINE list == w.tr.splits
           dirty == {s \in Elems(list) : w.sp[s].dirty}
           drop == {s \in dirty : w.sp[s].parent # t \/ w.sp[s].destroying}
           S == {s \in dirty : w.sp[s].parent = t}
           kept == Elems(list) \ drop
           closed(q) == [w.tr EXCEPT !.splits = q, !.editlevel = @ - 1]
           v(q) == Work(closed(q), w.sp, w.ac, w.ca)
<1>1. w.tr \in TransRecord /\ w.sp \in [Split -> SplitRecord]
      /\ list \in Seq(Split) /\ Elems(list) \subseteq Split
  BY ElemsOfList DEF WInv, Typed, TransRecord
<1>2. PICK q \in DebitsFirst(list, kept, w.sp) : d = CommitSplits(v(q), S, {})
  <2>1. PICK q \in DebitsFirst(list, kept, w.sp) : d \in CommitAll(v(q), S)
    BY DEF CleanupCommit
  <2> HIDE DEF v, S, kept, list
  <2> QED
    BY <2>1 DEF CommitAll, Refusals
<1>3. /\ Elems(q) = kept /\ q \in Seq(Split)
      /\ \A i, j \in DOMAIN q : q[i] = q[j] => i = j
  <2>1. kept \in SUBSET Elems(list)
    OBVIOUS
  <2> HIDE DEF kept, list
  <2> QED
    BY <1>1, <2>1, DebitsFirstCovers
<1>4. ASSUME NEW s \in Elems(list)
      PROVE  /\ w.sp[s].parent = t
             /\ w.sp[s].dirty \/ (w.sp[s].acc = w.sp[s].orig_acc /\ ~w.sp[s].destroying)
             /\ s \in drop <=> w.sp[s].destroying
             /\ s \in S <=> w.sp[s].dirty
  BY DEF WInv, Owned, Whole
<1>5. kept = StillHas(t, w)
  BY <1>4 DEF StillHas
<1>6. d.tr = closed(q)
      /\ \A s \in Split :
           /\ s \notin S => d.sp[s] = w.sp[s]
           /\ s \in S /\ w.sp[s].destroying => ~d.sp[s].live
           /\ s \in S /\ ~w.sp[s].destroying =>
                /\ d.sp[s].acc = w.sp[s].acc /\ d.sp[s].orig_acc = w.sp[s].acc
                /\ d.sp[s].amount = w.sp[s].amount
                /\ d.sp[s].value = w.sp[s].value
                /\ d.sp[s].parent = w.sp[s].parent
                /\ ~d.sp[s].destroying
  <2>1. v(q).sp = w.sp /\ v(q).tr = closed(q) /\ S \in SUBSET Split
    BY <1>1 DEF Work
  <2> HIDE DEF S, closed, v
  <2>2. d.tr = v(q).tr
    BY <1>2 DEF CommitSplits, Work
  <2> QED
    BY <1>1, <1>2, <2>1, <2>2, CommittedSplits
<1>7. d.tr.splits = q /\ d.tr.live = w.tr.live /\ d.tr.destroying = w.tr.destroying
      /\ d.tr.read_only = w.tr.read_only /\ d.tr.editlevel = w.tr.editlevel - 1
  <2> HIDE DEF list, kept
  <2> QED
    BY <1>1, <1>6 DEF TransRecord
<1> HIDE DEF S, drop, closed, v
<1>8. ASSUME NEW s \in kept
      PROVE  /\ d.sp[s].acc = w.sp[s].acc /\ d.sp[s].orig_acc = d.sp[s].acc
             /\ d.sp[s].amount = w.sp[s].amount /\ d.sp[s].value = w.sp[s].value
             /\ d.sp[s].parent = t /\ ~d.sp[s].destroying
  <2>1. s \in Elems(list) /\ s \in Split /\ ~w.sp[s].destroying
    BY <1>1, <1>4
  <2>2. CASE w.sp[s].dirty
    BY <1>4, <1>6, <2>1, <2>2
  <2>3. CASE ~w.sp[s].dirty
    <3>1. d.sp[s] = w.sp[s]
      BY <1>4, <1>6, <2>1, <2>3
    <3> QED
      BY <1>4, <2>1, <2>3, <3>1
  <2> QED
    BY <2>2, <2>3
<1>9. ASSUME NEW s \in Split, d.sp[s].live, d.sp[s].parent = t
      PROVE  s \in kept
  <2>1. CASE s \in S
    BY <1>4, <1>6, <1>9, <2>1 DEF S
  <2>2. CASE s \notin S
    <3>1. s \in Elems(list)
      BY <1>6, <1>9, <2>2 DEF Whole
    <3> QED
      BY <1>4, <2>2, <3>1
  <2> QED
    BY <2>1, <2>2
<1>10. Local(t, w.sp, d.sp)
  <2>1. ASSUME NEW s \in Split
        PROVE  d.sp[s] = w.sp[s] \/ ~d.sp[s].live \/ d.sp[s].parent = t
    BY <1>6 DEF S
  <2> QED
    BY <2>1 DEF Local
<1> HIDE DEF kept
<1>11. Whole(t, d.tr, d.sp, NoCopy)
  <2>1. d.tr.live \/ d.tr.splits = <<>>
    <3>1. w.tr.live \/ Elems(q) = {}
      BY <1>3, <1>5 DEF Whole, StillHas, Elems
    <3>2. Elems(q) = {} => q = <<>>
      BY <1>3, EmptySeq, LenProperties DEF Elems
    <3> QED
      BY <1>7, <3>1, <3>2
  <2> QED
    BY <1>3, <1>7, <1>8, <1>9, <2>1 DEF Whole
<1>12. Sound(Content(d.tr, d.sp, NoCopy))
  <2> DEFINE f == [s \in Split |-> w.sp[s].value]
             g == [s \in Split |-> d.sp[s].value]
  <2>1. d.tr \in TransRecord /\ d.sp \in [Split -> SplitRecord]
    BY CleanupCommitInv DEF Settled, WInv, Typed
  <2>2. IsFiniteSet(kept) /\ kept \subseteq Split
    BY <1>1, ListIsFinite, FS_Subset DEF kept
  <2>3. \A s \in kept : g[s] = f[s]
    BY <1>8, <2>2
  <2>4. SumFunctionOnSet(f, kept) = 0
    BY <1>5 DEF ImbalanceValue
  <2>5. SumFunctionOnSet(g, kept) = 0
    <3> HIDE DEF f, g
    <3> QED
      BY <2>2, <2>3, <2>4, SumSame
  <2>6. \A s \in kept : d.sp[s].amount = d.sp[s].value /\ d.sp[s].acc \in Account
    BY <1>5, <1>8 DEF Even
  <2> QED
    BY <1>3, <1>7, <2>1, <2>5, <2>6, SoundList
<1> QED
  BY <1>3, <1>7, <1>8, <1>10, <1>11, <1>12 DEF Done

LEMMA DoDestroyDone ==
  ASSUME ~SplitRejects, NEW t \in Trans, NEW w, NEW copy, WInv(t, w, copy),
         Whole(t, w.tr, w.sp, copy), w.tr.read_only => StillHas(t, w) = {},
         NEW d \in DoDestroy(t, w)
  PROVE  Done(t, d, w.sp) /\ d.tr = FreedTrans
<1> DEFINE own == {s \in Elems(w.tr.splits) : w.sp[s].parent = t}
           kept == {s \in own : w.sp[s].acc # NoAcc /\ w.tr.read_only}
           sp == [s \in Split |->
                    IF s \in own \ kept
                    THEN [w.sp[s] EXCEPT !.dirty = TRUE, !.destroying = TRUE]
                    ELSE w.sp[s]]
           S == {s \in own : sp[s].dirty}
           v == Work(FreedTrans, sp, w.ac, w.ca)
<1>1. w.sp \in [Split -> SplitRecord] /\ Elems(w.tr.splits) \subseteq Split
  BY ElemsOfList DEF WInv, Typed, TransRecord
<1>2. d = CommitSplits(v, S, {})
  BY DEF DoDestroy, CommitAll, Refusals
<1>3. \A s \in Elems(w.tr.splits) :
        /\ w.sp[s].parent = t
        /\ w.sp[s].dirty \/ (w.sp[s].acc = w.sp[s].orig_acc /\ ~w.sp[s].destroying)
  BY DEF WInv, Owned, Whole
<1>4. own = Elems(w.tr.splits)
  BY <1>3
<1>5. \A s \in kept : w.sp[s].dirty /\ w.sp[s].destroying
  BY <1>3 DEF StillHas
<1>6. ASSUME NEW s \in Split
      PROVE  /\ sp[s] \in SplitRecord
             /\ s \in own => sp[s].dirty /\ sp[s].destroying
             /\ s \notin own => sp[s] = w.sp[s]
  <2>1. w.sp[s] \in SplitRecord
    BY <1>1
  <2>2. CASE s \in own \ kept
    <3>1. sp[s] = [w.sp[s] EXCEPT !.dirty = TRUE, !.destroying = TRUE]
      BY <2>2
    <3>2. sp[s] \in SplitRecord /\ sp[s].dirty /\ sp[s].destroying
      <4> HIDE DEF sp
      <4> QED
        BY <2>1, <3>1 DEF SplitRecord
    <3> HIDE DEF sp
    <3> QED
      BY <2>2, <3>2
  <2>3. CASE s \notin own \ kept
    <3>1. sp[s] = w.sp[s]
      BY <2>3
    <3> HIDE DEF sp, own, kept
    <3> QED
      BY <1>5, <2>1, <2>3, <3>1
  <2> QED
    BY <2>2, <2>3
<1>7. S = own /\ S \in SUBSET Split /\ v.sp = sp /\ sp \in [Split -> SplitRecord]
  <2>1. S = own
    <3> HIDE DEF sp
    <3> QED
      BY <1>1, <1>4, <1>6
  <2>2. v.sp = sp
    BY DEF Work
  <2>3. sp \in [Split -> SplitRecord]
    <3> HIDE DEF own, kept
    <3> QED
      BY <1>6
  <2> QED
    BY <1>1, <1>4, <2>1, <2>2, <2>3
<1> HIDE DEF sp, kept
<1>8. /\ d.tr = FreedTrans
      /\ \A s \in Split : IF s \in own THEN ~d.sp[s].live ELSE d.sp[s] = w.sp[s]
  <2>1. d.tr = FreedTrans
    BY <1>2 DEF CommitSplits, Work
  <2> HIDE DEF S, v, own
  <2>2. ASSUME NEW s \in Split
        PROVE  IF s \in own THEN ~d.sp[s].live ELSE d.sp[s] = w.sp[s]
    BY <1>2, <1>6, <1>7, CommittedSplits
  <2> QED
    BY <2>1, <2>2
<1>9. /\ FreedTrans.splits = <<>> /\ ~FreedTrans.read_only /\ Elems(<<>>) = {}
      /\ DOMAIN FreedTrans.splits = {} /\ FreedTrans \in TransRecord
  BY FreedTypes DEF FreedTrans, Elems
<1>10. \A s \in Split : ~(d.sp[s].live /\ d.sp[s].parent = t)
  BY <1>4, <1>8 DEF Whole
<1>11. Whole(t, d.tr, d.sp, NoCopy)
  BY <1>8, <1>9, <1>10 DEF Whole
<1>12. Sound(Content(d.tr, d.sp, NoCopy))
  <2>1. d.sp \in [Split -> SplitRecord]
    BY DoDestroyInv DEF Settled, WInv, Typed
  <2> QED
    BY <1>8, <1>9, <2>1, SumEmpty, SoundList
<1>13. Local(t, w.sp, d.sp)
  BY <1>8 DEF Local
<1> QED
  BY <1>8, <1>9, <1>11, <1>12, <1>13 DEF Done

\* A rollback makes the splits what the copy says, which is what was committed.
LEMMA RestoredDone ==
  ASSUME NEW t \in Trans, NEW w, NEW copy \in CopyRecord, copy # NoCopy,
         WInv(t, w, copy), Whole(t, w.tr, w.sp, copy),
         w.tr.editlevel \in Nat \ {0}, NEW r \in Restored(t, w, copy)
  PROVE  /\ Whole(t, r.tr, r.sp, NoCopy)
         /\ \A s \in Elems(r.tr.splits) :
              r.sp[s].acc = r.sp[s].orig_acc /\ ~r.sp[s].destroying
         /\ Local(t, w.sp, r.sp)
         /\ Content(r.tr, r.sp, NoCopy) = Content(w.tr, w.sp, copy)
         /\ r.tr.editlevel = w.tr.editlevel - 1
         /\ ~r.tr.destroying
         /\ r.tr.read_only = copy.read_only
<1> DEFINE list == w.tr.splits
           n == Len(copy.splits)
           dirty == {s \in Elems(list) : w.sp[s].dirty}
           added == {s \in dirty : Position(list, s) > n}
           kept == Elems(list) \ added
           restored(s) == RestoredSplit(w.sp[s], copy.splits[Position(list, s)])
           reverted(q) == [w.tr EXCEPT !.descr = copy.descr, !.read_only = copy.read_only,
                                       !.splits = q, !.destroying = FALSE,
                                       !.editlevel = @ - 1]
<1>1. w.tr \in TransRecord /\ w.sp \in [Split -> SplitRecord]
      /\ list \in Seq(Split) /\ Elems(list) \subseteq Split
      /\ DOMAIN list = 1..Len(list) /\ Len(list) \in Nat
      /\ \A i \in DOMAIN list : list[i] \in Elems(list)
  BY ElemsOfList, LenProperties DEF WInv, Typed, TransRecord
<1>2. DOMAIN copy.splits = 1..n /\ n \in Nat /\ n <= Len(list)
  BY LenProperties DEF CopyRecord, WInv, Front
<1>3. PICK q \in Filtered(list, kept) :
        r = Work(reverted(q),
                 [s \in Split |-> CASE s \in added -> FreedSplit
                                   [] s \in dirty \ added -> restored(s)
                                   [] OTHER -> w.sp[s]],
                 w.ac, w.ca)
  BY DEF Restored
<1>4. /\ Elems(q) = kept /\ q \in Seq(Split)
      /\ \A i, j \in DOMAIN q : q[i] = q[j] => i = j
  <2>1. kept \in SUBSET Elems(list)
    OBVIOUS
  <2> HIDE DEF kept, list
  <2> QED
    BY <1>1, <2>1, FilteredCovers
<1>5. /\ r.tr = reverted(q)
      /\ \A s \in Split : /\ s \in added => r.sp[s] = FreedSplit
                          /\ s \in dirty \ added => r.sp[s] = restored(s)
                          /\ s \notin dirty => r.sp[s] = w.sp[s]
  <2> HIDE DEF restored, reverted
  <2>1. r.tr = reverted(q)
        /\ r.sp = [s \in Split |-> CASE s \in added -> FreedSplit
                                     [] s \in dirty \ added -> restored(s)
                                     [] OTHER -> w.sp[s]]
    BY <1>3 DEF Work
  <2> QED
    BY <2>1
<1>6. /\ r.tr.splits = q /\ r.tr.live = w.tr.live /\ ~r.tr.destroying
      /\ r.tr.editlevel = w.tr.editlevel - 1
      /\ r.tr.descr = copy.descr /\ r.tr.read_only = copy.read_only
  <2> HIDE DEF list, kept
  <2> QED
    BY <1>1, <1>5 DEF TransRecord
<1>7. ASSUME NEW i \in DOMAIN list
      PROVE  /\ Position(list, list[i]) = i
             /\ list[i] \in Elems(list) /\ list[i] \in Split
             /\ list[i] \in added <=> i > n
  <2>1. Position(list, list[i]) = i
    BY <1>1, PositionOf DEF Whole
  <2>2. list[i] \in Elems(list) /\ list[i] \in Split
    BY <1>1
  <2>3. i > n => w.sp[list[i]].orig_parent = NoTrans
    BY <1>1, <1>2 DEF WInv, Front
  <2>4. w.sp[list[i]].dirty \/ w.sp[list[i]].orig_parent = t
    BY <2>2 DEF WInv, Owned
  <2> QED
    BY <2>1, <2>2, <2>3, <2>4, NullsAreNotObjects
<1>8. kept = {list[i] : i \in 1..n}
  <2>1. \A i \in 1..n : i \in DOMAIN list /\ ~(i > n)
    BY <1>1, <1>2
  <2>2. \A i \in DOMAIN list : i \in 1..n \/ i > n
    BY <1>1, <1>2
  <2>3. Elems(list) = {list[i] : i \in DOMAIN list}
    BY DEF Elems
  <2> HIDE DEF list, added
  <2> QED
    BY <1>7, <2>1, <2>2, <2>3
<1>9. ASSUME NEW i \in 1..n
      PROVE  /\ list[i] \in Split /\ r.sp[list[i]].parent = t
             /\ r.sp[list[i]].acc = r.sp[list[i]].orig_acc
             /\ ~r.sp[list[i]].destroying
             /\ Entry(list[i], r.sp[list[i]].acc, r.sp[list[i]])
                  = Entry(list[i], w.sp[list[i]].orig_acc, copy.splits[i])
  <2> DEFINE s == list[i]
             so == copy.splits[i]
  <2>1. /\ i \in DOMAIN list /\ i \in DOMAIN copy.splits /\ ~(i > n)
        /\ i <= n
    BY <1>1, <1>2
  <2>2. /\ s \in Elems(list) /\ s \in Split /\ s \notin added
        /\ Position(list, s) = i
    BY <1>7, <2>1
  <2>3. /\ w.sp[s].parent = t /\ w.sp[s].orig_parent = t
        /\ w.sp[s].dirty \/ (w.sp[s].acc = w.sp[s].orig_acc /\ ~w.sp[s].destroying)
        /\ w.sp[s].dirty \/ SameData(w.sp[s], so)
    BY <2>1, <2>2 DEF WInv, Owned, Front, Whole
  <2>4. w.sp[s] \in SplitRecord
    BY <1>1, <2>2
  <2> HIDE DEF s
  <2>5. CASE w.sp[s].dirty
    <3>1. r.sp[s] = RestoredSplit(w.sp[s], so)
      BY <1>5, <2>2, <2>5
    <3>2. /\ r.sp[s].parent = w.sp[s].orig_parent
          /\ r.sp[s].acc = w.sp[s].orig_acc /\ r.sp[s].orig_acc = w.sp[s].orig_acc
          /\ ~r.sp[s].destroying
          /\ r.sp[s].amount = so.amount /\ r.sp[s].value = so.value
          /\ r.sp[s].reconciled = so.reconciled
      <4> HIDE DEF so
      <4> QED
        BY <2>4, <3>1, SMTT(30) DEF RestoredSplit, SplitRecord
    <3> QED
      BY <2>2, <2>3, <3>2 DEF Entry, s
  <2>6. CASE ~w.sp[s].dirty
    <3>1. r.sp[s] = w.sp[s]
      BY <1>5, <2>2, <2>6
    <3> QED
      BY <2>2, <2>3, <2>6, <3>1 DEF SameData, Entry, s
  <2> QED
    BY <2>5, <2>6
<1>10. \A s \in kept : /\ r.sp[s].acc = r.sp[s].orig_acc
                       /\ ~r.sp[s].destroying
                       /\ r.sp[s].parent = t
  <2> HIDE DEF kept
  <2> QED
    BY <1>8, <1>9
<1>11. ASSUME NEW s \in Split, r.sp[s].live, r.sp[s].parent = t
       PROVE  s \in kept
  <2>1. CASE s \in added
    BY <1>5, <1>11, <2>1, FreedTypes
  <2>2. CASE s \in dirty \ added
    BY <2>2
  <2>3. CASE s \notin dirty
    <3>1. s \in Elems(list)
      BY <1>5, <1>11, <2>3 DEF Whole
    <3> QED
      BY <2>3, <3>1
  <2> QED
    BY <2>1, <2>2, <2>3
<1>12. Local(t, w.sp, r.sp)
  <2>1. ASSUME NEW s \in Split
        PROVE  r.sp[s] = w.sp[s] \/ ~r.sp[s].live \/ r.sp[s].parent = t
    <3>1. CASE s \in added
      BY <1>5, <3>1, FreedTypes
    <3>2. CASE s \in dirty \ added
      BY <1>10, <3>2
    <3>3. CASE s \notin dirty
      BY <1>5, <3>3
    <3> QED
      BY <3>1, <3>2, <3>3
  <2> QED
    BY <2>1 DEF Local
<1>13. r.tr.live \/ r.tr.splits = <<>>
  <2>1. w.tr.live \/ Elems(q) = {}
    BY <1>4 DEF Whole, Elems
  <2>2. Elems(q) = {} => q = <<>>
    BY <1>4, EmptySeq, LenProperties DEF Elems
  <2> QED
    BY <1>6, <2>1, <2>2
<1>14. copy.read_only => "read_only" \in Calls
  BY DEF Whole
<1> HIDE DEF kept, reverted, added, dirty
<1>15. Whole(t, r.tr, r.sp, NoCopy)
  BY <1>4, <1>6, <1>10, <1>11, <1>13, <1>14 DEF Whole
<1>16. Content(r.tr, r.sp, NoCopy) = Content(w.tr, w.sp, copy)
  <2>1. {Entry(s, r.sp[s].acc, r.sp[s]) : s \in Elems(q)}
          = {Entry(list[i], w.sp[list[i]].orig_acc, copy.splits[i]) : i \in 1..n}
    <3>1. {Entry(s, r.sp[s].acc, r.sp[s]) : s \in Elems(q)}
            = {Entry(list[i], r.sp[list[i]].acc, r.sp[list[i]]) : i \in 1..n}
      BY <1>4, <1>8
    <3> DEFINE now(i) == Entry(list[i], r.sp[list[i]].acc, r.sp[list[i]])
               old(i) == Entry(list[i], w.sp[list[i]].orig_acc, copy.splits[i])
    <3>2. \A i \in 1..n : now(i) = old(i)
      BY <1>9
    <3> HIDE DEF now, old
    <3>3. {now(i) : i \in 1..n} = {old(i) : i \in 1..n}
      BY <3>2
    <3> QED
      BY <3>1, <3>3 DEF now, old
  <2> QED
    BY <1>2, <1>6, <2>1 DEF Content
<1> QED
  BY <1>4, <1>6, <1>10, <1>12, <1>15, <1>16

-----------------------------------------------------------------------------
(* Calls as steps of the whole state.                                      *)

\* What a call on t keeps: the invariant, the committed content of the other
\* transactions and, while t stays open, that of t.
Kept(t) ==
  /\ JInv'
  /\ \A u \in Trans \ {t} :
       Committed(u)' = Committed(u) /\ trans'[u].editlevel = trans[u].editlevel
  /\ \/ trans'[t].editlevel = 0
     \/ orig[t] # NoCopy \/ trans[t].editlevel = 0 => Committed(t)' = Committed(t)

LEMMA StoreKeeps ==
  ASSUME IInv, JInv, NEW t \in Trans, NEW w, NEW copy \in Copies, Store(t, w, copy),
         Frame(t, split, w.sp), Local(t, split, w.sp),
         Whole(t, w.tr, w.sp, copy), Peace(w.tr, w.sp, copy),
         \/ w.tr.editlevel = 0
         \/ orig[t] # NoCopy \/ trans[t].editlevel = 0 =>
              Content(w.tr, w.sp, copy) = Committed(t)
  PROVE  Kept(t)
<1>1. /\ trans' = [trans EXCEPT ![t] = w.tr] /\ orig' = [orig EXCEPT ![t] = copy]
      /\ split' = w.sp
      /\ trans \in [Trans -> TransRecord] /\ orig \in [Trans -> Copies]
      /\ split \in [Split -> SplitRecord]
  BY DEF Store, IInv, TypeOK, Copies
<1>2. trans'[t] = w.tr /\ orig'[t] = copy
  BY <1>1
<1>3. ASSUME NEW u \in Trans, u # t
      PROVE  /\ trans'[u] = trans[u] /\ orig'[u] = orig[u]
             /\ Whole(u, trans[u], w.sp, orig[u])
             /\ Peace(trans[u], w.sp, orig[u])
             /\ Content(trans[u], w.sp, orig[u]) = Committed(u)
  <2> DEFINE tr == trans[u]
             list == trans[u].splits
             old == orig[u]
  <2>1. trans'[u] = tr /\ orig'[u] = old
    BY <1>1, <1>3
  <2>2. /\ list \in Seq(Split) /\ Elems(list) \subseteq Split
        /\ DOMAIN list = 1..Len(list) /\ Len(list) \in Nat
        /\ \A i \in DOMAIN list : list[i] \in Elems(list)
    BY <1>1, ElemsOfList, LenProperties DEF TransRecord
  <2>3. Owned(u, tr, split) /\ Front(u, tr, split, old)
        /\ Whole(u, tr, split, old) /\ Peace(tr, split, old)
    BY DEF IInv, JInv
  <2>4. \A s \in Elems(list) : w.sp[s] = split[s]
    BY <1>3, <2>2, <2>3 DEF Owned, Frame
  <2>5. old # NoCopy => \A i \in DOMAIN old.splits : list[i] \in Elems(list)
    <3> SUFFICES ASSUME old # NoCopy, NEW i \in DOMAIN old.splits
                 PROVE  list[i] \in Elems(list)
      OBVIOUS
    <3>1. old \in CopyRecord
      BY <1>1 DEF Copies
    <3>2. DOMAIN old.splits = 1..Len(old.splits) /\ Len(old.splits) \in Nat
          /\ Len(old.splits) <= Len(list)
      BY <2>3, <3>1, LenProperties DEF CopyRecord, Front
    <3> HIDE DEF list, old
    <3>3. i \in DOMAIN list
      BY <2>2, <3>2
    <3> QED
      BY <2>2, <3>3
  <2>6. \A s \in Split : w.sp[s].live /\ w.sp[s].parent = u => s \in Elems(list)
    BY <1>3, <2>3 DEF Local, Whole
  <2> HIDE DEF tr, old
  <2>7. Whole(u, tr, w.sp, old)
    BY <2>3, <2>4, <2>5, <2>6 DEF Whole, tr
  <2>8. Content(tr, w.sp, old) = Content(tr, split, old)
    <3>1. CASE old = NoCopy
      <4>1. {Entry(s, w.sp[s].acc, w.sp[s]) : s \in Elems(list)}
              = {Entry(s, split[s].acc, split[s]) : s \in Elems(list)}
        BY <2>4
      <4> QED
        BY <3>1, <4>1 DEF Content, tr
    <3>2. CASE old # NoCopy
      <4>1. {Entry(list[i], w.sp[list[i]].orig_acc, old.splits[i]) : i \in DOMAIN old.splits}
              = {Entry(list[i], split[list[i]].orig_acc, old.splits[i]) : i \in DOMAIN old.splits}
        <5> HIDE DEF list
        <5> QED
          BY <2>4, <2>5, <3>2
      <4> QED
        BY <3>2, <4>1 DEF Content, tr
    <3> QED
      BY <3>1, <3>2
  <2>9. Peace(tr, w.sp, old)
    BY <2>3, <2>4, <2>8 DEF Peace, tr
  <2> QED
    BY <2>1, <2>7, <2>8, <2>9 DEF Committed, tr, old
<1>4. JInv'
  <2>1. \A u \in Trans : Whole(u, trans'[u], split', orig'[u])
                         /\ Peace(trans'[u], split', orig'[u])
    BY <1>1, <1>2, <1>3
  <2>2. \A s \in Split : split'[s].live => split'[s].parent \in Trans
    BY <1>1 DEF Local, JInv
  <2> QED
    BY <2>1, <2>2 DEF JInv, Whole, Peace
<1>5. \A u \in Trans : Committed(u)' = Content(trans'[u], split', orig'[u])
  BY DEF Committed, Content
<1>6. \A u \in Trans \ {t} :
        Committed(u)' = Committed(u) /\ trans'[u].editlevel = trans[u].editlevel
  BY <1>1, <1>3, <1>5
<1>7. \/ trans'[t].editlevel = 0
      \/ orig[t] # NoCopy \/ trans[t].editlevel = 0 => Committed(t)' = Committed(t)
  BY <1>1, <1>2, <1>5
<1> QED
  BY <1>4, <1>6, <1>7 DEF Kept

LEMMA LocalTrans ==
  ASSUME NEW t, NEW sp0, NEW sp1, NEW sp2, Local(t, sp0, sp1), Local(t, sp1, sp2)
  PROVE  Local(t, sp0, sp2)
  BY DEF Local

\* A call that ends with t settled, its content sound, keeps everything.
LEMMA DoneKeeps ==
  ASSUME IInv, JInv, NEW t \in Trans, NEW w, NEW sp, Store(t, w, NoCopy),
         Frame(t, split, sp), Local(t, split, sp), Frame(t, sp, w.sp), Done(t, w, sp),
         ~w.tr.destroying,
         \/ w.tr.editlevel = 0
         \/ orig[t] # NoCopy \/ trans[t].editlevel = 0 =>
              Content(w.tr, w.sp, NoCopy) = Committed(t)
  PROVE  Kept(t)
<1>1. Frame(t, split, w.sp)
  BY FrameTrans
<1>2. Local(t, split, w.sp)
  BY LocalTrans DEF Done
<1>3. Whole(t, w.tr, w.sp, NoCopy) /\ Peace(w.tr, w.sp, NoCopy)
  BY DEF Done, Peace
<1>4. NoCopy \in Copies
  BY DEF Copies
<1> QED
  BY <1>1, <1>2, <1>3, <1>4, StoreKeeps

\* Only the list, the flag read_only and live matter to Whole.
LEMMA WholeWithTrans ==
  ASSUME NEW t, NEW tr1, NEW tr2, NEW sp, NEW copy, Whole(t, tr1, sp, copy),
         tr2.splits = tr1.splits, tr2.live = tr1.live, tr2.read_only = tr1.read_only
  PROVE  /\ Whole(t, tr2, sp, copy)
         /\ copy # NoCopy => Content(tr2, sp, copy) = Content(tr1, sp, copy)
  BY DEF Whole, Content

\* The working state in the middle of a call on t.
InCall(t, w, copy) ==
  /\ WInv(t, w, copy)
  /\ Whole(t, w.tr, w.sp, copy)
  /\ Frame(t, split, w.sp)
  /\ Local(t, split, w.sp)
  /\ copy # NoCopy => /\ Content(w.tr, w.sp, copy) = Committed(t)
                      /\ Sound(Committed(t))

\* A rollback leaves what was committed, unless the backend then says that
\* the transaction is gone.
LEMMA RollbackEditKeeps ==
  ASSUME ~SplitRejects, Destroyable, IInv, JInv, NEW t \in Trans, NEW w,
         NEW copy \in Copies, InCall(t, w, copy), w.tr.editlevel \in Nat \ {0},
         RollbackEdit(t, w, copy)
  PROVE  Kept(t) /\ (RemoteDeletes \/ Committed(t)' = Committed(t))
<1>1. copy \in CopyRecord /\ copy # NoCopy /\ copy \in Copies
  BY DEF RollbackEdit, Copies
<1>2. PICK r \in Restored(t, w, copy) :
        \/ Store(t, r, NoCopy)
        \/ RemoteDeletes /\ \E d \in DoDestroy(t, r) : Store(t, d, NoCopy)
  BY DEF RollbackEdit
<1>3. Settled(t, r, w.sp)
  BY <1>1, RestoredInv DEF InCall
<1>4. /\ Whole(t, r.tr, r.sp, NoCopy)
      /\ \A s \in Elems(r.tr.splits) : r.sp[s].acc = r.sp[s].orig_acc /\ ~r.sp[s].destroying
      /\ Local(t, w.sp, r.sp)
      /\ Content(r.tr, r.sp, NoCopy) = Content(w.tr, w.sp, copy)
      /\ r.tr.editlevel = w.tr.editlevel - 1
      /\ ~r.tr.destroying
      /\ r.tr.read_only = copy.read_only
  BY <1>1, RestoredDone DEF InCall
<1>5. Content(r.tr, r.sp, NoCopy) = Committed(t) /\ Sound(Committed(t))
  BY <1>1, <1>4 DEF InCall
<1>6. Done(t, r, w.sp)
  BY <1>4, <1>5 DEF Done
<1>7. Frame(t, w.sp, r.sp) /\ Frame(t, split, w.sp) /\ Local(t, split, w.sp)
  BY <1>3 DEF Settled, InCall
<1>8. CASE Store(t, r, NoCopy)
  <2>1. Kept(t)
    BY <1>4, <1>5, <1>6, <1>7, <1>8, DoneKeeps
  <2>2. Committed(t)' = Content(r.tr, r.sp, NoCopy)
    <3>1. trans'[t] = r.tr /\ orig'[t] = NoCopy /\ split' = r.sp
      BY <1>8 DEF Store, IInv, TypeOK
    <3> QED
      BY <3>1 DEF Committed, Content
  <2> QED
    BY <1>5, <2>1, <2>2
<1>9. ASSUME RemoteDeletes, NEW d \in DoDestroy(t, r), Store(t, d, NoCopy)
      PROVE  Kept(t)
  <2>1. WInv(t, r, NoCopy) /\ Frame(t, split, r.sp) /\ Local(t, split, r.sp)
    BY <1>3, <1>4, <1>7, FrameTrans, LocalTrans DEF Settled
  <2>2. ~r.tr.read_only
    BY <1>1, <1>4, <1>9 DEF InCall, Whole, Destroyable
  <2>3. Done(t, d, r.sp) /\ d.tr = FreedTrans
    BY <1>4, <2>1, <2>2, DoDestroyDone
  <2>4. Settled(t, d, r.sp)
    BY <2>1, DoDestroyInv
  <2>5. FreedTrans.editlevel = 0 /\ ~FreedTrans.destroying
    BY DEF FreedTrans
  <2> QED
    BY <1>9, <2>1, <2>3, <2>4, <2>5, DoneKeeps DEF Settled
<1> QED
  BY <1>2, <1>8, <1>9

LEMMA InCallWithTrans ==
  ASSUME NEW t, NEW w, NEW copy, InCall(t, w, copy), NEW tr \in TransRecord,
         tr.splits = w.tr.splits, tr.live = w.tr.live, tr.read_only = w.tr.read_only
  PROVE  /\ InCall(t, WithTrans(w, tr), copy)
         /\ WithTrans(w, tr).tr = tr /\ WithTrans(w, tr).sp = w.sp
<1> DEFINE v == WithTrans(w, tr)
<1>1. WInv(t, v, copy) /\ v.tr = tr /\ v.sp = w.sp
  BY WithTransInv DEF InCall
<1>2. Whole(t, v.tr, v.sp, copy)
      /\ (copy # NoCopy => Content(v.tr, v.sp, copy) = Content(w.tr, w.sp, copy))
  BY <1>1, WholeWithTrans DEF InCall
<1> HIDE DEF v
<1>3. InCall(t, v, copy)
  BY <1>1, <1>2 DEF InCall
<1> QED
  BY <1>1, <1>3 DEF v

\* Scrubbing touches no field of the transaction but its list.
LEMMA ScrubKeepsFlag ==
  ASSUME NEW t \in Trans, NEW w, w.tr \in TransRecord, NEW v \in ScrubImbalance(t, w)
  PROVE  v.tr.destroying = w.tr.destroying
<1> DEFINE e == ScrubSplits(t, w)
<1>1. e.tr = w.tr
  BY DEF ScrubSplits, Work
<1>2. v = e \/ \E b \in BalanceSplits(t, e) : v = AddBalanceSplit(t, e, b)
  BY DEF ScrubImbalance
<1> HIDE DEF e
<1>3. ASSUME NEW b, v = AddBalanceSplit(t, e, b) PROVE v.tr.destroying = w.tr.destroying
  <2>1. \/ v.tr = [w.tr EXCEPT !.splits = Append(@, b)]
        \/ v.tr = w.tr
    BY <1>1, <1>3 DEF AddBalanceSplit, Work
  <2> QED
    BY <2>1 DEF TransRecord
<1> QED
  BY <1>1, <1>2, <1>3

\* An outermost commit leaves balanced content, or after a refusal what was.
LEMMA CommitEditKeeps ==
  ASSUME ~SplitRejects, Destroyable, IInv, JInv, NEW t \in Trans, NEW w,
         NEW copy \in Copies, InCall(t, w, copy), w.tr.editlevel = 1, w.tr.live,
         w.tr.destroying => "destroy" \in Calls, CommitEdit(t, w, copy)
  PROVE  Kept(t)
<1> DEFINE empty == StillHas(t, w) = {}
           flag == w.tr.destroying \/ empty
           begun == WithTrans(w, [w.tr EXCEPT !.destroying = flag])
           scrubbed == IF begun.tr.destroying THEN {begun} ELSE ScrubImbalance(t, begun)
<1>1. w.tr \in TransRecord
  BY DEF InCall, WInv, Typed
<1>2. /\ InCall(t, begun, copy) /\ begun.sp = w.sp
      /\ begun.tr.editlevel = 1 /\ begun.tr.live
      /\ begun.tr.destroying = flag
      /\ begun.tr.splits = w.tr.splits
      /\ begun.tr.read_only = w.tr.read_only
  <2> DEFINE tr == [w.tr EXCEPT !.destroying = flag]
  <2>1. flag \in BOOLEAN /\ begun = WithTrans(w, tr)
    BY <1>1 DEF TransRecord
  <2> HIDE DEF flag
  <2>2. tr \in TransRecord /\ tr.splits = w.tr.splits /\ tr.editlevel = 1
        /\ tr.live = w.tr.live /\ tr.read_only = w.tr.read_only /\ tr.destroying = flag
    BY <1>1, <2>1 DEF TransRecord
  <2> HIDE DEF tr, begun
  <2> QED
    BY <2>1, <2>2, InCallWithTrans, ZenonT(60)
<1>3. PICK v \in scrubbed :
        \/ LET clean == WithTrans(v, [v.tr EXCEPT !.dirty = @ /\ ~HasBackend])
           IN  \E d \in IF v.tr.destroying THEN DoDestroy(t, clean)
                                           ELSE CleanupCommit(t, clean) :
                 Store(t, d, NoCopy)
        \/ RollbackEdit(t, WithTrans(v, [v.tr EXCEPT !.destroying = FALSE]), copy)
  BY DEF CommitEdit
<1> HIDE DEF begun, empty
<1>4. /\ InCall(t, v, copy) /\ v.tr.editlevel = 1
      /\ v.tr.destroying => (v.tr.read_only => StillHas(t, v) = {})
      /\ ~v.tr.destroying => Even(t, v) /\ ImbalanceValue(t, v) = 0
  <2>1. CASE flag
    <3>1. v = begun
      BY <1>2, <1>3, <2>1
    <3>2. w.tr.read_only => StillHas(t, w) = {}
      BY <2>1 DEF empty, InCall, Whole, Destroyable
    <3>3. StillHas(t, begun) = StillHas(t, w)
      BY <1>2 DEF StillHas
    <3> QED
      BY <1>2, <2>1, <3>1, <3>2, <3>3
  <2>2. CASE ~flag
    <3>1. v \in ScrubImbalance(t, begun)
      BY <1>2, <1>3, <2>2
    <3>2. WInv(t, begun, copy) /\ Whole(t, begun.tr, begun.sp, copy)
      BY <1>2 DEF InCall
    <3>3. /\ WInv(t, v, copy) /\ Frame(t, begun.sp, v.sp)
          /\ v.tr.editlevel = begun.tr.editlevel
      BY <3>1, <3>2, ScrubImbalanceInv
    <3>4. /\ Whole(t, v.tr, v.sp, copy)
          /\ Local(t, begun.sp, v.sp)
          /\ copy # NoCopy => Content(v.tr, v.sp, copy) = Content(begun.tr, begun.sp, copy)
          /\ Even(t, v) /\ ImbalanceValue(t, v) = 0
      BY <1>2, <3>1, <3>2, ScrubbedWhole
    <3>5. ~v.tr.destroying
      <4>1. begun.tr \in TransRecord
        BY <3>2 DEF WInv, Typed
      <4>2. v.tr.destroying = begun.tr.destroying
        BY <3>1, <4>1, ScrubKeepsFlag
      <4> HIDE DEF flag
      <4> QED
        BY <1>2, <2>2, <4>2
    <3>6. InCall(t, v, copy)
      BY <1>2, <3>3, <3>4, FrameTrans, LocalTrans DEF InCall
    <3> QED
      BY <1>2, <3>3, <3>4, <3>5, <3>6
  <2> QED
    BY <2>1, <2>2
<1>5. v.tr \in TransRecord
  BY <1>4 DEF InCall, WInv, Typed
<1>6. ASSUME NEW d \in IF v.tr.destroying
                       THEN DoDestroy(t, WithTrans(v, [v.tr EXCEPT !.dirty = @ /\ ~HasBackend]))
                       ELSE CleanupCommit(t, WithTrans(v, [v.tr EXCEPT !.dirty = @ /\ ~HasBackend])),
             Store(t, d, NoCopy)
      PROVE  Kept(t)
  <2> DEFINE b == v.tr.dirty /\ ~HasBackend
             tr == [v.tr EXCEPT !.dirty = b]
             clean == WithTrans(v, tr)
  <2>1. b \in BOOLEAN
    OBVIOUS
  <2>2. IF v.tr.destroying THEN d \in DoDestroy(t, clean) ELSE d \in CleanupCommit(t, clean)
    BY <1>6
  <2> HIDE DEF b
  <2>3. tr \in TransRecord /\ tr.splits = v.tr.splits /\ tr.editlevel = v.tr.editlevel
        /\ tr.live = v.tr.live /\ tr.read_only = v.tr.read_only
        /\ tr.destroying = v.tr.destroying
    BY <1>5, <2>1 DEF TransRecord
  <2> HIDE DEF tr
  <2>4. InCall(t, clean, copy) /\ clean.tr = tr /\ clean.sp = v.sp
    BY <1>4, <2>3, InCallWithTrans
  <2> HIDE DEF clean
  <2>5. StillHas(t, clean) = StillHas(t, v)
    BY <2>3, <2>4 DEF StillHas
  <2>6. CASE v.tr.destroying
    <3>1. d \in DoDestroy(t, clean)
      BY <2>2, <2>6
    <3>2. clean.tr.read_only => StillHas(t, clean) = {}
      BY <1>4, <2>3, <2>4, <2>5, <2>6
    <3>3. Done(t, d, clean.sp) /\ d.tr = FreedTrans /\ Settled(t, d, clean.sp)
      BY <2>4, <3>1, <3>2, DoDestroyDone, DoDestroyInv DEF InCall
    <3>4. FreedTrans.editlevel = 0 /\ ~FreedTrans.destroying
      BY DEF FreedTrans
    <3> QED
      BY <1>6, <2>4, <3>3, <3>4, DoneKeeps DEF InCall, Settled
  <2>7. CASE ~v.tr.destroying
    <3>1. d \in CleanupCommit(t, clean)
      BY <2>2, <2>7
    <3>2. Even(t, clean) /\ ImbalanceValue(t, clean) = 0
      BY <1>4, <2>4, <2>5, <2>7 DEF Even, ImbalanceValue
    <3>3. clean.tr.editlevel = 1 /\ clean.tr.editlevel \in Nat \ {0}
      BY <1>4, <2>3, <2>4
    <3>4. /\ Done(t, d, clean.sp) /\ Settled(t, d, clean.sp)
          /\ d.tr.editlevel = 0 /\ ~d.tr.destroying
      BY <2>3, <2>4, <2>7, <3>1, <3>2, <3>3, CleanupCommitDone, CleanupCommitInv DEF InCall
    <3> QED
      BY <1>6, <2>4, <3>4, DoneKeeps DEF InCall, Settled
  <2> QED
    BY <2>6, <2>7
<1>7. ASSUME RollbackEdit(t, WithTrans(v, [v.tr EXCEPT !.destroying = FALSE]), copy)
      PROVE  Kept(t)
  <2> DEFINE tr == [v.tr EXCEPT !.destroying = FALSE]
             back == WithTrans(v, tr)
  <2>1. tr \in TransRecord /\ tr.splits = v.tr.splits /\ tr.editlevel = 1
        /\ tr.live = v.tr.live /\ tr.read_only = v.tr.read_only
    BY <1>4, <1>5 DEF TransRecord
  <2>2. RollbackEdit(t, back, copy)
    BY <1>7
  <2> HIDE DEF tr
  <2>3. InCall(t, back, copy) /\ back.tr = tr /\ back.sp = v.sp
    BY <1>4, <2>1, InCallWithTrans
  <2> HIDE DEF back
  <2> QED
    BY <2>1, <2>2, <2>3, RollbackEditKeeps
<1> QED
  BY <1>3, <1>6, <1>7

-----------------------------------------------------------------------------
(* The calls.                                                              *)

\* The copy of a transaction at rest holds its committed content.
LEMMA DupeWhole ==
  ASSUME IInv, JInv, NEW t \in Trans, trans[t].editlevel = 0
  PROVE  /\ Whole(t, trans[t], split, Dupe(t))
         /\ Content(trans[t], split, Dupe(t)) = Committed(t)
         /\ Sound(Committed(t))
<1> DEFINE list == trans[t].splits
           entry(s) == [of |-> s, amount |-> split[s].amount,
                        value |-> split[s].value, reconciled |-> split[s].reconciled]
           dupe == Dupe(t)
<1>1. /\ Whole(t, trans[t], split, orig[t]) /\ Peace(trans[t], split, orig[t])
      /\ orig[t] = NoCopy
  BY DEF IInv, JInv, AtRest
<1>2. /\ dupe.descr = trans[t].descr /\ dupe.read_only = trans[t].read_only
      /\ dupe.splits = [i \in DOMAIN list |-> entry(list[i])]
  BY DEF Dupe
<1> HIDE DEF dupe
<1>3. Whole(t, trans[t], split, dupe)
  <2>1. \A i \in DOMAIN dupe.splits : dupe.splits[i] = entry(list[i])
    BY <1>2
  <2>2. ASSUME NEW i \in DOMAIN dupe.splits
        PROVE  SameData(split[list[i]], dupe.splits[i])
    <3>1. dupe.splits[i] = entry(list[i])
      BY <2>1
    <3> DEFINE s == list[i]
    <3> HIDE DEF s, list
    <3>2. SameData(split[s], entry(s))
      BY DEF SameData
    <3> QED
      BY <3>1, <3>2 DEF s
  <2> QED
    <3>1. trans[t].read_only => "read_only" \in Calls
      BY <1>1 DEF Whole
    <3>2. \A i \in DOMAIN dupe.splits :
            split[list[i]].dirty \/ SameData(split[list[i]], dupe.splits[i])
      BY <2>2
    <3>3. dupe.read_only => "read_only" \in Calls
      BY <1>2, <3>1
    <3> HIDE DEF entry
    <3> QED
      BY <1>1, <3>2, <3>3 DEF Whole
<1>4. Content(trans[t], split, dupe) = Content(trans[t], split, NoCopy)
  <2> DEFINE ofCopy(i) == Entry(list[i], split[list[i]].orig_acc, dupe.splits[i])
             ofSplit(s) == Entry(s, split[s].acc, split[s])
  <2>1. ASSUME NEW i \in DOMAIN list PROVE ofCopy(i) = ofSplit(list[i])
    <3>1. dupe.splits[i] = entry(list[i])
      BY <1>2
    <3>2. split[list[i]].acc = split[list[i]].orig_acc
      BY <1>1 DEF Peace, Elems
    <3> DEFINE s == list[i]
    <3>3. Entry(s, split[s].orig_acc, entry(s)) = Entry(s, split[s].orig_acc, split[s])
      BY DEF Entry
    <3> HIDE DEF entry
    <3> QED
      BY <3>1, <3>2, <3>3
  <2> HIDE DEF entry, ofCopy, ofSplit
  <2>2. {ofCopy(i) : i \in DOMAIN dupe.splits} = {ofSplit(s) : s \in Elems(list)}
    <3>1. DOMAIN dupe.splits = DOMAIN list
      BY <1>2
    <3> QED
      BY <2>1, <3>1 DEF Elems
  <2>3. dupe # NoCopy
    BY NullIsNoCopy, DupeInv DEF dupe
  <2> QED
    BY <1>2, <2>2, <2>3 DEF Content, ofCopy, ofSplit
<1>5. Sound(Committed(t)) /\ Committed(t) = Content(trans[t], split, NoCopy)
  BY <1>1 DEF Peace, Committed
<1> QED
  BY <1>3, <1>4, <1>5 DEF dupe

\* A setter, within an edit of the caller or one of its own.
LEMMA EditKeeps ==
  ASSUME ~SplitRejects, Destroyable, IInv, JInv, NEW t \in Trans, trans[t].live,
         NEW w, Edited(t, w), Revised(t, trans[t], split, w.tr, w.sp),
         w.tr.destroying => "destroy" \in Calls, Edit(t, w)
  PROVE  Kept(t)
<1>1. /\ trans[t] \in TransRecord /\ split \in [Split -> SplitRecord]
      /\ trans[t].editlevel \in Nat /\ orig[t] \in Copies
      /\ w.tr \in TransRecord /\ w.sp \in [Split -> SplitRecord]
  BY CurrentFields DEF TransRecord, Edited, Typed
<1>2. /\ Owned(t, trans[t], split) /\ Front(t, trans[t], split, orig[t])
      /\ Whole(t, trans[t], split, orig[t]) /\ Peace(trans[t], split, orig[t])
  BY DEF IInv, JInv
<1>3. CASE trans[t].editlevel > 0
  <2>1. Store(t, w, orig[t])
    BY <1>3 DEF Edit
  <2>2. /\ Whole(t, w.tr, w.sp, orig[t]) /\ Local(t, split, w.sp)
        /\ orig[t] # NoCopy => Content(w.tr, w.sp, orig[t])
                                 = Content(trans[t], split, orig[t])
    BY <1>1, <1>2, RevisedWhole
  <2>3. trans[t].editlevel # 0 /\ w.tr.editlevel # 0
    BY <1>1, <1>3 DEF Edited
  <2>4. Peace(w.tr, w.sp, orig[t])
    BY <1>2, <2>2, <2>3 DEF Peace
  <2>5. orig[t] # NoCopy \/ trans[t].editlevel = 0 =>
          Content(w.tr, w.sp, orig[t]) = Committed(t)
    BY <2>2, <2>3 DEF Committed
  <2> QED
    BY <1>1, <2>1, <2>2, <2>4, <2>5, StoreKeeps DEF Edited
<1>4. CASE ~(trans[t].editlevel > 0)
  <2>1. CommitEdit(t, Begun(w), Dupe(t)) /\ trans[t].editlevel = 0
    BY <1>1, <1>4 DEF Edit
  <2>2. Dupe(t) \in Copies /\ Front(t, trans[t], split, Dupe(t))
    BY <2>1, DupeInv
  <2>3. /\ Whole(t, trans[t], split, Dupe(t))
        /\ Content(trans[t], split, Dupe(t)) = Committed(t)
        /\ Sound(Committed(t))
    BY <2>1, DupeWhole
  <2>4. /\ Whole(t, w.tr, w.sp, Dupe(t)) /\ Local(t, split, w.sp)
        /\ Dupe(t) # NoCopy => Content(w.tr, w.sp, Dupe(t)) = Committed(t)
    BY <1>1, <1>2, <2>2, <2>3, RevisedWhole
  <2>5. InCall(t, w, Dupe(t))
    BY <2>2, <2>3, <2>4 DEF InCall, Edited, WInv
  <2> DEFINE b == w.tr.dirty \/ ~HasBackend
             tr == [w.tr EXCEPT !.editlevel = 1, !.dirty = b]
  <2>6. b \in BOOLEAN /\ Begun(w) = WithTrans(w, tr)
    BY DEF Begun
  <2> HIDE DEF b
  <2>7. tr \in TransRecord /\ tr.splits = w.tr.splits /\ tr.editlevel = 1
        /\ tr.live = w.tr.live /\ tr.read_only = w.tr.read_only
        /\ tr.destroying = w.tr.destroying
    BY <1>1, <2>6 DEF TransRecord
  <2> HIDE DEF tr
  <2>8. InCall(t, Begun(w), Dupe(t)) /\ Begun(w).tr = tr
    BY <2>5, <2>6, <2>7, InCallWithTrans
  <2>9. w.tr.live
    BY DEF Edited
  <2> QED
    BY <2>1, <2>2, <2>7, <2>8, <2>9, CommitEditKeeps
<1> QED
  BY <1>3, <1>4

LEMMA ChangeKeeps ==
  ASSUME ~SplitRejects, Destroyable, IInv, JInv, NEW t \in Trans, Change(t)
  PROVE  Kept(t)
<1>1. PICK w : /\ Edit(t, w)
               /\ Edited(t, w)
               /\ Revised(t, trans[t], split, w.tr, w.sp)
               /\ trans[t].live \/ Elems(trans[t].splits) # {}
               /\ w.tr.destroying => trans[t].destroying \/ "destroy" \in Calls
  BY DEF Change
<1>2. trans[t].live
  <2>1. Elems(<<>>) = {}
    BY DEF Elems
  <2> QED
    BY <1>1, <2>1 DEF JInv, Whole
<1>3. w.tr.destroying => "destroy" \in Calls
  BY <1>1 DEF JInv, Peace
<1> QED
  BY <1>1, <1>2, <1>3, EditKeeps

LEMMA SetLevelKeeps ==
  ASSUME IInv, JInv, NEW t \in Trans, NEW n \in Nat \ {0}, trans[t].editlevel # 0,
         SetLevel(t, n)
  PROVE  Kept(t)
<1> DEFINE tr == [trans[t] EXCEPT !.editlevel = n]
           w == WithTrans(Current(t), tr)
<1>1. tr \in TransRecord /\ tr.splits = trans[t].splits /\ tr.editlevel = n
      /\ tr.live = trans[t].live /\ tr.read_only = trans[t].read_only
      /\ tr.destroying = trans[t].destroying
  BY CurrentFields DEF TransRecord
<1>2. Store(t, w, orig[t])
  BY DEF SetLevel
<1> HIDE DEF tr
<1>3. WInv(t, w, orig[t]) /\ w.tr = tr /\ w.sp = split
  BY <1>1, CurrentFields, WithTransInv
<1> HIDE DEF w
<1>4. Whole(t, trans[t], split, orig[t]) /\ Peace(trans[t], split, orig[t])
  BY DEF JInv
<1>5. /\ Whole(t, w.tr, w.sp, orig[t])
      /\ orig[t] # NoCopy => Content(w.tr, w.sp, orig[t]) = Content(trans[t], split, orig[t])
  BY <1>1, <1>3, <1>4, WholeWithTrans
<1>6. Peace(w.tr, w.sp, orig[t])
  BY <1>1, <1>3, <1>4, <1>5 DEF Peace
<1>7. Frame(t, split, w.sp) /\ Local(t, split, w.sp)
  BY <1>3 DEF Frame, Local
<1>8. orig[t] # NoCopy \/ trans[t].editlevel = 0 =>
        Content(w.tr, w.sp, orig[t]) = Committed(t)
  BY <1>5 DEF Committed
<1> QED
  BY <1>2, <1>5, <1>6, <1>7, <1>8, CurrentFields, StoreKeeps

LEMMA BeginEditKeeps ==
  ASSUME IInv, JInv, NEW t \in Trans, TransBeginEdit(t)
  PROVE  Kept(t)
<1>1. trans[t].editlevel \in Nat
  BY CurrentFields DEF TransRecord
<1>2. CASE trans[t].editlevel = 0
  <2> DEFINE b == trans[t].dirty \/ ~HasBackend
             tr == [trans[t] EXCEPT !.editlevel = 1, !.dirty = b]
             w == Begun(Current(t))
             dupe == Dupe(t)
  <2>1. Store(t, w, dupe)
    BY <1>2 DEF TransBeginEdit
  <2>2. b \in BOOLEAN /\ w = WithTrans(Current(t), tr)
    BY CurrentFields DEF Begun
  <2> HIDE DEF b
  <2>3. tr \in TransRecord /\ tr.splits = trans[t].splits /\ tr.editlevel = 1
        /\ tr.live = trans[t].live /\ tr.read_only = trans[t].read_only
        /\ tr.destroying = trans[t].destroying
    BY <2>2, CurrentFields DEF TransRecord
  <2>4. /\ Whole(t, trans[t], split, dupe)
        /\ Content(trans[t], split, dupe) = Committed(t)
        /\ Sound(Committed(t))
        /\ dupe \in Copies /\ dupe # NoCopy
    BY <1>2, DupeWhole, DupeInv, NullIsNoCopy
  <2> HIDE DEF tr, w, dupe
  <2>5. w.tr = tr /\ w.sp = split
    BY <2>2, CurrentFields DEF WithTrans, Work
  <2>6. Whole(t, w.tr, w.sp, dupe) /\ Content(w.tr, w.sp, dupe) = Committed(t)
    BY <2>3, <2>4, <2>5, WholeWithTrans
  <2>7. trans[t].destroying => "destroy" \in Calls
    BY DEF JInv, Peace
  <2>8. Peace(w.tr, w.sp, dupe)
    BY <2>3, <2>4, <2>5, <2>6, <2>7 DEF Peace
  <2>9. Frame(t, split, w.sp) /\ Local(t, split, w.sp)
    BY <2>5 DEF Frame, Local
  <2> QED
    BY <2>1, <2>4, <2>6, <2>8, <2>9, StoreKeeps
<1>3. CASE trans[t].editlevel # 0
  <2>1. SetLevel(t, trans[t].editlevel + 1) /\ trans[t].editlevel + 1 \in Nat \ {0}
    BY <1>1, <1>3 DEF TransBeginEdit
  <2> QED
    BY <1>3, <2>1, SetLevelKeeps
<1> QED
  BY <1>2, <1>3

LEMMA MallocKeeps ==
  ASSUME IInv, JInv, NEW t \in Trans, MallocTransaction(t)
  PROVE  Kept(t)
<1> DEFINE new == [FreedTrans EXCEPT !.live = TRUE, !.dirty = TRUE]
           w == Work(new, split, acct, cached)
<1>1. new \in TransRecord /\ new.splits = <<>> /\ new.live /\ new.editlevel = 0
      /\ ~new.read_only /\ ~new.destroying
  BY FreedTypes DEF TransRecord, FreedTrans
<1>2. Elems(<<>>) = {} /\ DOMAIN <<>> = {}
  BY DEF Elems
<1>3. ~trans[t].live /\ trans' = [trans EXCEPT ![t] = new]
      /\ UNCHANGED <<orig, split, acct, cached>>
  BY DEF MallocTransaction
<1> HIDE DEF new
<1>4. w.tr = new /\ w.sp = split /\ w.ac = acct /\ w.ca = cached
  BY DEF Work
<1> HIDE DEF w
<1>5. orig[t] = NoCopy /\ orig \in [Trans -> Copies]
  BY <1>3 DEF IInv, AtRest, TypeOK, Copies
<1>6. Store(t, w, NoCopy) /\ NoCopy \in Copies
  BY <1>3, <1>4, <1>5 DEF Store, Copies
<1>7. trans[t].splits = <<>>
  BY <1>3 DEF JInv, Whole
<1>8. \A s \in Split : ~(split[s].live /\ split[s].parent = t)
  BY <1>2, <1>7 DEF JInv, Whole
<1>9. Whole(t, w.tr, w.sp, NoCopy)
  BY <1>1, <1>2, <1>4, <1>8 DEF Whole
<1>10. Sound(Content(w.tr, w.sp, NoCopy))
  BY <1>1, <1>2, <1>4, CurrentFields, SumEmpty, SoundList, ZenonT(60)
<1>11. Peace(w.tr, w.sp, NoCopy)
  BY <1>1, <1>2, <1>4, <1>10 DEF Peace
<1>12. Frame(t, split, w.sp) /\ Local(t, split, w.sp)
  BY <1>4 DEF Frame, Local
<1> QED
  BY <1>1, <1>4, <1>6, <1>9, <1>11, <1>12, StoreKeeps

LEMMA CurrentInCall ==
  ASSUME IInv, JInv, NEW t \in Trans
  PROVE  /\ InCall(t, Current(t), orig[t]) /\ orig[t] \in Copies
         /\ Current(t).tr = trans[t]
         /\ trans[t].destroying => "destroy" \in Calls
<1>1. Whole(t, trans[t], split, orig[t]) /\ Peace(trans[t], split, orig[t])
  BY DEF JInv
<1>2. Local(t, split, split)
  BY DEF Local
<1>3. /\ WInv(t, Current(t), orig[t]) /\ Frame(t, split, split) /\ orig[t] \in Copies
      /\ Current(t).tr = trans[t] /\ Current(t).sp = split
  BY CurrentFields
<1>4. orig[t] # NoCopy => Content(trans[t], split, orig[t]) = Committed(t)
                          /\ Sound(Committed(t))
  BY <1>1 DEF Peace, Committed
<1> QED
  BY <1>1, <1>2, <1>3, <1>4 DEF InCall, Peace

LEMMA RollbackKeeps ==
  ASSUME ~SplitRejects, Destroyable, IInv, JInv, NEW t \in Trans, TransRollbackEdit(t)
  PROVE  Kept(t) /\ (RemoteDeletes \/ Committed(t)' = Committed(t))
<1>1. RollbackEdit(t, Current(t), orig[t]) /\ trans[t].editlevel \in Nat \ {0}
  BY CurrentFields DEF TransRollbackEdit, IsOpen, TransRecord
<1> QED
  BY <1>1, CurrentInCall, RollbackEditKeeps

LEMMA TransCallKeeps ==
  ASSUME ~SplitRejects, Destroyable, IInv, JInv, NEW t \in Trans, TransCall(t)
  PROVE  Kept(t)
<1>1. CASE MallocTransaction(t)
  BY <1>1, MallocKeeps
<1>2. CASE TransBeginEdit(t)
  BY <1>2, BeginEditKeeps
<1>3. CASE TransCommitEdit(t)
  <2>1. trans[t].editlevel \in Nat \ {0} /\ trans[t].live
    BY <1>3, CurrentFields DEF TransCommitEdit, IsOpen, TransRecord
  <2>2. CASE trans[t].editlevel > 1
    <3>1. SetLevel(t, trans[t].editlevel - 1) /\ trans[t].editlevel - 1 \in Nat \ {0}
          /\ trans[t].editlevel # 0
      BY <1>3, <2>1, <2>2 DEF TransCommitEdit
    <3> QED
      BY <3>1, SetLevelKeeps
  <2>3. CASE ~(trans[t].editlevel > 1)
    <3>1. CommitEdit(t, Current(t), orig[t]) /\ trans[t].editlevel = 1
      BY <1>3, <2>1, <2>3 DEF TransCommitEdit
    <3> QED
      BY <2>1, <3>1, CurrentInCall, CommitEditKeeps
  <2> QED
    BY <2>2, <2>3
<1>4. CASE TransRollbackEdit(t)
  BY <1>4, RollbackKeeps
<1>5. CASE Change(t)
  BY <1>5, ChangeKeeps
<1> QED
  BY <1>1, <1>2, <1>3, <1>4, <1>5, TransCallCases

LEMMA SplitCallKeeps ==
  ASSUME ~SplitRejects, Destroyable, IInv, JInv, NEW s \in Split, SplitCall(s)
  PROVE  \E t \in Trans : Kept(t)
BY SplitCallCases, BeginEditKeeps, ChangeKeeps

-----------------------------------------------------------------------------
(* The whole specification.                                                *)

LEMMA InitJInv == Init => JInv
<1> SUFFICES ASSUME Init PROVE JInv
  OBVIOUS
<1>1. FreedTrans.splits = <<>> /\ FreedTrans.editlevel = 0 /\ ~FreedTrans.read_only
      /\ ~FreedTrans.destroying /\ Elems(<<>>) = {} /\ DOMAIN <<>> = {}
  BY DEF FreedTrans, Elems
<1>2. FreedTrans \in TransRecord /\ split \in [Split -> SplitRecord]
      /\ \A s \in Split : ~split[s].live
  BY FreedTypes DEF Init, FreedSplit
<1>3. Sound(Content(FreedTrans, split, NoCopy))
  BY <1>1, <1>2, SumEmpty, SoundList
<1>4. ASSUME NEW t \in Trans
      PROVE  Whole(t, trans[t], split, orig[t]) /\ Peace(trans[t], split, orig[t])
  <2>1. trans[t] = FreedTrans /\ orig[t] = NoCopy
    BY DEF Init
  <2> QED
    BY <1>1, <1>2, <1>3, <2>1 DEF Whole, Peace
<1> QED
  BY <1>2, <1>4 DEF JInv

\* A step is a call on one transaction, or touches none.
LEMMA StepKeeps ==
  ASSUME ~SplitRejects, Destroyable, IInv, JInv, [Next]_vars
  PROVE  (\E t \in Trans : Kept(t)) \/ UNCHANGED <<trans, orig, split>>
<1>1. CASE UNCHANGED vars
  BY <1>1 DEF vars
<1>2. ASSUME NEW t \in Trans, TransCall(t) PROVE Kept(t)
  BY <1>2, TransCallKeeps
<1>3. ASSUME NEW s \in Split, SplitCall(s) PROVE \E t \in Trans : Kept(t)
  BY <1>3, SplitCallKeeps
<1>4. ASSUME NEW a \in Account, AccountCall(a) PROVE UNCHANGED <<trans, orig, split>>
  BY <1>4 DEF AccountCall, AccountBeginEdit, AccountCommitEdit, AccountGetSplitList
<1> QED
  BY <1>1, <1>2, <1>3, <1>4 DEF Next

LEMMA StepJInv ==
  ASSUME ~SplitRejects, Destroyable, IInv, JInv, [Next]_vars
  PROVE  JInv'
<1>1. CASE UNCHANGED <<trans, orig, split>>
  BY <1>1 DEF JInv, Whole, Peace, Content, Sound
<1> QED
  BY <1>1, StepKeeps DEF Kept

LEMMA SpecJInv ==
  ~SplitRejects /\ Destroyable => (Spec => [](IInv /\ JInv))
<1> SUFFICES ASSUME ~SplitRejects, Destroyable PROVE Spec => [](IInv /\ JInv)
  OBVIOUS
<1>1. IInv /\ JInv /\ [Next]_vars => (IInv /\ JInv)'
  BY StepIInv, StepJInv
<1> QED
  BY InitIInv, InitJInv, <1>1, PTL DEF Spec

\* Between edits every transaction balances, each of its splits is in the
\* account that lists it, and its list is exactly its splits: however the
\* edits of several transactions interleave, fail in the backend or are
\* rolled back.
THEOREM Consistent ==
  ~SplitRejects /\ Destroyable => (Spec => []ClosedIsConsistent)
<1>1. ASSUME IInv, JInv, NEW t \in Trans, Closed(t)
      PROVE  LET own == Elems(trans[t].splits)
             IN  /\ SumFunctionOnSet([s \in Split |-> split[s].value], own) = 0
                 /\ own = {s \in Split : split[s].live /\ split[s].parent = t}
                 /\ \A s \in own :
                      /\ split[s].amount = split[s].value
                      /\ split[s].acc \in Account
                      /\ split[s].orig_acc = split[s].acc
                      /\ ~split[s].destroying
  <2> DEFINE own == Elems(trans[t].splits)
             c == Content(trans[t], split, NoCopy)
  <2>1. trans[t] \in TransRecord /\ split \in [Split -> SplitRecord]
    BY <1>1, CurrentFields
  <2>2. orig[t] = NoCopy /\ trans[t].editlevel = 0
    BY <1>1 DEF Closed, IInv, AtRest
  <2>3. /\ Whole(t, trans[t], split, NoCopy) /\ Peace(trans[t], split, NoCopy)
        /\ Owned(t, trans[t], split)
    BY <1>1, <2>2 DEF IInv, JInv
  <2>4. Sound(c)
    BY <2>2, <2>3 DEF Peace
  <2>5. own \subseteq Split
    BY <2>1, ElemsOfList DEF TransRecord
  <2>6. c.entries = {Entry(s, split[s].acc, split[s]) : s \in own}
    BY DEF Content
  <2>7. SumFunctionOnSet([s \in Split |-> split[s].value], own) = 0
    <3>1. SumFunctionOnSet([e \in c.entries |-> e.value], c.entries) = 0
      BY <2>4, BalancedMeans DEF Sound
    <3> QED
      BY <2>1, <3>1, ContentSum
  <2>8. own = {s \in Split : split[s].live /\ split[s].parent = t}
    BY <2>3, <2>5 DEF Owned, Whole
  <2>9. ASSUME NEW s \in own
        PROVE  /\ split[s].amount = split[s].value
               /\ split[s].acc \in Account
               /\ split[s].orig_acc = split[s].acc
               /\ ~split[s].destroying
    <3>1. split[s].acc = split[s].orig_acc /\ ~split[s].destroying
      BY <2>2, <2>3 DEF Peace
    <3>2. PICK e \in c.entries : e = Entry(s, split[s].acc, split[s])
      BY <2>6
    <3> HIDE DEF c
    <3>3. e.amount = e.value /\ e.acc \in Account
      BY <2>4, BalancedMeans DEF Sound
    <3> QED
      BY <3>1, <3>2, <3>3 DEF Entry
  <2> QED
    BY <2>7, <2>8, <2>9
<1>2. IInv /\ JInv => ClosedIsConsistent
  BY <1>1 DEF ClosedIsConsistent
<1> QED
  BY <1>2, SpecJInv, PTL

\* Destroying a transaction takes its splits with it, whatever the backend
\* answers, unless the transaction is made read-only between xaccTransDestroy
\* and the commit.
THEOREM SplitsGoWithTrans ==
  ~SplitRejects /\ Destroyable => (Spec => []NoSplitOutlivesTrans)
<1>1. IInv /\ JInv => NoSplitOutlivesTrans
  <2> SUFFICES ASSUME IInv, JInv, NEW s \in Split, split[s].live
               PROVE  split[s].parent \in Trans /\ trans[split[s].parent].live
    BY DEF NoSplitOutlivesTrans
  <2>1. split[s].parent \in Trans
    BY DEF JInv
  <2>2. s \in Elems(trans[split[s].parent].splits)
    BY <2>1 DEF JInv, Whole
  <2>3. Elems(<<>>) = {}
    BY DEF Elems
  <2> QED
    BY <2>1, <2>2, <2>3 DEF JInv, Whole
<1> QED
  BY <1>1, SpecJInv, PTL

\* xaccTransRollbackEdit puts back exactly what was committed, however many
\* splits were added, changed, moved or destroyed since xaccTransBeginEdit.
THEOREM RollbackIsExact ==
  ~SplitRejects /\ Destroyable => (Spec => RollbackRestores)
<1> SUFFICES ASSUME ~SplitRejects, Destroyable PROVE Spec => RollbackRestores
  OBVIOUS
<1>1. IInv /\ JInv /\ [Next]_vars =>
        [\A t \in Trans :
           TransRollbackEdit(t) /\ ~RemoteDeletes => Committed(t)' = Committed(t)]_vars
  BY RollbackKeeps
<1> QED
  BY <1>1, SpecJInv, PTL DEF RollbackRestores, Spec

-----------------------------------------------------------------------------
(* An open edit has a copy, and edits are atomic.                          *)

\* A rollback at level two would leave the edit open without its copy.
Flat == "rollback" \in Calls => MaxLevel = 1

OInv ==
  \A t \in Trans : /\ trans[t].editlevel <= MaxLevel
                   /\ trans[t].editlevel > 0 => orig[t] # NoCopy

LEMMA StoreOpens ==
  ASSUME IInv, OInv, NEW t \in Trans, NEW w, NEW copy, Store(t, w, copy),
         w.tr.editlevel = 0 \/ (w.tr.editlevel <= MaxLevel /\ copy # NoCopy)
  PROVE  OInv'
<1>1. /\ trans' = [trans EXCEPT ![t] = w.tr] /\ orig' = [orig EXCEPT ![t] = copy]
      /\ DOMAIN trans = Trans /\ DOMAIN orig = Trans
  BY DEF Store, IInv, TypeOK
<1>2. MaxLevel \in Nat \ {0}
  BY LevelsArePositive
<1>3. ASSUME NEW u \in Trans
      PROVE  /\ trans'[u].editlevel <= MaxLevel
             /\ trans'[u].editlevel > 0 => orig'[u] # NoCopy
  <2>1. CASE u = t
    <3>1. trans'[u] = w.tr /\ orig'[u] = copy
      BY <1>1, <2>1
    <3> QED
      BY <1>2, <3>1
  <2>2. CASE u # t
    <3>1. trans'[u] = trans[u] /\ orig'[u] = orig[u]
      BY <1>1, <2>2
    <3> QED
      BY <3>1 DEF OInv
  <2> QED
    BY <2>1, <2>2
<1> QED
  BY <1>3 DEF OInv

LEMMA CommitKeepsTrans ==
  ASSUME NEW w, NEW S, NEW d \in CommitAll(w, S)
  PROVE  d.tr = w.tr
<1>1. PICK F \in Refusals(S) : d = CommitSplits(w, S, F)
  BY DEF CommitAll
<1> QED
  BY <1>1 DEF CommitSplits, Work

LEMMA DestroyedTrans ==
  ASSUME NEW t, NEW w, NEW d \in DoDestroy(t, w)
  PROVE  d.tr.editlevel = 0
<1>1. \E sp, S : d \in CommitAll(Work(FreedTrans, sp, w.ac, w.ca), S)
  BY DEF DoDestroy
<1>2. d.tr = FreedTrans
  BY <1>1, CommitKeepsTrans, WorkFields
<1> QED
  BY <1>2 DEF FreedTrans

LEMMA RollbackCloses ==
  ASSUME IInv, OInv, NEW t \in Trans, NEW w, w.tr \in TransRecord, w.tr.editlevel = 1,
         NEW copy, RollbackEdit(t, w, copy)
  PROVE  OInv'
<1>1. PICK r \in Restored(t, w, copy) :
        Store(t, r, NoCopy) \/ \E d \in DoDestroy(t, r) : Store(t, d, NoCopy)
  BY DEF RollbackEdit
<1> DEFINE reverted(q) ==
             [w.tr EXCEPT !.descr = copy.descr, !.read_only = copy.read_only,
                          !.splits = q, !.destroying = FALSE, !.editlevel = @ - 1]
<1>2. PICK q : r.tr = reverted(q)
  <2>1. \E q, sp : r = Work(reverted(q), sp, w.ac, w.ca)
    BY DEF Restored
  <2> HIDE DEF reverted
  <2> QED
    BY <2>1, WorkFields
<1>3. r.tr.editlevel = 0
  BY <1>2 DEF TransRecord
<1> QED
  BY <1>1, <1>3, StoreOpens, DestroyedTrans

LEMMA CleanupCloses ==
  ASSUME NEW t, NEW w, w.tr \in TransRecord, w.tr.editlevel = 1,
         NEW d \in CleanupCommit(t, w)
  PROVE  d.tr.editlevel = 0
<1> DEFINE closed(q) == [w.tr EXCEPT !.splits = q, !.editlevel = @ - 1]
<1>1. \E q, S : d \in CommitAll(Work(closed(q), w.sp, w.ac, w.ca), S)
  BY ZenonT(60) DEF CleanupCommit
<1>2. PICK q : d.tr = closed(q)
  <2> HIDE DEF closed
  <2> QED
    BY <1>1, CommitKeepsTrans, WorkFields
<1> QED
  BY <1>2 DEF TransRecord

LEMMA CommitCloses ==
  ASSUME IInv, OInv, NEW t \in Trans, NEW w, NEW copy \in Copies, WInv(t, w, copy),
         w.tr.editlevel = 1, CommitEdit(t, w, copy)
  PROVE  OInv'
<1> DEFINE empty == StillHas(t, w) = {}
           flag == w.tr.destroying \/ empty
           tr == [w.tr EXCEPT !.destroying = flag]
           begun == WithTrans(w, tr)
<1>1. PICK v \in IF begun.tr.destroying THEN {begun} ELSE ScrubImbalance(t, begun) :
        \/ LET clean == WithTrans(v, [v.tr EXCEPT !.dirty = @ /\ ~HasBackend])
           IN  \E d \in IF v.tr.destroying THEN DoDestroy(t, clean)
                                           ELSE CleanupCommit(t, clean) :
                 Store(t, d, NoCopy)
        \/ RollbackEdit(t, WithTrans(v, [v.tr EXCEPT !.destroying = FALSE]), copy)
  BY DEF CommitEdit
<1>2. flag \in BOOLEAN /\ w.tr \in TransRecord
  BY DEF WInv, Typed, TransRecord
<1> HIDE DEF flag
<1>3. tr \in TransRecord /\ tr.editlevel = 1 /\ tr.splits = w.tr.splits
  BY <1>2 DEF TransRecord
<1> HIDE DEF tr
<1>4. begun.tr = tr /\ WInv(t, begun, copy)
  BY <1>3, WithTransInv
<1> HIDE DEF begun
<1>5. v.tr.editlevel = 1 /\ WInv(t, v, copy)
  BY <1>1, <1>3, <1>4, ScrubImbalanceInv
<1>6. v.tr \in TransRecord
  BY <1>5 DEF WInv, Typed
<1> DEFINE dirty == v.tr.dirty /\ ~HasBackend
           cleaned == [v.tr EXCEPT !.dirty = dirty]
           kept == [v.tr EXCEPT !.destroying = FALSE]
<1>7. dirty \in BOOLEAN
  OBVIOUS
<1>8. \/ \E d \in DoDestroy(t, WithTrans(v, cleaned)) : Store(t, d, NoCopy)
      \/ \E d \in CleanupCommit(t, WithTrans(v, cleaned)) : Store(t, d, NoCopy)
      \/ RollbackEdit(t, WithTrans(v, kept), copy)
  BY <1>1
<1> HIDE DEF dirty
<1>9. /\ cleaned \in TransRecord /\ cleaned.editlevel = 1
      /\ kept \in TransRecord /\ kept.editlevel = 1
  BY <1>5, <1>6, <1>7 DEF TransRecord
<1> HIDE DEF cleaned, kept
<1>10. WithTrans(v, cleaned).tr = cleaned /\ WithTrans(v, kept).tr = kept
  BY DEF WithTrans, Work
<1> QED
  BY <1>8, <1>9, <1>10, DestroyedTrans, CleanupCloses, RollbackCloses, StoreOpens

LEMMA EditOpens ==
  ASSUME IInv, OInv, NEW t \in Trans, NEW w, Edited(t, w), Edit(t, w)
  PROVE  OInv'
<1>1. trans[t].editlevel \in Nat /\ w.tr.editlevel = trans[t].editlevel
  BY CurrentFields DEF TransRecord, Edited
<1>2. CASE trans[t].editlevel > 0
  <2>1. Store(t, w, orig[t])
    BY <1>2 DEF Edit
  <2> QED
    BY <1>1, <1>2, <2>1, StoreOpens DEF OInv
<1>3. CASE ~(trans[t].editlevel > 0)
  <2>1. CommitEdit(t, Begun(w), Dupe(t)) /\ trans[t].editlevel = 0
    BY <1>1, <1>3 DEF Edit
  <2>2. WInv(t, w, Dupe(t)) /\ w.tr \in TransRecord /\ Dupe(t) \in Copies
    BY <2>1, DupeInv DEF Edited, WInv, Typed
  <2> DEFINE b == w.tr.dirty \/ ~HasBackend
             tr == [w.tr EXCEPT !.editlevel = 1, !.dirty = b]
  <2>3. b \in BOOLEAN /\ Begun(w) = WithTrans(w, tr)
    BY DEF Begun
  <2> HIDE DEF b
  <2>4. tr \in TransRecord /\ tr.splits = w.tr.splits /\ tr.editlevel = 1
    BY <2>2, <2>3 DEF TransRecord
  <2> HIDE DEF tr
  <2>5. WInv(t, Begun(w), Dupe(t)) /\ Begun(w).tr = tr
    BY <2>2, <2>3, <2>4, WithTransInv
  <2> QED
    BY <2>1, <2>2, <2>4, <2>5, CommitCloses
<1> QED
  BY <1>2, <1>3

LEMMA SetLevelOpens ==
  ASSUME IInv, OInv, NEW t \in Trans, trans[t].editlevel > 0,
         NEW n \in Nat, n <= MaxLevel, SetLevel(t, n)
  PROVE  OInv'
<1> DEFINE tr == [trans[t] EXCEPT !.editlevel = n]
           w == WithTrans(Current(t), tr)
<1>1. Store(t, w, orig[t]) /\ orig[t] # NoCopy
  BY DEF SetLevel, OInv
<1>2. w.tr.editlevel = n
  BY CurrentFields DEF WithTrans, Work, TransRecord
<1> HIDE DEF w
<1> QED
  BY <1>1, <1>2, StoreOpens

LEMMA BeginEditOpens ==
  ASSUME IInv, OInv, NEW t \in Trans, TransBeginEdit(t)
  PROVE  OInv'
<1>1. trans[t].editlevel \in Nat /\ trans[t].editlevel < MaxLevel /\ MaxLevel \in Nat
  BY CurrentFields, LevelsArePositive DEF TransRecord, TransBeginEdit
<1>2. CASE trans[t].editlevel = 0
  <2> DEFINE w == Begun(Current(t))
             dupe == Dupe(t)
  <2>1. Store(t, w, dupe)
    BY <1>2 DEF TransBeginEdit
  <2>2. w.tr.editlevel = 1
    BY CurrentFields DEF Begun, WithTrans, Work, TransRecord
  <2>3. dupe # NoCopy
    BY <1>2, DupeInv, NullIsNoCopy
  <2> HIDE DEF w, dupe
  <2> QED
    BY <1>1, <1>2, <2>1, <2>2, <2>3, StoreOpens
<1>3. CASE trans[t].editlevel # 0
  <2>1. SetLevel(t, trans[t].editlevel + 1) /\ trans[t].editlevel + 1 \in Nat
        /\ trans[t].editlevel + 1 <= MaxLevel /\ trans[t].editlevel > 0
    BY <1>1, <1>3 DEF TransBeginEdit
  <2> QED
    BY <2>1, SetLevelOpens
<1> QED
  BY <1>2, <1>3

LEMMA StepOInv == ~SplitRejects /\ Flat /\ IInv /\ OInv /\ [Next]_vars => OInv'
<1> SUFFICES ASSUME ~SplitRejects, Flat, IInv, OInv, [Next]_vars PROVE OInv'
  OBVIOUS
<1>1. ASSUME NEW t \in Trans, Change(t) PROVE OInv'
  BY <1>1, EditOpens DEF Change
<1>2. ASSUME NEW t \in Trans, TransCall(t) PROVE OInv'
  <2>1. CASE MallocTransaction(t)
    <3>1. \A u \in Trans : trans'[u].editlevel = IF u = t THEN 0 ELSE trans[u].editlevel
      BY <2>1 DEF MallocTransaction, FreedTrans, IInv, TypeOK
    <3>2. MaxLevel \in Nat /\ orig' = orig
      BY <2>1, LevelsArePositive DEF MallocTransaction
    <3> QED
      BY <3>1, <3>2 DEF OInv
  <2>2. CASE TransCommitEdit(t)
    <3>1. trans[t].editlevel \in Nat /\ trans[t].editlevel > 0
          /\ trans[t].editlevel <= MaxLevel /\ MaxLevel \in Nat
      BY <2>2, CurrentFields, LevelsArePositive
      DEF TransCommitEdit, IsOpen, TransRecord, OInv
    <3>2. CASE trans[t].editlevel > 1
      <4>1. SetLevel(t, trans[t].editlevel - 1) /\ trans[t].editlevel - 1 \in Nat
            /\ trans[t].editlevel - 1 <= MaxLevel
        BY <2>2, <3>1, <3>2 DEF TransCommitEdit
      <4> QED
        BY <3>1, <4>1, SetLevelOpens
    <3>3. CASE ~(trans[t].editlevel > 1)
      <4>1. CommitEdit(t, Current(t), orig[t]) /\ trans[t].editlevel = 1
        BY <2>2, <3>1, <3>3 DEF TransCommitEdit
      <4> QED
        BY <4>1, CurrentFields, CommitCloses
    <3> QED
      BY <3>2, <3>3
  <2>3. CASE TransRollbackEdit(t)
    <3>1. RollbackEdit(t, Current(t), orig[t]) /\ trans[t].editlevel > 0 /\ MaxLevel = 1
      BY <2>3 DEF TransRollbackEdit, IsOpen, Flat, May
    <3>2. trans[t].editlevel = 1
      BY <3>1, CurrentFields DEF OInv, TransRecord
    <3> QED
      BY <3>1, <3>2, CurrentFields, RollbackCloses
  <2> QED
    BY <1>1, <1>2, <2>1, <2>2, <2>3, TransCallCases, BeginEditOpens
<1>3. ASSUME NEW s \in Split, SplitCall(s) PROVE OInv'
  BY <1>1, <1>3, SplitCallCases, BeginEditOpens
<1>4. ASSUME NEW a \in Account, AccountCall(a) PROVE OInv'
  BY <1>4 DEF AccountCall, AccountBeginEdit, AccountCommitEdit, AccountGetSplitList, OInv
<1>5. CASE UNCHANGED vars
  BY <1>5 DEF vars, OInv
<1> QED
  BY <1>2, <1>3, <1>4, <1>5 DEF Next

LEMMA SpecOInv ==
  ~SplitRejects /\ Flat => (Spec => [](IInv /\ OInv))
<1> SUFFICES ASSUME ~SplitRejects, Flat PROVE Spec => [](IInv /\ OInv)
  OBVIOUS
<1>1. Init => OInv
  BY LevelsArePositive DEF Init, OInv, FreedTrans
<1>2. IInv /\ OInv /\ [Next]_vars => (IInv /\ OInv)'
  BY StepIInv, StepOInv
<1> QED
  BY InitIInv, <1>1, <1>2, PTL DEF Spec

\* Every open edit can be rolled back, when rollbacks are only made by the
\* caller who opened it: nobody nests edits and rolls back the inner one.
THEOREM OpenEditsCanRollBack == ~SplitRejects /\ Flat => (Spec => []OpenHasCopy)
<1>1. OInv => OpenHasCopy
  BY DEF OInv, OpenHasCopy, IsOpen
<1> QED
  BY <1>1, SpecOInv, PTL

\* A call on t ends its edit with balanced content, or keeps what is committed.
LEMMA KeptStep ==
  ASSUME IInv, JInv, OInv, IInv', NEW t \in Trans, Kept(t)
  PROVE  Abs!Next
<1> DEFINE ledger == [u \in Trans |-> Committed(u)]
           open == {u \in Trans : trans[u].editlevel > 0}
<1>1. /\ \A u \in Trans \ {t} :
           Committed(u)' = Committed(u) /\ trans'[u].editlevel = trans[u].editlevel
      /\ \/ trans'[t].editlevel = 0
         \/ orig[t] # NoCopy \/ trans[t].editlevel = 0 => Committed(t)' = Committed(t)
      /\ JInv'
  BY DEF Kept
<1>2. trans[t].editlevel \in Nat /\ trans'[t].editlevel \in Nat
  BY DEF IInv, TypeOK, TransRecord
<1>3. ledger' = [u \in Trans |-> Committed(u)']
  OBVIOUS
<1>4. open' = {u \in Trans : trans'[u].editlevel > 0}
  OBVIOUS
<1>5. CASE trans'[t].editlevel = 0
  <2>1. open' = open \ {t}
    BY <1>1, <1>4, <1>5
  <2>2. Sound(Committed(t)')
    <3>1. Peace(trans'[t], split', orig'[t])
      BY <1>1 DEF JInv, Peace, Content, Sound
    <3>2. Committed(t)' = Content(trans'[t], split', orig'[t])
      BY DEF Committed, Content
    <3> QED
      BY <1>5, <3>1, <3>2 DEF Peace
  <2>3. Abs!Balanced(ledger'[t])
    BY <1>3, <2>2 DEF Sound
  <2>4. \A u \in Trans \ {t} : ledger'[u] = ledger[u]
    BY <1>1, <1>3
  <2> HIDE DEF ledger, open
  <2>5. Abs!Publish(t)
    BY <2>1, <2>3, <2>4 DEF Abs!Publish, ledger, open
  <2> QED
    BY <2>5 DEF Abs!Next
<1>6. CASE trans'[t].editlevel # 0
  <2>1. Committed(t)' = Committed(t)
    BY <1>1, <1>2, <1>6 DEF OInv
  <2>2. ledger' = ledger
    BY <1>1, <1>3, <2>1
  <2>3. open' = open \cup {t}
    BY <1>1, <1>2, <1>4, <1>6
  <2>4. Abs!Begin(t)
    BY <2>2, <2>3 DEF Abs!Begin
  <2> QED
    BY <2>4 DEF Abs!Next
<1> QED
  BY <1>5, <1>6

\* Edits are atomic: TransEdit implements Ledger.  What is committed changes
\* only when an edit ends, in one transaction, and to balanced content.
THEOREM EditsAreAtomic ==
  ~SplitRejects /\ Destroyable /\ Flat => (Spec => AtomicEdits)
<1> SUFFICES ASSUME ~SplitRejects, Destroyable, Flat PROVE Spec => AtomicEdits
  OBVIOUS
<1>1. Init => Abs!Init
  <2> SUFFICES ASSUME Init PROVE Abs!Init
    OBVIOUS
  <2>1. ASSUME NEW t \in Trans PROVE Committed(t) = Abs!Empty /\ ~(trans[t].editlevel > 0)
    <3>1. trans[t] = FreedTrans /\ orig[t] = NoCopy
      BY DEF Init
    <3>2. Elems(<<>>) = {}
      BY DEF Elems
    <3>3. /\ FreedTrans.splits = <<>> /\ FreedTrans.descr = 0 /\ ~FreedTrans.read_only
          /\ FreedTrans.read_only = FALSE /\ ~(FreedTrans.editlevel > 0)
      BY DEF FreedTrans
    <3>4. {Entry(s, split[s].acc, split[s]) : s \in {}} = {}
      OBVIOUS
    <3> QED
      BY <3>1, <3>2, <3>3, <3>4 DEF Committed, Content, Abs!Empty
  <2> QED
    BY <2>1 DEF Abs!Init
<1>2. ASSUME IInv, JInv, OInv, IInv', [Next]_vars
      PROVE  Abs!Next \/ UNCHANGED <<[t \in Trans |-> Committed(t)],
                                     {t \in Trans : trans[t].editlevel > 0}>>
  <2>1. CASE UNCHANGED <<trans, orig, split>>
    BY <2>1 DEF Committed, Content
  <2>2. ASSUME NEW t \in Trans, Kept(t) PROVE Abs!Next
    BY <1>2, <2>2, KeptStep
  <2> QED
    BY <1>2, <2>1, <2>2, StepKeeps
<1>3. Spec => [](IInv /\ JInv)
  BY SpecJInv
<1>4. Spec => [](IInv /\ OInv)
  BY SpecOInv
<1> QED
  BY <1>1, <1>2, <1>3, <1>4, PTL DEF AtomicEdits, Spec, Abs!Spec

-----------------------------------------------------------------------------
(* Balances.                                                               *)

\* A balance is that of the account's splits, or the account's own commit
\* will compute it, or the commit of a transaction that has changed a split.
InEdit(t, w, s) ==
  /\ w.sp[s].dirty
  /\ \/ w.tr.editlevel > 0 /\ s \in Elems(w.tr.splits)
     \/ \E u \in Trans \ {t} : trans[u].editlevel > 0 /\ s \in Elems(trans[u].splits)

Fresh(t, w) ==
  \A a \in Account :
    \/ w.ca[a] = RunningBalances(w.sp, w.ac[a].splits)
    \/ w.ac[a].editlevel > 0 /\ w.ac[a].balance_dirty
    \/ \E s \in w.ac[a].splits : InEdit(t, w, s)

KInv ==
  /\ \A t \in Trans : trans[t].live \/ trans[t].splits = <<>>
  /\ \A a \in Account :
       \/ cached[a] = RunningBalances(split, acct[a].splits)
       \/ acct[a].editlevel > 0 /\ acct[a].balance_dirty
       \/ \E s \in acct[a].splits :
            /\ split[s].dirty
            /\ \E t \in Trans : trans[t].editlevel > 0 /\ s \in Elems(trans[t].splits)

LEMMA SameBalances ==
  ASSUME NEW sp1 \in [Split -> SplitRecord], NEW sp2 \in [Split -> SplitRecord],
         NEW S \in SUBSET Split,
         \A s \in S : sp1[s].amount = sp2[s].amount /\ sp1[s].reconciled = sp2[s].reconciled
  PROVE  RunningBalances(sp1, S) = RunningBalances(sp2, S)
<1>1. ASSUME NEW T \in SUBSET S PROVE Total(sp1, T) = Total(sp2, T)
  <2> DEFINE f == [s \in Split |-> sp1[s].amount]
             g == [s \in Split |-> sp2[s].amount]
  <2>1. IsFiniteSet(T)
    BY SplitsAreFinite, FS_Subset
  <2>2. \A s \in T : f[s] = g[s]
    OBVIOUS
  <2> HIDE DEF f, g
  <2>3. SumFunctionOnSet(f, T) = SumFunctionOnSet(g, T)
    BY <2>1, <2>2, SumSame
  <2> QED
    BY <2>3 DEF Total, f, g
<1>2. {s \in S : sp1[s].reconciled # "n"} = {s \in S : sp2[s].reconciled # "n"}
  OBVIOUS
<1>3. {s \in S : sp1[s].reconciled \in {"y", "f"}} = {s \in S : sp2[s].reconciled \in {"y", "f"}}
  OBVIOUS
<1> QED
  BY <1>1, <1>2, <1>3 DEF RunningBalances

\* Storing a fresh working state.
LEMMA StoreFresh ==
  ASSUME IInv, KInv, NEW t \in Trans, NEW w, NEW copy, Store(t, w, copy), Fresh(t, w),
         w.tr.live \/ w.tr.splits = <<>>
  PROVE  KInv'
<1>1. /\ trans' = [trans EXCEPT ![t] = w.tr] /\ split' = w.sp /\ acct' = w.ac
      /\ cached' = w.ca /\ DOMAIN trans = Trans
  BY DEF Store, IInv, TypeOK
<1>2. trans'[t] = w.tr /\ \A u \in Trans \ {t} : trans'[u] = trans[u]
  BY <1>1
<1>3. \A u \in Trans : trans'[u].live \/ trans'[u].splits = <<>>
  BY <1>2 DEF KInv
<1>4. ASSUME NEW a \in Account
      PROVE  \/ cached'[a] = RunningBalances(split', acct'[a].splits)
             \/ acct'[a].editlevel > 0 /\ acct'[a].balance_dirty
             \/ \E s \in acct'[a].splits :
                  /\ split'[s].dirty
                  /\ \E u \in Trans : trans'[u].editlevel > 0 /\ s \in Elems(trans'[u].splits)
  BY <1>1, <1>2 DEF Fresh, InEdit
<1>5. \A sp, S : RunningBalances(sp, S)' = RunningBalances(sp', S')
  BY DEF RunningBalances, Total
<1>6. \A q : Elems(q)' = Elems(q')
  BY DEF Elems
<1> QED
  BY <1>3, <1>4, <1>5, <1>6 DEF KInv

\* Setters and scrubbing: a balance that does not follow is one of the edit's.
LEMMA RevisedFresh ==
  ASSUME NEW t \in Trans, NEW w, NEW v, Fresh(t, w),
         w.tr \in TransRecord, v.tr.editlevel > 0,
         w.sp \in [Split -> SplitRecord], v.sp \in [Split -> SplitRecord],
         w.ac \in [Account -> AccountRecord],
         Revised(t, w.tr, w.sp, v.tr, v.sp),
         \A a \in Account :
           /\ v.ac[a].splits = w.ac[a].splits /\ v.ac[a].editlevel = w.ac[a].editlevel
           /\ \/ v.ca[a] = RunningBalances(v.sp, v.ac[a].splits)
              \/ v.ca[a] = w.ca[a] /\ (w.ac[a].balance_dirty => v.ac[a].balance_dirty)
  PROVE  Fresh(t, v)
<1> SUFFICES ASSUME NEW a \in Account,
                    v.ca[a] = w.ca[a], w.ac[a].balance_dirty => v.ac[a].balance_dirty
             PROVE  \/ v.ca[a] = RunningBalances(v.sp, v.ac[a].splits)
                    \/ v.ac[a].editlevel > 0 /\ v.ac[a].balance_dirty
                    \/ \E s \in v.ac[a].splits : InEdit(t, v, s)
  BY DEF Fresh
<1> DEFINE S == w.ac[a].splits
<1>1. S \subseteq Split /\ v.ac[a].splits = S /\ v.ac[a].editlevel = w.ac[a].editlevel
  BY DEF AccountRecord
<1>2. Elems(w.tr.splits) \subseteq Elems(v.tr.splits)
  <2>1. w.tr.splits \in Seq(Split)
    BY DEF TransRecord
  <2> QED
    BY <2>1, AppendElems, ZenonT(60) DEF Revised
<1> HIDE DEF S
<1>3. CASE \E s \in S : v.sp[s] # w.sp[s]
  <2>1. PICK s \in S : v.sp[s] # w.sp[s]
    BY <1>3
  <2>2. v.sp[s].dirty /\ s \in Elems(v.tr.splits)
    BY <1>1, <2>1 DEF Revised
  <2> QED
    BY <1>1, <2>2 DEF InEdit
<1>4. CASE \A s \in S : v.sp[s] = w.sp[s]
  <2>1. RunningBalances(v.sp, S) = RunningBalances(w.sp, S)
    BY <1>1, <1>4, SameBalances
  <2>2. \A s \in S : InEdit(t, w, s) => InEdit(t, v, s)
    BY <1>2, <1>4 DEF InEdit
  <2> QED
    BY <1>1, <2>1, <2>2 DEF Fresh, S
<1> QED
  BY <1>3, <1>4

LEMMA ScrubFresh ==
  ASSUME NEW t \in Trans, NEW w, NEW copy \in Copies, WInv(t, w, copy), w.tr.live,
         w.tr.editlevel > 0, Fresh(t, w), NEW v \in ScrubImbalance(t, w)
  PROVE  Fresh(t, v)
<1> DEFINE e == ScrubSplits(t, w)
<1>1. WInv(t, e, copy) /\ e.tr = w.tr
  BY ScrubSplitsInv
<1>2. Revised(t, w.tr, w.sp, e.tr, e.sp) /\ Even(t, e)
  BY ScrubSplitsRevises
<1>3. v = e \/ \E b \in BalanceSplits(t, e) : v = AddBalanceSplit(t, e, b)
  BY DEF ScrubImbalance
<1>4. \E A : e.ac = Mark(w.ac, A) /\ e.ca = w.ca
  BY DEF ScrubSplits, Work
<1> HIDE DEF e
<1>5. ASSUME NEW ac \in [Account -> AccountRecord], NEW A, NEW a \in Account
      PROVE  /\ Mark(ac, A)[a].splits = ac[a].splits
             /\ Mark(ac, A)[a].editlevel = ac[a].editlevel
             /\ ac[a].balance_dirty => Mark(ac, A)[a].balance_dirty
  <2>1. \/ Mark(ac, A)[a] = ac[a]
        \/ Mark(ac, A)[a] = [ac[a] EXCEPT !.sort_dirty = TRUE, !.balance_dirty = TRUE]
    BY DEF Mark
  <2>2. ac[a] \in AccountRecord
    OBVIOUS
  <2> QED
    BY <2>1, <2>2 DEF AccountRecord
<1>6. Fresh(t, e)
  BY <1>1, <1>2, <1>4, <1>5, RevisedFresh DEF WInv, Typed
<1>7. ASSUME NEW b \in BalanceSplits(t, e), v = AddBalanceSplit(t, e, b)
      PROVE  Fresh(t, v)
  <2>1. Revised(t, e.tr, e.sp, v.tr, v.sp)
    BY <1>1, <1>2, <1>7, AddBalanceRevises
  <2>2. WInv(t, v, copy) /\ v.tr.editlevel = e.tr.editlevel
    BY <1>1, <1>7, AddBalanceSplitInv
  <2>3. v.ac = Mark(e.ac, {Imbalance}) /\ v.ca = e.ca
    BY <1>7 DEF AddBalanceSplit, Work
  <2> QED
    BY <1>1, <1>5, <1>6, <2>1, <2>2, <2>3, RevisedFresh DEF WInv, Typed
<1> QED
  BY <1>3, <1>6, <1>7

\* A commit brings each account it touches up to date, or leaves that to the
\* account's own commit; the other accounts list none of the splits.
LEMMA CommittedBalances ==
  ASSUME NEW w, w.sp \in [Split -> SplitRecord], w.ac \in [Account -> AccountRecord],
         Agree(w.sp, w.ac), NEW S \in SUBSET Split, \A s \in S : w.sp[s].live,
         NEW a \in Account
  PROVE  LET r == CommitSplits(w, S, {})
         IN  \/ r.ca[a] = RunningBalances(r.sp, r.ac[a].splits)
             \/ r.ac[a].editlevel > 0 /\ r.ac[a].balance_dirty
             \/ /\ w.ac[a].splits \cap S = {}
                /\ r.ac[a].splits = w.ac[a].splits
                /\ r.ac[a].editlevel = w.ac[a].editlevel
                /\ r.ac[a].balance_dirty = w.ac[a].balance_dirty
                /\ r.ca[a] = w.ca[a]
<1> DEFINE r == CommitSplits(w, S, {})
           leave(c) == Leave(w, S, c)
           enter(c) == Enter(w, S, c)
           used(c) == \E s \in S : w.sp[s].acc = c
           touched(c) == used(c) \/ leave(c) \cap w.ac[c].splits # {}
           q == (w.ac[a].splits \ leave(a)) \cup enter(a)
           listed == [c \in Account |->
                        [w.ac[c] EXCEPT !.splits = (@ \ leave(c)) \cup enter(c),
                                        !.sort_dirty = @ \/ used(c),
                                        !.balance_dirty = @ \/ touched(c)]]
           before == Work(w.tr, w.sp, listed, w.ca)
           A == {c \in Account : touched(c)}
           counted == Recompute(before, A)
           due == {c \in A \cap Account : listed[c].editlevel = 0 /\ listed[c].balance_dirty}
<1>1. /\ r.ac = counted.ac /\ r.ca = counted.ca
      /\ before.ac = listed /\ before.sp = w.sp /\ before.ca = w.ca
  BY DEF CommitSplits, Work
<1>2. /\ r.sp \in [Split -> SplitRecord]
      /\ \A s \in Split :
           /\ s \notin S => r.sp[s] = w.sp[s]
           /\ s \in S /\ ~w.sp[s].destroying =>
                /\ r.sp[s].amount = w.sp[s].amount
                /\ r.sp[s].reconciled = w.sp[s].reconciled
  BY CommitSplitsInv, CommittedSplits
<1> HIDE DEF r
<1>3. /\ w.ac[a] \in AccountRecord /\ w.ac[a].splits \subseteq Split /\ q \subseteq Split
  BY DEF AccountRecord, Leave, Enter
<1>4. /\ listed[a].splits = q /\ listed[a].editlevel = w.ac[a].editlevel
      /\ listed[a].balance_dirty = (w.ac[a].balance_dirty \/ touched(a))
  <2> DEFINE sd == w.ac[a].sort_dirty \/ used(a)
             bd == w.ac[a].balance_dirty \/ touched(a)
  <2>1. listed[a] = [w.ac[a] EXCEPT !.splits = q, !.sort_dirty = sd, !.balance_dirty = bd]
    OBVIOUS
  <2> HIDE DEF q, sd, bd, listed
  <2>2. listed[a].splits = q /\ listed[a].editlevel = w.ac[a].editlevel
        /\ listed[a].balance_dirty = bd
    BY <1>3, <2>1 DEF AccountRecord
  <2> QED
    BY <2>2 DEF bd
<1>5. /\ counted.ac[a] = IF a \in due THEN [listed[a] EXCEPT !.balance_dirty = FALSE]
                                      ELSE listed[a]
      /\ counted.ca[a] = IF a \in due THEN RunningBalances(w.sp, q) ELSE w.ca[a]
  <2> HIDE DEF listed, A, q
  <2> QED
    BY <1>1, <1>4 DEF Recompute, Work
<1>6. \A s \in q : s \in S => ~w.sp[s].destroying
  BY DEF Leave, Enter, Agree
<1>7. CASE touched(a) /\ w.ac[a].editlevel = 0
  <2>1. a \in due
    BY <1>4, <1>7
  <2>2. r.ca[a] = RunningBalances(w.sp, q) /\ r.ac[a] = [listed[a] EXCEPT !.balance_dirty = FALSE]
    BY <1>1, <1>5, <2>1
  <2>3. r.ac[a].splits = q
    <3> DEFINE rec == listed[a]
    <3>1. DOMAIN rec = DOMAIN w.ac[a]
      BY <1>3 DEF AccountRecord
    <3>2. "splits" \in DOMAIN w.ac[a]
      BY <1>3 DEF AccountRecord
    <3> HIDE DEF rec
    <3> QED
      BY <1>4, <2>2, <3>1, <3>2 DEF rec
  <2>4. RunningBalances(r.sp, q) = RunningBalances(w.sp, q)
    <3> HIDE DEF q
    <3> QED
      BY <1>2, <1>3, <1>6, SameBalances
  <2> QED
    BY <2>2, <2>3, <2>4 DEF r
<1>8. CASE touched(a) /\ w.ac[a].editlevel # 0
  <2>1. a \notin due
    BY <1>4, <1>8
  <2>2. r.ac[a] = listed[a]
    BY <1>1, <1>5, <2>1
  <2>3. w.ac[a].editlevel \in Nat
    BY <1>3 DEF AccountRecord
  <2> HIDE DEF listed, touched
  <2>4. r.ac[a].editlevel > 0
    BY <1>4, <1>8, <2>2, <2>3
  <2>5. r.ac[a].balance_dirty
    BY <1>4, <1>8, <2>2, Zenon
  <2> QED
    BY <2>4, <2>5 DEF r
<1>9. CASE ~touched(a)
  <2>1. a \notin due
    BY <1>9
  <2>2. r.ac[a] = listed[a] /\ r.ca[a] = w.ca[a]
    BY <1>1, <1>5, <2>1
  <2>3. w.ac[a].splits \cap S = {} /\ leave(a) \cap w.ac[a].splits = {} /\ enter(a) = {}
    BY <1>9 DEF Leave, Enter, Agree
  <2>4. q = w.ac[a].splits
    BY <2>3
  <2>5. listed[a].balance_dirty = w.ac[a].balance_dirty
    BY <1>3, <1>4, <1>9 DEF AccountRecord
  <2> HIDE DEF q, listed
  <2> QED
    BY <1>4, <2>2, <2>3, <2>4, <2>5 DEF r
<1> QED
  BY <1>7, <1>8, <1>9

\* Committing all the dirty splits of an edit ends it with fresh balances.
LEMMA EndFresh ==
  ASSUME NEW t \in Trans, NEW w, NEW copy, WInv(t, w, copy), Fresh(t, w),
         NEW v, v.sp \in [Split -> SplitRecord], v.ac = w.ac, v.ca = w.ca,
         Agree(v.sp, v.ac),
         \A s \in Split : /\ v.sp[s].amount = w.sp[s].amount
                          /\ v.sp[s].reconciled = w.sp[s].reconciled
                          /\ w.sp[s].dirty => v.sp[s].dirty,
         NEW S \in SUBSET Split, \A s \in S : v.sp[s].live,
         \A s \in Elems(w.tr.splits) : w.sp[s].dirty => s \in S,
         NEW d, d = CommitSplits(v, S, {})
  PROVE  Fresh(t, d)
<1>1. w.sp \in [Split -> SplitRecord] /\ w.ac \in [Account -> AccountRecord]
  BY DEF WInv, Typed
<1>2. \A s \in Split : s \notin S => d.sp[s] = v.sp[s]
  BY CommittedSplits
<1> SUFFICES ASSUME NEW a \in Account
             PROVE  \/ d.ca[a] = RunningBalances(d.sp, d.ac[a].splits)
                    \/ d.ac[a].editlevel > 0 /\ d.ac[a].balance_dirty
                    \/ \E s \in d.ac[a].splits : InEdit(t, d, s)
  BY DEF Fresh
<1> DEFINE L == w.ac[a].splits
<1>3. \/ d.ca[a] = RunningBalances(d.sp, d.ac[a].splits)
      \/ d.ac[a].editlevel > 0 /\ d.ac[a].balance_dirty
      \/ /\ L \cap S = {}
         /\ d.ac[a].splits = L
         /\ d.ac[a].editlevel = w.ac[a].editlevel
         /\ d.ac[a].balance_dirty = w.ac[a].balance_dirty
         /\ d.ca[a] = w.ca[a]
  BY <1>1, CommittedBalances
<1>4. L \subseteq Split
  BY <1>1 DEF AccountRecord
<1> HIDE DEF L
<1>5. CASE /\ L \cap S = {}
           /\ d.ac[a].splits = L
           /\ d.ac[a].editlevel = w.ac[a].editlevel
           /\ d.ac[a].balance_dirty = w.ac[a].balance_dirty
           /\ d.ca[a] = w.ca[a]
  <2>1. \A s \in L : d.sp[s] = v.sp[s] /\ s \notin S
    BY <1>2, <1>4, <1>5
  <2>2. d.sp \in [Split -> SplitRecord]
    <3>1. v.ac \in [Account -> AccountRecord]
      BY <1>1
    <3> QED
      BY <3>1, CommitSplitsInv
  <2>3. RunningBalances(d.sp, L) = RunningBalances(w.sp, L)
    <3>1. \A s \in L : /\ d.sp[s].amount = w.sp[s].amount
                       /\ d.sp[s].reconciled = w.sp[s].reconciled
      BY <1>4, <2>1
    <3> QED
      BY <1>1, <1>4, <2>2, <3>1, SameBalances
  <2>4. \A s \in L : InEdit(t, w, s) => InEdit(t, d, s)
    BY <1>4, <2>1 DEF InEdit
  <2>5. \/ w.ca[a] = RunningBalances(w.sp, L)
        \/ w.ac[a].editlevel > 0 /\ w.ac[a].balance_dirty
        \/ \E s \in L : InEdit(t, w, s)
    BY DEF Fresh, L
  <2> QED
    BY <1>5, <2>3, <2>4, <2>5
<1> QED
  BY <1>3, <1>5

LEMMA CleanupFresh ==
  ASSUME ~SplitRejects, NEW t \in Trans, NEW w, NEW copy, WInv(t, w, copy), Fresh(t, w),
         NEW d \in CleanupCommit(t, w)
  PROVE  Fresh(t, d) /\ d.tr.live = w.tr.live
<1> DEFINE list == w.tr.splits
           dirty == {s \in Elems(list) : w.sp[s].dirty}
           drop == {s \in dirty : w.sp[s].parent # t \/ w.sp[s].destroying}
           S == {s \in dirty : w.sp[s].parent = t}
           kept == Elems(list) \ drop
           closed(q) == [w.tr EXCEPT !.splits = q, !.editlevel = @ - 1]
           v(q) == Work(closed(q), w.sp, w.ac, w.ca)
<1>1. w.tr \in TransRecord /\ w.sp \in [Split -> SplitRecord]
      /\ w.ac \in [Account -> AccountRecord] /\ Agree(w.sp, w.ac)
  BY DEF WInv, Typed
<1>2. Elems(list) \subseteq Split
  BY <1>1, ElemsOfList DEF TransRecord
<1>3. PICK q : d = CommitSplits(v(q), S, {})
  <2>1. PICK q \in DebitsFirst(list, kept, w.sp) : d \in CommitAll(v(q), S)
    BY DEF CleanupCommit
  <2> HIDE DEF v, S, kept, list
  <2> QED
    BY <2>1 DEF CommitAll, Refusals
<1>4. v(q).tr = closed(q) /\ v(q).sp = w.sp /\ v(q).ac = w.ac /\ v(q).ca = w.ca
  BY DEF Work
<1>5. /\ S \in SUBSET Split /\ \A s \in S : w.sp[s].live
      /\ \A s \in Elems(list) : w.sp[s].dirty => s \in S
  BY <1>2 DEF WInv, Owned
<1>6. closed(q).live = w.tr.live
  BY <1>1 DEF TransRecord
<1>7. d.tr = v(q).tr
  BY <1>3 DEF CommitSplits, Work
<1> HIDE DEF v, S, closed
<1>8. Fresh(t, d)
  BY <1>1, <1>3, <1>4, <1>5, EndFresh
<1> QED
  BY <1>4, <1>6, <1>7, <1>8

LEMMA DestroyFresh ==
  ASSUME ~SplitRejects, NEW t \in Trans, NEW w, NEW copy, WInv(t, w, copy), Fresh(t, w),
         NEW d \in DoDestroy(t, w)
  PROVE  Fresh(t, d) /\ d.tr.splits = <<>>
<1> DEFINE own == {s \in Elems(w.tr.splits) : w.sp[s].parent = t}
           kept == {s \in own : w.sp[s].acc # NoAcc /\ w.tr.read_only}
           sp == [s \in Split |->
                    IF s \in own \ kept
                    THEN [w.sp[s] EXCEPT !.dirty = TRUE, !.destroying = TRUE]
                    ELSE w.sp[s]]
           S == {s \in own : sp[s].dirty}
           v == Work(FreedTrans, sp, w.ac, w.ca)
<1>1. w.tr \in TransRecord /\ w.sp \in [Split -> SplitRecord]
      /\ w.ac \in [Account -> AccountRecord] /\ Agree(w.sp, w.ac)
  BY DEF WInv, Typed
<1>2. own \in SUBSET Split
  BY <1>1, ElemsOfList DEF TransRecord
<1>3. d = CommitSplits(v, S, {})
  BY DEF DoDestroy, CommitAll, Refusals
<1>4. v.tr = FreedTrans /\ v.sp = sp /\ v.ac = w.ac /\ v.ca = w.ca
  BY DEF Work
<1>5. ASSUME NEW s \in Split
      PROVE  /\ sp[s] \in SplitRecord /\ sp[s].live = w.sp[s].live
             /\ sp[s].orig_acc = w.sp[s].orig_acc
             /\ sp[s].amount = w.sp[s].amount /\ sp[s].reconciled = w.sp[s].reconciled
             /\ w.sp[s].dirty => sp[s].dirty
  <2> HIDE DEF own, kept
  <2>1. w.sp[s] \in SplitRecord
    BY <1>1
  <2>2. \/ sp[s] = [w.sp[s] EXCEPT !.dirty = TRUE, !.destroying = TRUE]
        \/ sp[s] = w.sp[s]
    OBVIOUS
  <2> HIDE DEF sp
  <2> QED
    BY <2>1, <2>2 DEF SplitRecord
<1>6. sp \in [Split -> SplitRecord]
  <2>1. sp = [s \in Split |-> sp[s]]
    OBVIOUS
  <2> HIDE DEF sp
  <2> QED
    BY <1>5, <2>1
<1>7. S \in SUBSET Split /\ (\A s \in own : w.sp[s].live)
      /\ \A s \in Elems(w.tr.splits) : s \in own
  BY <1>2 DEF WInv, Owned
<1> HIDE DEF sp, own
<1>8. \A s \in S : sp[s].live
  BY <1>2, <1>5, <1>7
<1>9. \A s \in Elems(w.tr.splits) : w.sp[s].dirty => s \in S
  BY <1>2, <1>5, <1>7
<1>10. Agree(sp, w.ac)
  BY <1>1, <1>5 DEF Agree
<1>11. d.tr = v.tr
  BY <1>3 DEF CommitSplits, Work
<1> HIDE DEF v, S
<1>12. Fresh(t, d)
  BY <1>3, <1>4, <1>5, <1>6, <1>7, <1>8, <1>9, <1>10, EndFresh
<1> QED
  BY <1>4, <1>11, <1>12 DEF FreedTrans

\* A change of flags that keeps the list of t, and its edit open.
LEMMA FreshWithTrans ==
  ASSUME NEW t, NEW w, Fresh(t, w), NEW tr, tr.splits = w.tr.splits,
         w.tr.editlevel > 0 => tr.editlevel > 0
  PROVE  Fresh(t, WithTrans(w, tr)) /\ WithTrans(w, tr).tr = tr
<1> DEFINE v == WithTrans(w, tr)
<1>1. v.tr = tr /\ v.sp = w.sp /\ v.ac = w.ac /\ v.ca = w.ca
  BY DEF WithTrans, Work
<1> HIDE DEF v
<1>2. \A s : InEdit(t, w, s) => InEdit(t, v, s)
  BY <1>1 DEF InEdit
<1>3. Fresh(t, v)
  BY <1>1, <1>2 DEF Fresh
<1> QED
  BY <1>1, <1>3 DEF v

LEMMA CommitFresh ==
  ASSUME ~SplitRejects, ~BackendRejects, IInv, KInv, NEW t \in Trans, NEW w,
         NEW copy \in Copies, WInv(t, w, copy), w.tr.editlevel = 1, w.tr.live,
         Fresh(t, w), CommitEdit(t, w, copy)
  PROVE  KInv'
<1> DEFINE empty == StillHas(t, w) = {}
           flag == w.tr.destroying \/ empty
           tr == [w.tr EXCEPT !.destroying = flag]
           begun == WithTrans(w, tr)
<1>1. PICK v \in IF begun.tr.destroying THEN {begun} ELSE ScrubImbalance(t, begun) :
        LET clean == WithTrans(v, [v.tr EXCEPT !.dirty = @ /\ ~HasBackend])
        IN  \E d \in IF v.tr.destroying THEN DoDestroy(t, clean)
                                        ELSE CleanupCommit(t, clean) :
              Store(t, d, NoCopy)
  BY DEF CommitEdit
<1>2. flag \in BOOLEAN /\ w.tr \in TransRecord
  BY DEF WInv, Typed, TransRecord
<1> HIDE DEF flag
<1>3. tr \in TransRecord /\ tr.editlevel = 1 /\ tr.splits = w.tr.splits /\ tr.live
  BY <1>2 DEF TransRecord
<1> HIDE DEF tr
<1>4. begun.tr = tr /\ WInv(t, begun, copy) /\ Fresh(t, begun)
  BY <1>3, WithTransInv, FreshWithTrans
<1> HIDE DEF begun
<1>5. v.tr.editlevel = 1 /\ v.tr.live /\ WInv(t, v, copy) /\ Fresh(t, v)
  BY <1>1, <1>3, <1>4, ScrubImbalanceInv, ScrubFresh
<1> DEFINE dirty == v.tr.dirty /\ ~HasBackend
           cleaned == [v.tr EXCEPT !.dirty = dirty]
           clean == WithTrans(v, cleaned)
<1>6. \/ \E d \in DoDestroy(t, clean) : Store(t, d, NoCopy)
      \/ \E d \in CleanupCommit(t, clean) : Store(t, d, NoCopy)
  BY <1>1
<1>7. dirty \in BOOLEAN /\ v.tr \in TransRecord
  BY <1>5 DEF WInv, Typed
<1> HIDE DEF dirty
<1>8. cleaned \in TransRecord /\ cleaned.editlevel = 1 /\ cleaned.live
      /\ cleaned.splits = v.tr.splits
  BY <1>5, <1>7 DEF TransRecord
<1> HIDE DEF cleaned
<1>9. WInv(t, clean, copy) /\ Fresh(t, clean) /\ clean.tr.live
  BY <1>5, <1>8, WithTransInv, FreshWithTrans
<1> HIDE DEF clean
<1> QED
  BY <1>6, <1>9, CleanupFresh, DestroyFresh, StoreFresh

LEMMA CurrentFresh ==
  ASSUME IInv, KInv, NEW t \in Trans, NEW tr, tr.splits = trans[t].splits,
         trans[t].editlevel > 0 => tr.editlevel > 0
  PROVE  Fresh(t, WithTrans(Current(t), tr))
<1> DEFINE w == Current(t)
<1>1. w.tr = trans[t] /\ w.sp = split /\ w.ac = acct /\ w.ca = cached
  BY DEF Current, Work
<1> HIDE DEF w
<1>2. ASSUME NEW a \in Account
      PROVE  \/ w.ca[a] = RunningBalances(w.sp, w.ac[a].splits)
             \/ w.ac[a].editlevel > 0 /\ w.ac[a].balance_dirty
             \/ \E s \in w.ac[a].splits : InEdit(t, w, s)
  BY <1>1 DEF KInv, InEdit
<1>3. Fresh(t, w)
  BY <1>2 DEF Fresh
<1> QED
  BY <1>1, <1>3, FreshWithTrans DEF w

LEMMA ChangeFresh ==
  ASSUME ~SplitRejects, ~BackendRejects, IInv, KInv, NEW t \in Trans, Change(t)
  PROVE  KInv'
<1>1. PICK w : /\ Edit(t, w)
               /\ Edited(t, w)
               /\ Revised(t, trans[t], split, w.tr, w.sp)
               /\ Counted(w)
               /\ trans[t].live \/ Elems(trans[t].splits) # {}
  BY DEF Change
<1>2. trans[t].live /\ w.tr.live
  <2>1. Elems(<<>>) = {}
    BY DEF Elems
  <2> QED
    BY <1>1, <2>1 DEF KInv, Edited
<1>3. /\ trans[t] \in TransRecord /\ trans[t].editlevel \in Nat
      /\ split \in [Split -> SplitRecord] /\ acct \in [Account -> AccountRecord]
      /\ w.tr \in TransRecord /\ w.sp \in [Split -> SplitRecord]
      /\ w.tr.editlevel = trans[t].editlevel
  BY <1>1, CurrentFields DEF TransRecord, Edited, Typed
<1> DEFINE open == [trans[t] EXCEPT !.editlevel = 1]
           now == WithTrans(Current(t), open)
<1>4. open \in TransRecord /\ open.splits = trans[t].splits /\ open.editlevel = 1
      /\ open.live = trans[t].live /\ open.read_only = trans[t].read_only
  BY <1>3 DEF TransRecord
<1> HIDE DEF open
<1>5. /\ Fresh(t, now)
      /\ now.tr = open /\ now.sp = split /\ now.ac = acct /\ now.ca = cached
  BY <1>4, CurrentFresh DEF WithTrans, Current, Work
<1> HIDE DEF now
<1>6. ASSUME NEW v, v.tr.splits = w.tr.splits, v.tr.live, v.tr.read_only = w.tr.read_only,
             v.tr.editlevel > 0, v.sp = w.sp, v.ac = w.ac, v.ca = w.ca
      PROVE  Fresh(t, v)
  <2>1. Revised(t, now.tr, now.sp, v.tr, v.sp)
    BY <1>1, <1>2, <1>4, <1>5, <1>6, ZenonT(60) DEF Revised
  <2>2. \A a \in Account :
          /\ v.ac[a].splits = now.ac[a].splits /\ v.ac[a].editlevel = now.ac[a].editlevel
          /\ \/ v.ca[a] = RunningBalances(v.sp, v.ac[a].splits)
             \/ v.ca[a] = now.ca[a] /\ (now.ac[a].balance_dirty => v.ac[a].balance_dirty)
    BY <1>1, <1>5, <1>6 DEF Counted
  <2> QED
    BY <1>3, <1>4, <1>5, <1>6, <2>1, <2>2, RevisedFresh
<1>7. CASE trans[t].editlevel > 0
  <2>1. Store(t, w, orig[t])
    BY <1>1, <1>7 DEF Edit
  <2> QED
    BY <1>2, <1>3, <1>6, <1>7, <2>1, StoreFresh
<1>8. CASE ~(trans[t].editlevel > 0)
  <2>1. CommitEdit(t, Begun(w), Dupe(t)) /\ trans[t].editlevel = 0
    BY <1>1, <1>3, <1>8 DEF Edit
  <2>2. WInv(t, w, Dupe(t)) /\ Dupe(t) \in Copies
    BY <1>1, <2>1, DupeInv DEF Edited, WInv
  <2> DEFINE b == w.tr.dirty \/ ~HasBackend
             tr == [w.tr EXCEPT !.editlevel = 1, !.dirty = b]
             v == Begun(w)
  <2>3. b \in BOOLEAN /\ v = WithTrans(w, tr)
    BY DEF Begun
  <2> HIDE DEF b
  <2>4. tr \in TransRecord /\ tr.splits = w.tr.splits /\ tr.editlevel = 1 /\ tr.live
        /\ tr.read_only = w.tr.read_only
    BY <1>2, <1>3, <2>3 DEF TransRecord
  <2> HIDE DEF tr, v
  <2>5. WInv(t, v, Dupe(t)) /\ v.tr = tr
    BY <2>2, <2>3, <2>4, WithTransInv
  <2>6. v.sp = w.sp /\ v.ac = w.ac /\ v.ca = w.ca
    BY <2>3 DEF WithTrans, Work
  <2>7. Fresh(t, v)
    BY <1>6, <2>4, <2>5, <2>6
  <2> QED
    BY <2>1, <2>2, <2>4, <2>5, <2>7, CommitFresh DEF v
<1> QED
  BY <1>7, <1>8

LEMMA SetLevelFresh ==
  ASSUME IInv, KInv, NEW t \in Trans, trans[t].live, NEW n \in Nat \ {0}, SetLevel(t, n)
  PROVE  KInv'
<1> DEFINE tr == [trans[t] EXCEPT !.editlevel = n]
           w == WithTrans(Current(t), tr)
<1>1. Store(t, w, orig[t])
  BY DEF SetLevel
<1>2. tr.splits = trans[t].splits /\ tr.live /\ tr.editlevel > 0
  BY CurrentFields DEF TransRecord
<1> HIDE DEF tr
<1>3. Fresh(t, w) /\ w.tr = tr
  BY <1>2, CurrentFresh DEF WithTrans, Work
<1> HIDE DEF w
<1> QED
  BY <1>1, <1>2, <1>3, StoreFresh

LEMMA BeginEditFresh ==
  ASSUME IInv, KInv, NEW t \in Trans, TransBeginEdit(t)
  PROVE  KInv'
<1>1. trans[t].editlevel \in Nat /\ trans[t].live
  BY CurrentFields DEF TransRecord, TransBeginEdit
<1>2. CASE trans[t].editlevel = 0
  <2> DEFINE b == trans[t].dirty \/ ~HasBackend
             tr == [trans[t] EXCEPT !.editlevel = 1, !.dirty = b]
             w == Begun(Current(t))
             dupe == Dupe(t)
  <2>1. Store(t, w, dupe)
    BY <1>2 DEF TransBeginEdit
  <2>2. w = WithTrans(Current(t), tr)
    BY CurrentFields DEF Begun
  <2> HIDE DEF b
  <2>3. tr.splits = trans[t].splits /\ tr.editlevel = 1 /\ tr.live
    BY <1>1, CurrentFields DEF TransRecord
  <2> HIDE DEF tr, w, dupe
  <2>4. Fresh(t, w) /\ w.tr = tr
    BY <2>2, <2>3, CurrentFresh DEF WithTrans, Work
  <2> QED
    BY <2>1, <2>3, <2>4, StoreFresh
<1>3. CASE trans[t].editlevel # 0
  <2>1. SetLevel(t, trans[t].editlevel + 1) /\ trans[t].editlevel + 1 \in Nat \ {0}
    BY <1>1, <1>3 DEF TransBeginEdit
  <2> QED
    BY <1>1, <2>1, SetLevelFresh
<1> QED
  BY <1>2, <1>3

LEMMA CommitEditFresh ==
  ASSUME ~SplitRejects, ~BackendRejects, IInv, KInv, NEW t \in Trans, TransCommitEdit(t)
  PROVE  KInv'
<1>1. trans[t].editlevel \in Nat \ {0} /\ trans[t].live
  BY CurrentFields DEF TransCommitEdit, IsOpen, TransRecord
<1>2. CASE trans[t].editlevel > 1
  <2>1. SetLevel(t, trans[t].editlevel - 1) /\ trans[t].editlevel - 1 \in Nat \ {0}
    BY <1>1, <1>2 DEF TransCommitEdit
  <2> QED
    BY <1>1, <2>1, SetLevelFresh
<1>3. CASE ~(trans[t].editlevel > 1)
  <2>1. CommitEdit(t, Current(t), orig[t]) /\ trans[t].editlevel = 1
    BY <1>1, <1>3 DEF TransCommitEdit
  <2>2. Current(t) = WithTrans(Current(t), trans[t])
    BY DEF Current, WithTrans, Work
  <2>3. Fresh(t, Current(t))
    BY <2>2, CurrentFresh
  <2> QED
    BY <1>1, <2>1, <2>3, CurrentFields, CommitFresh
<1> QED
  BY <1>2, <1>3

\* A new transaction takes the place of an empty one.
LEMMA MallocFresh ==
  ASSUME IInv, KInv, NEW t \in Trans, MallocTransaction(t)
  PROVE  KInv'
<1>1. /\ trans' = [trans EXCEPT ![t] = [FreedTrans EXCEPT !.live = TRUE, !.dirty = TRUE]]
      /\ UNCHANGED <<split, acct, cached>>
      /\ DOMAIN trans = Trans /\ trans[t].splits = <<>>
  BY DEF MallocTransaction, KInv, IInv, TypeOK
<1>2. trans'[t].live /\ \A u \in Trans \ {t} : trans'[u] = trans[u]
  BY <1>1 DEF FreedTrans
<1>3. \A s : s \notin Elems(trans[t].splits)
  BY <1>1 DEF Elems
<1>4. ASSUME NEW a \in Account
      PROVE  \/ cached'[a] = RunningBalances(split', acct'[a].splits)
             \/ acct'[a].editlevel > 0 /\ acct'[a].balance_dirty
             \/ \E s \in acct'[a].splits :
                  /\ split'[s].dirty
                  /\ \E u \in Trans : trans'[u].editlevel > 0 /\ s \in Elems(trans'[u].splits)
  BY <1>1, <1>2, <1>3 DEF KInv
<1>5. \A sp, S : RunningBalances(sp, S)' = RunningBalances(sp', S')
  BY DEF RunningBalances, Total
<1>6. \A q : Elems(q)' = Elems(q')
  BY DEF Elems
<1> QED
  BY <1>2, <1>4, <1>5, <1>6 DEF KInv

\* An account's own calls leave a balance as it is or compute it.
LEMMA AccountFlagsFresh ==
  ASSUME KInv, UNCHANGED <<trans, split>>,
         \A a \in Account :
           /\ acct'[a].splits = acct[a].splits
           /\ \/ cached'[a] = RunningBalances(split, acct[a].splits)
              \/ /\ cached'[a] = cached[a]
                 /\ acct[a].editlevel > 0 /\ acct[a].balance_dirty
                      => acct'[a].editlevel > 0 /\ acct'[a].balance_dirty
  PROVE  KInv'
<1>1. ASSUME NEW a \in Account
      PROVE  \/ cached'[a] = RunningBalances(split', acct'[a].splits)
             \/ acct'[a].editlevel > 0 /\ acct'[a].balance_dirty
             \/ \E s \in acct'[a].splits :
                  /\ split'[s].dirty
                  /\ \E u \in Trans : trans'[u].editlevel > 0 /\ s \in Elems(trans'[u].splits)
  BY DEF KInv
<1>2. \A sp, S : RunningBalances(sp, S)' = RunningBalances(sp', S')
  BY DEF RunningBalances, Total
<1>3. \A q : Elems(q)' = Elems(q')
  BY DEF Elems
<1> QED
  BY <1>1, <1>2, <1>3 DEF KInv

LEMMA AccountCallFresh ==
  ASSUME IInv, KInv, NEW a \in Account, AccountCall(a)
  PROVE  KInv'
<1>1. acct \in [Account -> AccountRecord] /\ acct[a] \in AccountRecord
  BY DEF IInv, TypeOK
<1>2. CASE AccountBeginEdit(a)
  <2>1. /\ acct' = [acct EXCEPT ![a].editlevel = @ + 1]
        /\ UNCHANGED <<trans, split, cached>>
    BY <1>2 DEF AccountBeginEdit
  <2>2. \A b \in Account : /\ acct'[b].splits = acct[b].splits
                           /\ acct'[b].balance_dirty = acct[b].balance_dirty
                           /\ acct[b].editlevel > 0 => acct'[b].editlevel > 0
    BY <1>1, <2>1 DEF AccountRecord
  <2> QED
    BY <2>1, <2>2, AccountFlagsFresh
<1>3. CASE AccountCommitEdit(a)
  <2> DEFINE lower == [acct[a] EXCEPT !.editlevel = @ - 1]
             rec == SortSplits(lower)
             ac == [acct EXCEPT ![a] = rec]
             due == {b \in {a} \cap Account : ac[b].editlevel = 0 /\ ac[b].balance_dirty}
  <2>1. /\ acct' = [b \in Account |-> IF b \in due THEN [ac[b] EXCEPT !.balance_dirty = FALSE]
                                                   ELSE ac[b]]
        /\ cached' = [b \in Account |-> IF b \in due THEN RunningBalances(split, ac[b].splits)
                                                     ELSE cached[b]]
        /\ UNCHANGED <<trans, split>>
    BY <1>3 DEF AccountCommitEdit, Recompute, Work
  <2>2. lower.editlevel \in Nat /\ lower \in AccountRecord
        /\ lower.splits = acct[a].splits /\ lower.balance_dirty = acct[a].balance_dirty
    BY <1>1, <1>3 DEF AccountCommitEdit, AccountRecord
  <2> HIDE DEF lower
  <2>3. /\ rec \in AccountRecord /\ rec.splits = acct[a].splits
        /\ rec.editlevel = lower.editlevel
        /\ acct[a].balance_dirty => rec.balance_dirty
    BY <2>2 DEF SortSplits, AccountRecord
  <2> HIDE DEF rec
  <2>4. ac[a] = rec /\ \A b \in Account \ {a} : ac[b] = acct[b]
    BY <1>1
  <2> HIDE DEF ac
  <2>5. due = IF rec.editlevel = 0 /\ rec.balance_dirty THEN {a} ELSE {}
    BY <2>4
  <2> HIDE DEF due
  <2>6. ASSUME NEW b \in Account
        PROVE  /\ acct'[b].splits = acct[b].splits
               /\ \/ cached'[b] = RunningBalances(split, acct[b].splits)
                  \/ /\ cached'[b] = cached[b]
                     /\ acct[b].editlevel > 0 /\ acct[b].balance_dirty
                          => acct'[b].editlevel > 0 /\ acct'[b].balance_dirty
    <3>1. CASE b # a
      BY <2>1, <2>4, <2>5, <3>1
    <3>2. CASE b = a /\ rec.editlevel = 0 /\ rec.balance_dirty
      BY <2>1, <2>3, <2>4, <2>5, <3>2 DEF AccountRecord
    <3>3. CASE b = a /\ ~(rec.editlevel = 0 /\ rec.balance_dirty)
      <4>1. acct'[a] = rec /\ cached'[a] = cached[a]
        BY <2>1, <2>4, <2>5, <3>3
      <4>2. acct[a].balance_dirty => rec.balance_dirty /\ rec.editlevel > 0
        BY <2>3, <3>3 DEF AccountRecord
      <4> QED
        BY <2>3, <3>3, <4>1, <4>2
    <3> QED
      BY <3>1, <3>2, <3>3
  <2> QED
    BY <2>1, <2>6, AccountFlagsFresh
<1>4. CASE AccountGetSplitList(a)
  <2> DEFINE rec == SortSplits(acct[a])
  <2>1. acct' = [acct EXCEPT ![a] = rec] /\ UNCHANGED <<trans, split, cached>>
    BY <1>4 DEF AccountGetSplitList
  <2>2. /\ rec.splits = acct[a].splits /\ rec.editlevel = acct[a].editlevel
        /\ acct[a].balance_dirty => rec.balance_dirty
    BY <1>1 DEF SortSplits, AccountRecord
  <2> HIDE DEF rec
  <2>3. \A b \in Account : acct'[b] = IF b = a THEN rec ELSE acct[b]
    BY <1>1, <2>1
  <2>4. \A b \in Account : /\ acct'[b].splits = acct[b].splits
                           /\ acct'[b].editlevel = acct[b].editlevel
                           /\ acct[b].balance_dirty => acct'[b].balance_dirty
    BY <2>2, <2>3
  <2> QED
    BY <2>1, <2>4, AccountFlagsFresh
<1> QED
  BY <1>2, <1>3, <1>4 DEF AccountCall

LEMMA InitKInv == Init => KInv
<1> SUFFICES ASSUME Init PROVE KInv
  OBVIOUS
<1>1. Total(split, {}) = 0
  BY SumEmpty DEF Total
<1>2. \A a \in Account :
        /\ acct[a].splits = {}
        /\ cached[a] = [balance |-> 0, cleared |-> 0, reconciled |-> 0]
  BY DEF Init
<1>3. RunningBalances(split, {}) = [balance |-> 0, cleared |-> 0, reconciled |-> 0]
  <2>1. {s \in {} : split[s].reconciled # "n"} = {}
        /\ {s \in {} : split[s].reconciled \in {"y", "f"}} = {}
    OBVIOUS
  <2> QED
    BY <1>1, <2>1 DEF RunningBalances
<1>4. \A t \in Trans : trans[t].splits = <<>>
  BY DEF Init, FreedTrans
<1> QED
  BY <1>2, <1>3, <1>4 DEF KInv

LEMMA StepKInv ==
  ASSUME ~SplitRejects, ~BackendRejects, "rollback" \notin Calls, IInv, KInv, [Next]_vars
  PROVE  KInv'
<1>1. ASSUME NEW t \in Trans, TransCall(t) PROVE KInv'
  <2>1. ~TransRollbackEdit(t)
    BY DEF TransRollbackEdit, May
  <2> QED
    BY <1>1, <2>1, TransCallCases, MallocFresh, BeginEditFresh, CommitEditFresh, ChangeFresh
<1>2. ASSUME NEW s \in Split, SplitCall(s) PROVE KInv'
  BY <1>2, SplitCallCases, BeginEditFresh, ChangeFresh
<1>3. ASSUME NEW a \in Account, AccountCall(a) PROVE KInv'
  BY <1>3, AccountCallFresh
<1>4. CASE UNCHANGED vars
  BY <1>4 DEF vars, KInv, RunningBalances, Total, Elems
<1> QED
  BY <1>1, <1>2, <1>3, <1>4 DEF Next

\* When no edit is in progress, what xaccAccountGetBalance and its two
\* companions return is the sum of the splits the account lists, although the
\* cached numbers are only recomputed by commits: with edits of several
\* transactions and of the accounts interleaved, if none is rolled back.
THEOREM BalancesFollow ==
  ~SplitRejects /\ ~BackendRejects /\ "rollback" \notin Calls
    => (Spec => []QuietBalanceCorrect)
<1> SUFFICES ASSUME ~SplitRejects, ~BackendRejects, "rollback" \notin Calls
             PROVE  Spec => []QuietBalanceCorrect
  OBVIOUS
<1>1. IInv /\ KInv /\ [Next]_vars => (IInv /\ KInv)'
  BY StepIInv, StepKInv
<1>2. IInv /\ KInv => QuietBalanceCorrect
  BY DEF KInv, QuietBalanceCorrect, Quiet
<1> QED
  BY InitIInv, InitKInv, <1>1, <1>2, PTL DEF Spec
=============================================================================
