---------------------------- MODULE SchedXaction ----------------------------
(***************************************************************************)
(* A scheduled transaction and the "since last run" dialog                 *)
(* (src/engine/SchedXaction.c, src/app-utils/gnc-sx-instance-model.c and   *)
(* src/gnome/dialog-sx-since-last-run.c).  When the book is opened, or the *)
(* user asks, the occurrences due by today become instances: those put off *)
(* earlier, those to create and those to be reminded of.  The user changes *)
(* their states; OK carries them out.                                      *)
(*                                                                         *)
(* One scheduled transaction: the code treats each of a book's on its own. *)
(* Formulas and their variables are left out, creating the transactions of *)
(* an instance always succeeds, and the schedule is edited only while the  *)
(* dialog is closed, except that it may be disabled and enabled.  A state  *)
(* put off belongs to its instance, which the dialog frees when it closes, *)
(* while the list of deferred states still points to it: the model lets    *)
(* freed memory keep its contents.                                         *)
(***************************************************************************)
EXTENDS Recurrence, FiniteSets

CONSTANTS Schedules,    \* the lists of recurrences a schedule may have
          Starts,       \* the dates it may start
          Ends,         \* the dates it may end, NoDate for never
          Totals,       \* the numbers of occurrences it may have, 0 for no limit
          AdvanceCreate, AdvanceRemind,  \* days ahead
          Fresh,        \* the answers to: has it never occurred before?
          LastDay       \* the bound on the days that pass

ASSUME SchedXactionAssumption ==
  /\ Totals \subseteq Nat /\ AdvanceCreate \in Nat /\ AdvanceRemind \in Nat
  /\ LastDay \in Nat /\ Starts \subseteq 1..LastDay
  /\ Ends \subseteq Days \cup {NoDate} /\ Fresh \subseteq BOOLEAN
  /\ LastDay + AdvanceCreate + AdvanceRemind \in Days

VARIABLES
  today,
  sx,         \* the SchedXaction
  instances,  \* the dialog's GncSxInstanceModel; Closed when there is none
  created,    \* history: <<date, i>> of each instance whose transactions were made
  ignored,    \* history: the dates the user chose to ignore
  putOff,     \* history: the last dates of the states ever put off
  forgotten   \* history: the dates put off and then left to be reminded of

history == <<created, ignored, putOff, forgotten>>
sxvars == <<today, sx, instances, history>>

States == {"ignored", "postponed", "to-create", "reminder", "created"}
Closed == [end |-> NoDate, listed |-> FALSE, insts |-> <<>>]

\* A schedule that has never occurred, or occurred once, when it first could.
\* The editor sets the end or the number of occurrences, and clears the other.
SxInit ==
  /\ \E rs \in Schedules, start \in Starts, end \in Ends, n \in Totals,
        auto \in BOOLEAN, notify \in BOOLEAN, fresh \in Fresh :
       LET first == ListNextInstance(rs, start - 1)
       IN /\ end = NoDate \/ n = 0
          /\ ~fresh => /\ first \in start..start + AdvanceCreate
                       /\ end = NoDate \/ first <= end
          /\ sx = [schedule |-> rs, start |-> start, end |-> end, total |-> n,
                   last    |-> IF fresh THEN NoDate ELSE first,
                   remain  |-> IF fresh \/ n = 0 THEN n ELSE n - 1,
                   num     |-> IF fresh THEN 1 ELSE 2,
                   deferred |-> <<>>, enabled |-> TRUE,
                   auto |-> auto, notify |-> notify]
          /\ created = IF fresh THEN <<>> ELSE << <<first, 1>> >>
  /\ today = sx.start
  /\ instances = Closed
  /\ ignored = {} /\ putOff = {} /\ forgotten = {}

(***************************************************************************)
(* The occurrences of a schedule, seen from a temporal state: the last     *)
(* date, the occurrences that remain and the number of the next one.       *)
(***************************************************************************)
TemporalState(s) == [last |-> s.last, remain |-> s.remain, num |-> s.num]

\* Mutant: looks at what remains of the schedule itself.
InBoundsAsOfNow(s, tsd, date) ==
  IF s.end # NoDate THEN date <= s.end ELSE ~(s.total # 0 /\ s.remain = 0)

InBounds(s, tsd, date) ==
  IF s.end # NoDate THEN date <= s.end ELSE ~(s.total # 0 /\ tsd.remain = 0)

IfInBounds(s, tsd, date) == IF InBounds(s, tsd, date) THEN date ELSE NoDate
OccursAfter(s, tsd, ref) == IfInBounds(s, tsd, ListNextInstance(s.schedule, ref))

\* xaccSchedXactionGetInstanceAfter
InstanceAfter(s, tsd) ==
  OccursAfter(s, tsd, IF tsd.last = NoDate THEN s.start - 1 ELSE tsd.last)

\* xaccSchedXactionGetNextInstance: never before the start date
NextOccurrence(s, tsd) ==
  OccursAfter(s, tsd, IF tsd.last = NoDate THEN s.start - 1
                      ELSE Max({tsd.last, s.start}))

\* Mutant: the next occurrence has the same number.
IncrSameNumber(s, tsd) ==
  [last   |-> InstanceAfter(s, tsd),
   remain |-> IF s.total # 0 THEN tsd.remain - 1 ELSE tsd.remain,
   num    |-> tsd.num]

\* gnc_sx_incr_temporal_state
IncrState(s, tsd) ==
  [last   |-> InstanceAfter(s, tsd),
   remain |-> IF s.total # 0 THEN tsd.remain - 1 ELSE tsd.remain,
   num    |-> tsd.num + 1]

\* _temporal_state_data_cmp: g_date_compare of two dates of which one is
\* invalid complains and finds them equal.
Later(a, b) == NoDate \notin {a.last, b.last} /\ a.last > b.last
Alike(a, b) == NoDate \in {a.last, b.last} \/ a.last = b.last

\* gnc_sx_add_defer_instance: before the first it is not later than
AddDeferred(list, tsd) ==
  LET before == Min({i \in DOMAIN list : ~Later(tsd, list[i])} \cup {Len(list) + 1})
  IN SubSeq(list, 1, before - 1) \o <<tsd>> \o SubSeq(list, before, Len(list))

\* gnc_sx_remove_defer_instance: the first that compares equal
RemoveDeferred(list, tsd) ==
  LET found == {i \in DOMAIN list : Alike(list[i], tsd)}
  IN IF found = {} THEN list
     ELSE SubSeq(list, 1, Min(found) - 1)
          \o SubSeq(list, Min(found) + 1, Len(list))

(***************************************************************************)
(* Making and updating the instances.                                      *)
(***************************************************************************)
NewInstance(state, date, tsd) ==
  [orig |-> state, state |-> state, date |-> date, tsd |-> tsd]

\* One round of the loop of _gnc_sx_gen_instances, unless it is over.
Round(s, createEnd, at) ==
  LET date == InstanceAfter(s, at.tsd)
  IN IF date = NoDate \/ date > createEnd + AdvanceRemind THEN at
     ELSE [insts |-> Append(at.insts,
                       NewInstance(IF date <= createEnd THEN "to-create" ELSE "reminder",
                                   date, at.tsd)),
           tsd   |-> IncrState(s, at.tsd)]

\* Its dates advance, so that it has at most one round for each day.  (Those
\* of a rule for which they do not are the finding of rec_nth_weekday.)
InstancesFrom(s, createEnd) ==
  LET loop[n \in 0..createEnd + AdvanceRemind] ==
        IF n = 0 THEN [insts |-> <<>>, tsd |-> TemporalState(s)]
        ELSE Round(s, createEnd, loop[n - 1])
  IN loop[createEnd + AdvanceRemind].insts

\* _gnc_sx_gen_instances
GenInstances(s, end) ==
  [i \in DOMAIN s.deferred |->
     NewInstance("postponed", NextOccurrence(s, s.deferred[i]), s.deferred[i])]
  \o InstancesFrom(s, end + AdvanceCreate)

\* gnc_sx_instance_model_update_sx_instances: keep what aligns, replace the rest.
Aligned(existing, new) ==
  LET both == 0..Min({Len(existing), Len(new)})
      same == Max({n \in both : \A i \in 1..n : existing[i].date = new[i].date})
  IN SubSeq(existing, 1, same) \o SubSeq(new, same + 1, Len(new))
Update(s, existing, end) == Aligned(existing, GenInstances(s, end))

\* Mutant: only the instance that the user changes.
WithOneState(insts, i, state) == [insts EXCEPT ![i].state = state]

\* gnc_sx_instance_model_change_instance_state: reminders come last.
WithState(insts, i, state) ==
  IF insts[i].state = state THEN insts
  ELSE [j \in DOMAIN insts |->
         [insts[j] EXCEPT !.state =
            CASE j = i -> state
              [] j < i /\ state # "reminder" /\ @ = "reminder" -> "postponed"
              [] j > i /\ state = "reminder" -> "reminder"
              [] OTHER -> @]]

(***************************************************************************)
(* gnc_sx_instance_model_effect_change: one pass over the instances.       *)
(***************************************************************************)
IncrementSxState(acc, inst) ==
  [acc EXCEPT !.last   = IF @ = NoDate \/ @ <= inst.date THEN inst.date ELSE @,
              !.num    = inst.tsd.num + 1,
              !.remain = IF @ > 0 THEN @ - 1 ELSE @]

\* Mutant: what was put off stays deferred.
StillDeferred(acc, inst) == acc

Undefer(acc, inst) ==
  IF inst.orig = "postponed" /\ inst.state # "postponed"
  THEN [acc EXCEPT !.deferred = RemoveDeferred(@, inst.tsd),
                   !.forgotten = IF inst.state = "reminder" THEN @ \cup {inst.date} ELSE @]
  ELSE acc

Effect(acc0, i) ==
  LET inst == acc0.insts[i]
      acc  == Undefer(acc0, inst)
  IN CASE inst.state = "ignored" ->
            [IncrementSxState(acc, inst) EXCEPT !.ignored = @ \cup {inst.date}]
       [] inst.state = "postponed" ->
            [IncrementSxState(acc, inst) EXCEPT
               !.putOff = @ \cup {inst.tsd.last},
               !.deferred = IF inst.orig = "postponed" THEN @
                            ELSE AddDeferred(@, inst.tsd)]
       [] inst.state = "to-create" ->
            [IncrementSxState(acc, inst) EXCEPT
               !.created = Append(@, <<inst.date, inst.tsd.num>>),
               !.insts = WithState(@, i, "created")]
       [] OTHER -> acc

EffectChange(s, insts) ==
  LET pass[i \in 0..Len(insts)] ==
        IF i = 0
        THEN [last |-> s.last, num |-> s.num, remain |-> s.remain,
              deferred |-> s.deferred, insts |-> insts, created |-> created,
              ignored |-> ignored, putOff |-> putOff, forgotten |-> forgotten]
        ELSE Effect(pass[i - 1], i)
  IN pass[Len(insts)]

Carried(acc) ==
  /\ sx' = [sx EXCEPT !.last = acc.last, !.num = acc.num, !.remain = acc.remain,
                      !.deferred = acc.deferred]
  /\ created' = acc.created /\ ignored' = acc.ignored
  /\ putOff' = acc.putOff /\ forgotten' = acc.forgotten

(***************************************************************************)
(* The actions.                                                            *)
(***************************************************************************)
NewDay ==
  /\ today < LastDay
  /\ today' = today + 1
  /\ UNCHANGED <<sx, instances, history>>

Model(insts, end) == [end |-> end, listed |-> TRUE, insts |-> insts]

\* gnc_sx_instance_model_summarize: automatic, silent ones need no dialog.
NeedDialog(insts) ==
  \E i \in DOMAIN insts : ~(sx.auto /\ ~sx.notify /\ insts[i].state = "to-create")

\* What needs no answer is carried out first, the rest is shown.
Offered(insts, effect) ==
  /\ IF sx.auto THEN Carried(effect) ELSE UNCHANGED <<sx, history>>
  /\ instances' = IF NeedDialog(insts)
                  THEN Model(IF sx.auto THEN effect.insts ELSE insts, today)
                  ELSE Closed

\* gnc_sx_sxsincelast_book_opened, and the menu's command
SinceLastRun ==
  /\ instances = Closed
  /\ IF sx.enabled
     THEN \E insts \in {GenInstances(sx, today)} : Offered(insts, EffectChange(sx, insts))
     ELSE UNCHANGED <<sx, history, instances>>
  /\ UNCHANGED today

\* instance_state_changed_cb; the signal has the instances updated at once.
ChangeState(i, state) ==
  /\ i \in DOMAIN instances.insts
  /\ instances.insts[i].state \notin {"created", state}
  /\ instances' = [instances EXCEPT
                     !.insts = Update(sx, WithState(@, i, state), instances.end)]
  /\ UNCHANGED <<today, sx, history>>

\* dialog_response_cb: OK.  The dialog's handler is blocked meanwhile.
Accept ==
  /\ instances # Closed
  /\ Carried(EffectChange(sx, instances.insts))
  /\ instances' = Closed
  /\ UNCHANGED today

Cancel ==
  /\ instances # Closed
  /\ instances' = Closed
  /\ UNCHANGED <<today, sx, history>>

\* xaccSchedXactionSetEnabled and the model's event handler: the instances of
\* a disabled schedule are dropped, those of an enabled one made anew.
SetEnabled(b) ==
  /\ b # sx.enabled
  /\ sx' = [sx EXCEPT !.enabled = b]
  /\ instances' = CASE instances = Closed -> Closed
                    [] instances # Closed /\ b /\ ~instances.listed ->
                         Model(GenInstances(sx', instances.end), instances.end)
                    [] OTHER -> [instances EXCEPT !.listed = FALSE, !.insts = <<>>]
  /\ UNCHANGED <<today, history>>

SxNext ==
  \/ NewDay \/ SinceLastRun \/ Accept \/ Cancel
  \/ \E i \in 1..LastDay, state \in States \ {"created"} : ChangeState(i, state)
  \/ \E b \in BOOLEAN : SetEnabled(b)

SxSpec == SxInit /\ [][SxNext]_sxvars

-----------------------------------------------------------------------------
(* What the code relies on of the recurrences of a schedule, as far as the *)
(* dialog looks: the next date is later than the date asked about, and it  *)
(* is the same from every date before it.                                  *)
Horizon == LastDay + AdvanceCreate + AdvanceRemind
Regular ==
  \A rs \in Schedules, ref \in 0..Horizon :
    LET next == ListNextInstance(rs, ref)
    IN /\ next \in Nat
       /\ next = NoDate \/ ref < next
       /\ \A d \in ref..Horizon :
            next = NoDate \/ d < next => ListNextInstance(rs, d) = next

-----------------------------------------------------------------------------
(* The occurrences up to the last date, by their definition.               *)
Past == {d \in sx.start..sx.last : ListNextInstance(sx.schedule, d - 1) = d}
Deferred == {NextOccurrence(sx, sx.deferred[i]) : i \in DOMAIN sx.deferred}
Created == {created[i][1] : i \in DOMAIN created}

(* Every occurrence up to the last date has become transactions, was       *)
(* ignored by the user, is put off, or was put off and then forgotten      *)
(* because the user asked to be reminded of it: exactly one of these, and  *)
(* once only.  (The state of the very first occurrence has no last date;   *)
(* put off, it is mistaken for any other.)                                 *)
EachOnce ==
  NoDate \notin putOff =>
    /\ Past = UNION {Created, ignored, Deferred, forgotten}
    /\ Cardinality(Past) = Len(created) + Cardinality(ignored)
                           + Len(sx.deferred) + Cardinality(forgotten)

(* While nothing was ever put off, the occurrences that remain and the     *)
(* number of the next one are as of the last date, and the transactions    *)
(* bear the number of their occurrence.                                    *)
CountersAsOfLastDate ==
  putOff = {} =>
    /\ sx.num = Cardinality(Past) + 1
    /\ sx.remain = IF sx.total = 0 THEN 0 ELSE sx.total - Cardinality(Past)
    /\ \A i \in DOMAIN created :
         created[i][2] = Cardinality({d \in Past : d <= created[i][1]})

(* In the dialog a reminder is followed by reminders only, so that what is *)
(* carried out is never later than something left for another day.         *)
RemindersLast ==
  \A i, j \in DOMAIN instances.insts :
    i < j /\ instances.insts[i].state = "reminder" =>
      instances.insts[j].state = "reminder"

(* However instances are put off, ignored or entered late: never more      *)
(* occurrences than the schedule was given, and none after its end.        *)
NeverTooMany ==
  /\ sx.total # 0 /\ sx.end = NoDate => Cardinality(Past) <= sx.total
  /\ sx.end # NoDate => \A d \in Past : d <= sx.end
=============================================================================
