---------------------------- MODULE GuiRefresh ----------------------------
(***************************************************************************)
(* The component manager (app-utils/gnc-component-manager.c): windows and  *)
(* dialogs register as components, watch entities or types of entities,    *)
(* and are refreshed when an engine event touches what they watch.  While  *)
(* refreshes are suspended the events are collected; a refresh swaps the   *)
(* collection with a second one, so that events that its handlers cause    *)
(* are collected apart from those it is reporting.                         *)
(*                                                                         *)
(* Handlers call back into the manager.  stack holds the code that is      *)
(* running: at the bottom the caller (a menu entry, a dialog), above it    *)
(* refresh passes and loops that close the components of a session, each   *)
(* with the handler it is inside of.  A handler may do what any caller may *)
(* do; it resumes what it suspended before it returns.                     *)
(***************************************************************************)
EXTENDS Integers, Sequences, SequencesExt, FiniteSets, FiniteSetsExt

CONSTANTS
  Entity,      \* the engine entities (GUIDs) that generate events
  TypeOf,      \* the type of each entity
  Kind,        \* the kinds of events, "MODIFY" one of them
  Masks,       \* the event masks that components ask for
  Handlers,    \* the pairs <<has a refresh handler, has a close handler>>
  MaxId,       \* bound: components registered in a run
  MaxHeld      \* bound: suspensions that one piece of code holds

ASSUME Entities == TypeOf \in [Entity -> STRING] /\ "MODIFY" \in Kind
ASSUME MasksOfKinds == Masks \subseteq SUBSET Kind
ASSUME PairsOfFlags == Handlers \subseteq BOOLEAN \X BOOLEAN
ASSUME Bounds == MaxId \in Nat \ {0} /\ MaxHeld \in Nat \ {0}

VARIABLES
  components,         \* the ids of the registered components
  info,               \* their ComponentInfo
  next_component_id,
  suspend_counter,
  changes,            \* the events collected, by entity and by type
  changes_backup,     \* those the pass that is running reports
  got_events,
  stack,              \* the code that is running, innermost last
  pending             \* history: events that no pass has started to report

manager == <<changes, changes_backup, got_events, pending>>
table == <<components, info, next_component_id>>
vars == <<manager, table, suspend_counter, stack>>

Nil == 0
Id == 1..MaxId
TypeRecorded(e) == IF TypeOf[e] = "Split" THEN "Trans" ELSE TypeOf[e]
Topic == Entity \cup {TypeRecorded(e) : e \in Entity}
Nothing == [t \in Topic |-> {}]
ComponentInfo == [refresh : BOOLEAN, close : BOOLEAN, session : BOOLEAN,
                  watch : [Topic -> SUBSET Kind]]
Unregistered == [refresh |-> FALSE, close |-> FALSE, session |-> FALSE,
                 watch |-> Nothing]

Frame == [kind : {"caller", "refresh", "forced", "close"}, todo : SUBSET Id,
          running : Id \cup {Nil}, due : SUBSET Id, held : 0..MaxHeld]
CallerFrame == [kind |-> "caller", todo |-> {}, running |-> Nil, due |-> {},
                held |-> 0]

Init ==
  /\ components = {} /\ next_component_id = 1
  /\ info = [i \in Id |-> Unregistered]
  /\ suspend_counter = 0 /\ got_events = FALSE /\ pending = {}
  /\ changes = Nothing /\ changes_backup = Nothing
  /\ stack = <<CallerFrame>>

-----------------------------------------------------------------------------
top == stack[Len(stack)]
CodeRuns == top.kind = "caller" \/ top.running # Nil
IsPass(f) == f.kind \in {"refresh", "forced"}

(* gnc-file.c disables engine events around its close loops.               *)
EventsNeverOff == FALSE
EventsOff == \E i \in DOMAIN stack : stack[i].kind = "close"

Matches(watch, recorded) == \E t \in Topic : watch[t] \cap recorded[t] # {}

(* The components a pass owes a call: those that stay registered and go on *)
(* watching something it reports.                                          *)
Owed(newInfo, recorded) ==
  {c \in Id : newInfo[c].refresh /\ Matches(newInfo[c].watch, recorded)}
Rewatched(newInfo) ==
  stack' = [i \in DOMAIN stack |->
              [stack[i] EXCEPT !.due = @ \cap Owed(newInfo, changes_backup)]]

(* Ids rise with each registration: the components in the order of their   *)
(* ids are the components from the oldest to the newest.                   *)
find_free_id ==
  Min({i \in next_component_id..(next_component_id + Cardinality(components)) :
         i \notin components})

Register(handlers) ==
  /\ CodeRuns
  /\ find_free_id <= MaxId
  /\ components' = components \cup {find_free_id}
  /\ info' = [info EXCEPT ![find_free_id] =
                [Unregistered EXCEPT !.refresh = handlers[1], !.close = handlers[2]]]
  /\ next_component_id' = find_free_id + 1
  /\ UNCHANGED <<manager, suspend_counter, stack>>

SetSession(c) ==
  /\ CodeRuns /\ c \in components
  /\ info' = [info EXCEPT ![c].session = TRUE]
  /\ UNCHANGED <<manager, components, next_component_id, suspend_counter, stack>>

WatchEntity(c, t, mask) ==
  /\ CodeRuns /\ c \in components
  /\ info' = [info EXCEPT ![c].watch[t] = mask]
  /\ Rewatched(info')
  /\ UNCHANGED <<manager, components, next_component_id, suspend_counter>>

ClearWatches(c) ==
  /\ CodeRuns /\ c \in components
  /\ info' = [info EXCEPT ![c].watch = Nothing]
  /\ Rewatched(info')
  /\ UNCHANGED <<manager, components, next_component_id, suspend_counter>>

(* The close handler of a session's component closes that one only.        *)
Unregister(c) ==
  /\ CodeRuns /\ c \in components
  /\ top.kind = "close" => c = top.running \/ ~info[c].session
  /\ components' = components \ {c}
  /\ info' = [info EXCEPT ![c] = Unregistered]
  /\ Rewatched(info')
  /\ UNCHANGED <<manager, next_component_id, suspend_counter>>

-----------------------------------------------------------------------------
NotSuspended(n) == n
Suspended(n) == n + 1
Resumed(n) == IF n = 0 THEN n ELSE n - 1

(* What gnc_gui_refresh_internal does before its loop, called by the code  *)
(* in frames with recorded collected: it suspends refreshes, swaps the     *)
(* tables and lists the components.                                        *)
Swapped == changes_backup
Pass(kind, recorded, counter, frames) ==
  /\ suspend_counter' = Suspended(counter)
  /\ changes_backup' = recorded
  /\ changes' = Swapped
  /\ pending' = {}
  /\ stack' = Append(frames,
       [kind |-> kind, todo |-> components, running |-> Nil, held |-> 0,
        due |-> IF kind = "refresh" THEN Owed(info, recorded) ELSE {}])

(* gnc_cm_event_handler; the event of a split counts as a modification of  *)
(* its transaction.                                                        *)
RecordedForEntity(e, k) == [changes EXCEPT ![e] = @ \cup {k}]
Recorded(e, k) ==
  [RecordedForEntity(e, k) EXCEPT
     ![TypeRecorded(e)] = @ \cup {IF TypeOf[e] = "Split" THEN "MODIFY" ELSE k}]

Event(e, k) ==
  /\ CodeRuns /\ ~EventsOff
  /\ got_events' = TRUE
  /\ \/ /\ suspend_counter = 0
        /\ Pass("refresh", Recorded(e, k), suspend_counter, stack)
     \/ /\ suspend_counter > 0
        /\ changes' = Recorded(e, k)
        /\ pending' = pending \cup {<<e, k>>}
        /\ UNCHANGED <<suspend_counter, changes_backup, stack>>
  /\ UNCHANGED table

Suspend ==
  /\ CodeRuns /\ top.held < MaxHeld
  /\ suspend_counter' = Suspended(suspend_counter)
  /\ stack' = [stack EXCEPT ![Len(stack)].held = @ + 1]
  /\ UNCHANGED <<manager, table>>

Resume ==
  /\ CodeRuns /\ top.held > 0
  /\ LET frames == [stack EXCEPT ![Len(stack)].held = @ - 1]
         counter == Resumed(suspend_counter)
     IN  \/ /\ counter = 0 /\ got_events
            /\ Pass("refresh", changes, counter, frames)
         \/ /\ counter = 0 => ~got_events
            /\ suspend_counter' = counter
            /\ stack' = frames
            /\ UNCHANGED <<changes, changes_backup, pending>>
  /\ UNCHANGED <<table, got_events>>

(* Menu entries and preferences refresh everything; with refreshes         *)
(* suspended the call does nothing.                                        *)
RefreshAll ==
  /\ top.kind = "caller" /\ suspend_counter = 0
  /\ Pass("forced", changes, suspend_counter, stack)
  /\ UNCHANGED <<table, got_events>>

Oldest == Min(top.todo)
Enter(c) == stack' = [stack EXCEPT ![Len(stack)] =
              [top EXCEPT !.todo = @ \ {Oldest}, !.running = c, !.due = @ \ {c}]]

(* One iteration of a pass: the component is looked up by its id.          *)
ReportsNewOnly(c) == Matches(info[c].watch, changes)
Reports(c) == Matches(info[c].watch, changes_backup)
Visit ==
  /\ IsPass(top) /\ top.running = Nil /\ top.todo # {}
  /\ LET c == Oldest
     IN  Enter(IF /\ c \in components /\ info[c].refresh
                  /\ top.kind = "refresh" => Reports(c)
               THEN c ELSE Nil)
  /\ UNCHANGED <<manager, table, suspend_counter>>

Return ==
  /\ top.running # Nil /\ top.held = 0
  /\ stack' = [stack EXCEPT ![Len(stack)].running = Nil]
  /\ UNCHANGED <<manager, table, suspend_counter>>

(* The end of gnc_gui_refresh_internal.  Its call to resume finds          *)
(* got_events clear, so that no further pass starts.                       *)
EndPass ==
  /\ IsPass(top) /\ top.running = Nil /\ top.todo = {}
  /\ changes_backup' = Nothing
  /\ got_events' = FALSE
  /\ suspend_counter' = Resumed(suspend_counter)
  /\ stack' = Front(stack)
  /\ UNCHANGED <<table, changes, pending>>

(* gnc_close_gui_component_by_session as gnc-file.c calls it.  The loop    *)
(* goes over the ComponentInfo structures themselves.                      *)
CloseBySession ==
  /\ top.kind = "caller"
  /\ stack' = Append(stack,
       [kind |-> "close", running |-> Nil, held |-> 0, due |-> {},
        todo |-> {c \in components : info[c].session}])
  /\ UNCHANGED <<manager, table, suspend_counter>>

CloseNext ==
  /\ top.kind = "close" /\ top.running = Nil /\ top.todo # {}
  /\ Enter(IF info[Oldest].close THEN Oldest ELSE Nil)
  /\ UNCHANGED <<manager, table, suspend_counter>>

EndClose ==
  /\ top.kind = "close" /\ top.running = Nil /\ top.todo = {}
  /\ stack' = Front(stack)
  /\ UNCHANGED <<manager, table, suspend_counter>>

Next ==
  \/ \E h \in Handlers : Register(h)
  \/ \E c \in Id : \/ SetSession(c) \/ ClearWatches(c) \/ Unregister(c)
                   \/ \E t \in Topic, m \in Masks : WatchEntity(c, t, m)
  \/ \E e \in Entity, k \in Kind : Event(e, k)
  \/ Suspend \/ Resume \/ RefreshAll \/ CloseBySession
  \/ Visit \/ Return \/ EndPass \/ CloseNext \/ EndClose

Spec == Init /\ [][Next]_vars

-----------------------------------------------------------------------------
(* The variables keep their types.  Refresh passes and close loops do not  *)
(* nest, however their handlers call back, and the suspend counter is what *)
(* the running code holds plus one for a pass.                             *)
Suspensions(f) == f.held + IF IsPass(f) THEN 1 ELSE 0
TypeOK ==
  /\ next_component_id \in 1..(MaxId + 1)
  /\ components \subseteq 1..(next_component_id - 1)
  /\ info \in [Id -> ComponentInfo]
  /\ changes \in [Topic -> SUBSET Kind] /\ changes_backup \in [Topic -> SUBSET Kind]
  /\ got_events \in BOOLEAN /\ pending \subseteq Entity \X Kind
  /\ stack \in Seq(Frame) /\ Len(stack) \in {1, 2}
  /\ suspend_counter = Suspensions(stack[1])
                       + IF Len(stack) = 2 THEN Suspensions(stack[2]) ELSE 0

(* The table handed to refresh handlers is not changed under their eyes:   *)
(* from the start of a pass to its end it says the same, whatever events   *)
(* the handlers cause.                                                     *)
TableStable ==
  [][\A i \in DOMAIN stack \cap DOMAIN stack' :
       IsPass(stack[i]) => changes_backup' = changes_backup]_vars

(* A pass that has gone through its list has called every component that   *)
(* was registered and watched something it reports, unless the component   *)
(* went away or stopped watching, whatever other handlers registered and   *)
(* unregistered meanwhile.                                                 *)
Notified == \A i \in DOMAIN stack :
              IsPass(stack[i]) /\ stack[i].todo = {} => stack[i].due = {}

(* Between the starts of two passes the manager collects exactly what      *)
(* happens: an event that a refresh handler causes waits for the next      *)
(* pass, and what a pass has reported is not reported again.  An event is  *)
(* recorded for the entity and for its type (a split's transaction).       *)
RecordsOf(p) ==
  {p, IF TypeOf[p[1]] = "Split" THEN <<"Trans", "MODIFY">> ELSE <<TypeOf[p[1]], p[2]>>}
CollectedExactly ==
  \A t \in Topic, k \in Kind :
    k \in changes[t] <=> \E p \in pending : <<t, k>> \in RecordsOf(p)

(* A loop that closes the components of a session never reaches a          *)
(* structure that has been freed: events are off, so that no refresh       *)
(* handler closes its own component inside another one's close handler.    *)
NoFreedNode ==
  \A i \in DOMAIN stack : stack[i].kind = "close" =>
    stack[i].todo \subseteq components
=============================================================================
