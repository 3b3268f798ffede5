------------------------------ MODULE QofEvent ------------------------------
(***************************************************************************)
(* The event dispatcher of libqof (qofevent.c): one list of handlers, which*)
(* an event walks from head to tail.  Handlers are ordinary functions: one *)
(* that runs for an event may register handlers, unregister any of them    *)
(* (itself included), suspend or resume events and generate further events *)
(* before it returns.  The C stack of nested walks is the variable stack;  *)
(* its last element is the walk that is executing.                         *)
(***************************************************************************)
EXTENDS Integers, Sequences, SequencesExt, FiniteSets, FiniteSetsExt

CONSTANTS
  MaxId,        \* registrations the model performs
  MaxEvents,    \* events one outermost event may give rise to, itself included
  MaxPending,   \* bound on pending_deletes (a dead handler can be deleted again)
  MaxSuspend    \* bound on suspend_counter

ASSUME Bounds == {MaxId, MaxEvents, MaxPending, MaxSuspend} \subseteq Nat \ {0}

VARIABLES
  handlers,          \* the GList, by the ids of its nodes
  dead,              \* ids in the list whose HandlerInfo.handler is NULL
  next_handler_id,
  suspend_counter,
  handler_run_level,
  pending_deletes,
  stack,             \* the walks in progress, outermost first
  spawned            \* events generated since the outermost walk began (a bound)

vars == <<handlers, dead, next_handler_id, suspend_counter, handler_run_level,
          pending_deletes, stack, spawned>>
list == <<handlers, dead, next_handler_id, pending_deletes>>

Nil == 0   \* ids start at 1

(* A walk: the node it visits next, the handler it is inside of, and (a    *)
(* history used by the properties only) the handlers that were registered  *)
(* when its event was generated, are still, and have not been called.      *)
Walk == [next: 0..MaxId, running: 0..MaxId, due: SUBSET (1..MaxId)]

Live == handlers \ dead
top == stack[Len(stack)]
(* Program text outside qofevent.c runs: either no event is being          *)
(* delivered, or the innermost walk is inside a handler.                   *)
ClientRuns == stack # <<>> => top.running # Nil

(* Handlers are prepended, under ids that rise (an id would have to        *)
(* overflow before one is used again): the order of the list is that of    *)
(* the ids, the last one registered first.  Mutant: they are appended.     *)
PrecedesAppended(h, k) == h < k
Precedes(h, k) == h > k
HeadOf(S) == IF S = {} THEN Nil
             ELSE CHOOSE h \in S : \A k \in S \ {h} : Precedes(h, k)
Successor(h) == HeadOf({k \in handlers : Precedes(h, k)})

Init ==
  /\ handlers = {} /\ dead = {} /\ next_handler_id = 1
  /\ suspend_counter = 0 /\ handler_run_level = 0 /\ pending_deletes = 0
  /\ stack = <<>> /\ spawned = 0

-----------------------------------------------------------------------------
(* The first id from next_handler_id on that no node of the list holds.    *)
find_next_handler_id ==
  Min({id \in next_handler_id..(next_handler_id + Cardinality(handlers)) :
         id \notin handlers})

Register ==
  /\ ClientRuns
  /\ find_next_handler_id <= MaxId
  /\ handlers' = handlers \cup {find_next_handler_id}
  /\ next_handler_id' = find_next_handler_id + 1
  /\ UNCHANGED <<dead, suspend_counter, handler_run_level, pending_deletes,
                 stack, spawned>>

(* While an event is delivered the node stays in the list, with its        *)
(* handler cleared; it is only counted for the walk that ends last.  An id *)
(* whose deletion is pending is still found, and counted once more.        *)
MayUnlinkUnlessNested == handler_run_level <= 1
MayUnlink == handler_run_level = 0
Counted == pending_deletes + 1

Forget(id) ==
  stack' = [i \in DOMAIN stack |-> [stack[i] EXCEPT !.due = @ \ {id}]]

Unregister(id) ==
  /\ ClientRuns
  /\ id \in handlers
  /\ \/ /\ MayUnlink
        /\ handlers' = handlers \ {id}
        /\ dead' = dead \ {id}
        /\ UNCHANGED pending_deletes
     \/ /\ ~MayUnlink
        /\ pending_deletes < MaxPending
        /\ dead' = dead \cup {id}
        /\ pending_deletes' = Counted
        /\ UNCHANGED handlers
  /\ Forget(id)
  /\ UNCHANGED <<next_handler_id, suspend_counter, handler_run_level, spawned>>

Suspend ==
  /\ ClientRuns
  /\ suspend_counter < MaxSuspend
  /\ suspend_counter' = suspend_counter + 1
  /\ UNCHANGED <<list, handler_run_level, stack, spawned>>

Resume ==
  /\ ClientRuns
  /\ suspend_counter > 0
  /\ suspend_counter' = suspend_counter - 1
  /\ UNCHANGED <<list, handler_run_level, stack, spawned>>

(* qof_event_generate_internal up to its loop *)
GenerateInternal ==
  /\ ClientRuns
  /\ spawned < MaxEvents
  /\ spawned' = spawned + 1
  /\ handler_run_level' = handler_run_level + 1
  /\ stack' = Append(stack, [next |-> HeadOf(handlers), running |-> Nil,
                             due |-> Live])
  /\ UNCHANGED <<list, suspend_counter>>

Gen == suspend_counter = 0 /\ GenerateInternal
ForceGen == suspend_counter > 0 /\ GenerateInternal

StopWhenSuspended(h) == IF suspend_counter > 0 THEN Nil ELSE Successor(h)
Advance(h) == Successor(h)
Callable(h) == h \notin dead

(* One iteration: node->next is read before the handler is called.         *)
Visit ==
  /\ stack # <<>> /\ top.running = Nil /\ top.next # Nil
  /\ LET h == top.next
     IN  stack' = [stack EXCEPT ![Len(stack)] =
           [next    |-> Advance(h),
            running |-> IF Callable(h) THEN h ELSE Nil,
            due     |-> top.due \ {h}]]
  /\ UNCHANGED <<list, suspend_counter, handler_run_level, spawned>>

Return ==
  /\ stack # <<>> /\ top.running # Nil
  /\ stack' = [stack EXCEPT ![Len(stack)].running = Nil]
  /\ UNCHANGED <<list, suspend_counter, handler_run_level, spawned>>

(* The loop is over: the outermost runner frees the nodes left behind.     *)
SweepsWhenAllDead == handler_run_level' = 0 /\ pending_deletes = Cardinality(handlers)
Sweeps == handler_run_level' = 0 /\ pending_deletes > 0

EndWalk ==
  /\ stack # <<>> /\ top.running = Nil /\ top.next = Nil
  /\ handler_run_level' = handler_run_level - 1
  /\ stack' = Front(stack)
  /\ \/ /\ Sweeps
        /\ handlers' = Live
        /\ dead' = {}
        /\ pending_deletes' = 0
     \/ ~Sweeps /\ UNCHANGED <<handlers, dead, pending_deletes>>
  /\ spawned' = IF stack' = <<>> THEN 0 ELSE spawned
  /\ UNCHANGED <<next_handler_id, suspend_counter>>

Dispatch == Visit \/ Return \/ EndWalk
Next == \/ Register \/ Suspend \/ Resume \/ Gen \/ ForceGen \/ Dispatch
        \/ \E id \in 1..MaxId : Unregister(id)

(* A handler is a function that returns, and the loop around it runs on:   *)
(* the dispatcher's own steps are fair, its clients' calls are not.        *)
Spec == Init /\ [][Next]_vars /\ WF_vars(Dispatch)

-----------------------------------------------------------------------------
(* The variables keep their types, no id is given twice, and the run level *)
(* counts the walks.                                                       *)
TypeOK ==
  /\ next_handler_id \in 1..(MaxId + 1)
  /\ handlers \subseteq 1..(next_handler_id - 1)
  /\ dead \subseteq handlers
  /\ suspend_counter \in 0..MaxSuspend
  /\ pending_deletes \in 0..MaxPending
  /\ stack \in Seq(Walk)
  /\ handler_run_level = Len(stack)
  /\ spawned \in Len(stack)..MaxEvents

(* Whatever the handlers of nested events register and unregister, no walk *)
(* is left with a pointer to a node that has been freed: neither the node  *)
(* it goes to next nor the one whose handler it is inside of.              *)
NoDanglingWalk ==
  \A i \in DOMAIN stack :
    {stack[i].next, stack[i].running} \subseteq handlers \cup {Nil}

(* A cleared node is always on its way out: the count that makes the       *)
(* outermost walk sweep is positive exactly while a cleared node exists,   *)
(* so none of them survives the end of the event during which it died.     *)
NoClearedNodeLost ==
  /\ dead # {} <=> pending_deletes > 0
  /\ stack = <<>> => dead = {}

(* A walk that has no node left to visit has called every handler that was *)
(* registered when its event was generated and has not been unregistered   *)
(* since: neither a nested event, nor events being suspended by a handler, *)
(* nor the removal of its neighbours makes it skip one.                    *)
Delivered == \A i \in DOMAIN stack : stack[i].next = Nil => stack[i].due = {}

(* A step that enters a handler enters one that was registered when the    *)
(* event was generated, still is, and has not been called for this event:  *)
(* never an unregistered one, a newcomer, or the same one twice.           *)
OnlyDueHandlersCalled ==
  [][\A i \in DOMAIN stack \cap DOMAIN stack' :
       stack[i].running = Nil /\ stack'[i].running # Nil =>
         stack'[i].running \in stack[i].due \cap Live]_vars

(* Every event ends, with the cleared nodes freed, however its handlers    *)
(* call back into the dispatcher (MaxEvents bounds how often they nest).   *)
EventsEnd == stack # <<>> ~> stack = <<>> /\ dead = {}
=============================================================================
