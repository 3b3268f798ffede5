-------------------------------- MODULE Ledger --------------------------------
(***************************************************************************)
(* What editing transactions promises: "your data remains in the state it  *)
(* was in just after the previous xaccTransCommitEdit()" and each commit   *)
(* lets the engine "verify that your changes still leave the financial     *)
(* objects in an internally consistent state" (engine/Transaction.c).      *)
(*                                                                         *)
(* The ledger holds the committed content of every transaction: its fields *)
(* and what each of its splits posts to an account.  While a transaction   *)
(* is open its content stays; when its edit ends the content is replaced,  *)
(* all at once, by a balanced one, or stays.                               *)
(***************************************************************************)
EXTENDS Integers, FiniteSets, Functions

CONSTANTS Trans
VARIABLES ledger, open

\* The content of a transaction that does not exist or was never committed.
Empty == [descr |-> 0, read_only |-> FALSE, entries |-> {}]

\* An entry is a split with its account, amount, value and reconcile flag.
Balanced(content) ==
  /\ SumFunctionOnSet([e \in content.entries |-> e.value], content.entries) = 0
  /\ \A e \in content.entries : e.amount = e.value

Init ==
  /\ ledger = [t \in Trans |-> Empty]
  /\ open = {}

Begin(t) ==
  /\ open' = open \cup {t}
  /\ UNCHANGED ledger

Abandon(t) ==
  /\ open' = open \ {t}
  /\ UNCHANGED ledger

Publish(t) ==
  /\ open' = open \ {t}
  /\ Balanced(ledger'[t])
  /\ \A u \in Trans \ {t} : ledger'[u] = ledger[u]

Next == \E t \in Trans : Begin(t) \/ Abandon(t) \/ Publish(t)

Spec == Init /\ [][Next]_<<ledger, open>>
=============================================================================
