--------------------------------- MODULE Calls ---------------------------------
(***************************************************************************)
(* What the modules of the intake share: handlers of the API that load     *)
(* rows, go on, and write at a later moment.  A call in flight takes the   *)
(* first free slot of its table.                                           *)
(*                                                                         *)
(* Bound: a behaviour has a budget, one of those in MaxCalls, of calls of  *)
(* each kind.                                                              *)
(***************************************************************************)
EXTENDS Integers, FiniteSets, FiniteSetsExt

CONSTANTS None, MaxCalls

Kinds == {"profile", "student", "request", "directory", "client", "catalog"}

ASSUME CallsAssumption == MaxCalls \subseteq [Kinds -> Nat]

VARIABLE budget       \* calls of a kind that are still to come

Spend(kind) == budget[kind] > 0 /\ budget' = [budget EXCEPT ![kind] = @ - 1]

\* The rows of a table, the ids that have none, and one of a set.
Rows(table)   == {i \in DOMAIN table : table[i] # None}
Unused(table) == {i \in DOMAIN table : table[i] = None}
First(set)    == CHOOSE x \in set : TRUE

Takes(table, h) == table[h] = None /\ h = Min(Unused(table))

\* A copy's columns that were changed are written; the rest of the row stays.
Written(row, copy, after) ==
  [f \in DOMAIN row |-> IF after[f] # copy[f] THEN after[f] ELSE row[f]]

=============================================================================
