----------------------------- MODULE LinkedList -----------------------------
(***************************************************************************)
(* src/Stp/Base/Containers/LinkedList.h: a circular list through its nodes *)
(* and the root of the list, linked both ways.                             *)
(***************************************************************************)
EXTENDS Integers, Sequences, FiniteSets

CONSTANTS Nodes, NULL, Root

VARIABLES next, prev

vars == <<next, prev>>

Places == Nodes \cup {Root}

\* One more node of a walk along the pointers, unless it is back at the root.
Further(pointer, q) ==
  LET n == pointer[IF q = <<>> THEN Root ELSE q[Len(q)]]
  IN IF n \in {Root, NULL} THEN q ELSE Append(q, n)

\* The nodes that a loop over the pointers visits.
Around(pointer) ==
  LET walk[i \in 0 .. Cardinality(Nodes) + 1] == IF i = 0 THEN <<>> ELSE Further(pointer, walk[i - 1])
  IN walk[Cardinality(Nodes) + 1]

Alone == [p \in Places |-> IF p = Root THEN Root ELSE NULL]

Init == next = Alone /\ prev = Alone

\* Also append, which is insertBefore the root.
insertBefore(e, n) ==
  /\ next[n] = NULL /\ prev[n] = NULL /\ next[e] # NULL
  /\ next' = [next EXCEPT ![n] = e, ![prev[e]] = n]
  /\ prev' = [prev EXCEPT ![n] = prev[e], ![e] = n]

\* Also prepend, which is insertAfter the root.
insertAfter(e, n) ==
  /\ next[n] = NULL /\ prev[n] = NULL /\ next[e] # NULL
  /\ next' = [next EXCEPT ![n] = next[e], ![e] = n]
  /\ prev' = [prev EXCEPT ![n] = e, ![next[e]] = n]

PrevWithout(n) == [prev EXCEPT ![next[n]] = prev[n], ![n] = NULL]

\* Also removeFirst and removeLast.
removeFromList(n) ==
  /\ next[n] # NULL /\ prev[n] # NULL
  /\ next' = [next EXCEPT ![prev[n]] = next[n], ![n] = NULL]
  /\ prev' = PrevWithout(n)

clear == next' = Alone /\ prev' = Alone

Next ==
  \/ \E n \in Nodes : removeFromList(n) \/ \E e \in Places : insertBefore(e, n) \/ insertAfter(e, n)
  \/ clear

Spec == Init /\ [][Next]_vars

(* Properties *)

Contract == INSTANCE ListSpec WITH list <- Around(next)

\* A step of the contract.
ImplementsList == [Contract!Next]_(Around(next))

\* Both ways round the list are the same way.
WaysAgree ==
  LET q == Around(next)
  IN Around(prev) = [i \in 1 .. Len(q) |-> q[Len(q) - i + 1]]
==============================================================================
