-------------------------- MODULE SinglyLinkedList --------------------------
(***************************************************************************)
(* src/Stp/Base/Containers/SinglyLinkedList.h: a list through its nodes,   *)
(* with a pointer to either end.                                           *)
(***************************************************************************)
EXTENDS Integers, Sequences, FiniteSets

CONSTANTS
  Nodes, NULL,
  Careful  \* callers add nodes whose next_ is null, and call Reset after clear

VARIABLES
  next, head, tail,
  cleared  \* history: clear has left tail_ behind

vars == <<next, head, tail, cleared>>

\* One more node of a walk along the list, unless it has come to the end.
Further(q) ==
  LET n == IF q = <<>> THEN head ELSE next[q[Len(q)]]
  IN IF n = NULL THEN q ELSE Append(q, n)

\* The nodes from head on; no list without a cycle has more than there are.
Elements ==
  LET walk[i \in 0 .. Cardinality(Nodes) + 1] == IF i = 0 THEN <<>> ELSE Further(walk[i - 1])
  IN walk[Cardinality(Nodes) + 1]

Init == next = [n \in Nodes |-> NULL] /\ head = NULL /\ tail = NULL /\ cleared = FALSE

Members == {Elements[i] : i \in DOMAIN Elements}

\* A node that may be added: it is in no list, and where callers are careful says so.
Addable(n) == n \notin Members /\ (Careful => next[n] = NULL /\ ~cleared)

append(n) ==
  /\ Addable(n)
  /\ IF tail = NULL THEN head' = n /\ UNCHANGED next
     ELSE next' = [next EXCEPT ![tail] = n] /\ UNCHANGED head
  /\ tail' = n
  /\ UNCHANGED cleared

prepend(n) ==
  /\ Addable(n) /\ next[n] = NULL
  /\ next' = [next EXCEPT ![n] = head]
  /\ head' = n
  /\ tail' = IF tail = NULL THEN n ELSE tail
  /\ UNCHANGED cleared

\* Behind a node of the list; behind null is prepend.
insertAfter(after, n) ==
  /\ Addable(n) /\ after \in Members
  /\ next' = [next EXCEPT ![n] = next[after], ![after] = n]
  /\ tail' = IF tail = after THEN n ELSE tail
  /\ UNCHANGED <<head, cleared>>

\* Mutation: the last node is removed and tail_ stays on it.
TailWithoutKept(n, prev) == tail

TailWithout(n, prev) == IF tail = n THEN prev ELSE tail

\* next_ of the removed node is not reset.  A node that is not in the list is not found.
remove(n) ==
  /\ n \in Members
  /\ IF head = n THEN head' = next[n] /\ tail' = TailWithout(n, NULL) /\ UNCHANGED next
     ELSE LET prev == CHOOSE p \in Members : next[p] = n
          IN next' = [next EXCEPT ![prev] = next[n]] /\ tail' = TailWithout(n, prev) /\ UNCHANGED head
  /\ UNCHANGED cleared

\* Also removeFirst.
takeFirst ==
  /\ head # NULL
  /\ IF tail = head THEN head' = NULL /\ tail' = NULL /\ UNCHANGED next
     ELSE head' = next[head] /\ next' = [next EXCEPT ![head] = NULL] /\ UNCHANGED tail
  /\ UNCHANGED cleared

clear ==
  /\ next' = [n \in Nodes |-> IF n \in Members THEN NULL ELSE next[n]]
  /\ head' = NULL
  /\ cleared' = (tail # NULL)
  /\ UNCHANGED tail

\* Only the list forgets the nodes.  The caller makes new ones.
Reset ==
  /\ head' = NULL /\ tail' = NULL /\ cleared' = FALSE
  /\ next' = [n \in Nodes |-> IF n \in Members THEN NULL ELSE next[n]]

\* The caller constructs a removed node anew.
Renew(n) == n \notin Members /\ next[n] # NULL /\ next' = [next EXCEPT ![n] = NULL] /\ UNCHANGED <<head, tail, cleared>>

Next ==
  \/ \E n \in Nodes : append(n) \/ prepend(n) \/ remove(n) \/ Renew(n) \/ (\E after \in Nodes : insertAfter(after, n))
  \/ takeFirst
  \/ clear
  \/ Reset

Spec == Init /\ [][Next]_vars

(* Properties *)

Contract == INSTANCE ListSpec WITH list <- Elements

\* A step of the contract: the list is the sequence that its operations make;
\* append relies on tail_ to be its last node after every removal.
ImplementsList == [Contract!Next]_Elements

\* tail_ is the last node, unless the list was cleared.
TailIsLast == ~cleared => tail = (IF Elements = <<>> THEN NULL ELSE Elements[Len(Elements)])
==============================================================================
