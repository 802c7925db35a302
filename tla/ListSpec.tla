------------------------------ MODULE ListSpec ------------------------------
(***************************************************************************)
(* What the intrusive lists of src/Stp/Base/Containers promise: a list is  *)
(* a sequence of nodes, and a node is in one place at most.                *)
(***************************************************************************)
EXTENDS Integers, Sequences

CONSTANT Nodes

VARIABLE list

Free == Nodes \ {list[i] : i \in DOMAIN list}

Init == list = <<>>

\* In front of all, or behind the first i nodes.
Insert(i, n) == n \in Free /\ list' = SubSeq(list, 1, i) \o <<n>> \o SubSeq(list, i + 1, Len(list))

Drop(i) == list' = SubSeq(list, 1, i - 1) \o SubSeq(list, i + 1, Len(list))

Clear == list' = <<>>

Next ==
  \/ \E n \in Nodes : \E i \in 0 .. Len(list) : Insert(i, n)
  \/ \E i \in 1 .. Len(list) : Drop(i)
  \/ Clear

Spec == Init /\ [][Next]_list
==============================================================================
