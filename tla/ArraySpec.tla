------------------------------ MODULE ArraySpec ------------------------------
(***************************************************************************)
(* What arrays of objects promise (src/Stp/Base/Containers/List.h and      *)
(* InlineList.h): sequences.  An assignment whose copies throw has         *)
(* overwritten a part; any other operation that throws changes nothing.    *)
(***************************************************************************)
EXTENDS Integers, Sequences

CONSTANTS Arrays, Inputs

VARIABLE items

Holds(a, s) == items' = [items EXCEPT ![a] = s]

Init == items = [a \in Arrays |-> <<>>]

\* Also all kinds of appending.
Insert(a, at, s) == Holds(a, SubSeq(items[a], 1, at) \o s \o SubSeq(items[a], at + 1, Len(items[a])))

Remove(a, at, n) == Holds(a, SubSeq(items[a], 1, at) \o SubSeq(items[a], at + n + 1, Len(items[a])))

Assign(a, s) == Holds(a, s)

AssignFails(a, s) ==
  \E n \in {Len(items[a]), Len(s)}, k \in 0 .. Len(s) :
    /\ k <= n /\ n <= Len(items[a])
    /\ Holds(a, [i \in 1 .. n |-> IF i <= k THEN s[i] ELSE items[a][i]])

\* Of itself.
AssignSlice(a, at, n) == Holds(a, SubSeq(items[a], at + 1, at + n))

Move(a, b) == a # b /\ items' = [items EXCEPT ![a] = items[b], ![b] = <<>>]

Swap(a, b) == items' = [items EXCEPT ![a] = items[b], ![b] = items[a]]

Next ==
  \/ \E a, b \in Arrays : Move(a, b) \/ Swap(a, b)
  \/ \E a \in Arrays, s \in Inputs \cup {items[b] : b \in Arrays} :
       \/ Assign(a, s)
       \/ AssignFails(a, s)
       \/ \E at \in 0 .. Len(items[a]) : Insert(a, at, s)
  \/ \E a \in Arrays : \E at \in 0 .. Len(items[a]) : \E n \in 0 .. Len(items[a]) - at : Remove(a, at, n) \/ AssignSlice(a, at, n)

Spec == Init /\ [][Next]_items
==============================================================================
