-------------------------- MODULE ObserverListSpec --------------------------
(***************************************************************************)
(* What an ObserverList promises (src/Stp/Base/Util/ObserverList.h and     *)
(* Util/Call.rst): it may be changed while any number of nested iterations *)
(* are active.  An iteration owes a notification to the observers that     *)
(* were in the list when it began, in their order; one that leaves the     *)
(* list meanwhile is owed nothing any more, one that joins has to wait for *)
(* the next iteration.                                                     *)
(***************************************************************************)
EXTENDS Integers, Sequences

CONSTANTS Observers

VARIABLES
  list,   \* the registered observers, in the order of their registration
  owed    \* per active iteration, outermost first, the observers still to notify

\* The elements of q that are not in O, in their order.
Without(q, O) ==
  LET kept[i \in 0 .. Len(q)] ==
        IF i = 0 THEN <<>> ELSE IF q[i] \in O THEN kept[i - 1] ELSE Append(kept[i - 1], q[i])
  IN kept[Len(q)]

Elements(q) == {q[i] : i \in DOMAIN q}

Init == list = <<>> /\ owed = <<>>

Add(o) ==
  /\ o \notin Elements(list)
  /\ list' = Append(list, o)
  /\ UNCHANGED owed

\* The observers in O leave, and with them the notifications owed to them.
Leave(O) ==
  /\ list' = Without(list, O)
  /\ owed' = [k \in DOMAIN owed |-> Without(owed[k], O)]

Begin ==
  /\ owed' = Append(owed, list)
  /\ UNCHANGED list

Last == Len(owed)

\* The innermost iteration notifies the next observer it owes.
Notify(o) ==
  /\ owed # <<>> /\ owed[Last] # <<>> /\ o = Head(owed[Last])
  /\ owed' = [owed EXCEPT ![Last] = Tail(@)]
  /\ UNCHANGED list

\* The innermost iteration is over.
End ==
  /\ owed # <<>>
  /\ owed' = SubSeq(owed, 1, Last - 1)
  /\ UNCHANGED list

Next ==
  \/ \E o \in Observers : Add(o) \/ Leave({o}) \/ Notify(o)
  \/ Leave(Observers)
  \/ Begin
  \/ End

Spec == Init /\ [][Next]_<<list, owed>>
==============================================================================
