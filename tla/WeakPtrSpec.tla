----------------------------- MODULE WeakPtrSpec -----------------------------
(***************************************************************************)
(* What WeakPtr promises (src/Stp/Base/Memory/WeakPtr.rst): a weak pointer *)
(* gives its object or nothing; invalidation takes it from all pointers at *)
(* once; and the object is not invalidated or destroyed while a thread is  *)
(* inside a method it has called through a pointer it still holds.         *)
(***************************************************************************)
CONSTANTS Threads, Pointers

VARIABLES
  alive,        \* whether the object and its factory exist
  target,       \* per pointer, "object" or "null"
  using         \* the threads that are inside the object

vars == <<alive, target, using>>

Init ==
  /\ alive = TRUE
  /\ target = [p \in Pointers |-> "null"]
  /\ using = {}

Issue(p) ==
  /\ alive
  /\ target' = [target EXCEPT ![p] = "object"]
  /\ UNCHANGED <<alive, using>>

Copy(p, q) == target' = [target EXCEPT ![p] = target[q]] /\ UNCHANGED <<alive, using>>

Move(p, q) ==
  /\ target' = [target EXCEPT ![p] = target[q], ![q] = "null"]
  /\ UNCHANGED <<alive, using>>

Reset(p) == target' = [target EXCEPT ![p] = "null"] /\ UNCHANGED <<alive, using>>

Enter(t, p) ==
  /\ target[p] = "object"
  /\ using' = using \cup {t}
  /\ UNCHANGED <<alive, target>>

Leave(t) == using' = using \ {t} /\ UNCHANGED <<alive, target>>

Invalidate ==
  /\ using = {}
  /\ target' = [p \in Pointers |-> "null"]
  /\ UNCHANGED <<alive, using>>

Destroy ==
  /\ alive /\ using = {}
  /\ \A p \in Pointers : target[p] = "null"
  /\ alive' = FALSE
  /\ UNCHANGED <<target, using>>

Next ==
  \/ \E p \in Pointers : Issue(p) \/ Reset(p)
  \/ \E p, q \in Pointers : Copy(p, q) \/ Move(p, q)
  \/ \E t \in Threads : Leave(t) \/ \E p \in Pointers : Enter(t, p)
  \/ Invalidate \/ Destroy

Spec == Init /\ [][Next]_vars
==============================================================================
