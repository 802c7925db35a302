---------------------------- MODULE ObserverList ----------------------------
(***************************************************************************)
(* ObserverList (src/Stp/Base/Util/ObserverList.h): a list that may be     *)
(* changed while nested iterations over it are active.  Removal leaves a   *)
(* hole while any Iterator exists; the destructor of the last one closes   *)
(* the holes.                                                              *)
(*                                                                         *)
(* One thread uses the list, but an observer may do anything to it while   *)
(* it is being notified, so every operation is possible between two calls  *)
(* of tryGetNext.  Iterators live on the stack: the innermost is destroyed *)
(* first.  Positions count from 1.                                         *)
(***************************************************************************)
EXTENDS Integers, Sequences, FiniteSets, SequencesExt, TLC

CONSTANTS
  Observers,
  Null,         \* a hole in observers_
  MaxSlots,     \* bound on the length of observers_
  MaxDepth      \* bound on the nesting of iterations

ASSUME ObserverAssumption ==
  /\ Null \notin Observers
  /\ MaxSlots \in Nat /\ MaxDepth \in Nat

VARIABLES
  alive,         \* the list has not been destroyed
  observers,     \* observers_
  iterators,     \* the Iterator objects, outermost first; iterators_ links those
                 \* whose list_ is not null, innermost first
  needs_compact, \* needs_compact_
  panicked,      \* an ASSERT has failed
  history        \* per Iterator: whom it has notified, and who never left

vars == <<alive, observers, iterators, needs_compact, panicked, history>>

Registered == Range(observers) \ {Null}

\* iterators_.isEmpty(): a list being used is alive, so all of them are linked.
Quiet == iterators = <<>>

Init ==
  /\ alive = TRUE
  /\ observers = <<>>
  /\ iterators = <<>>
  /\ needs_compact = FALSE
  /\ panicked = FALSE
  /\ history = <<>>

Running == alive /\ ~panicked

------------------------------------------------------------------------------
(* Changes of the list. *)

\* Mutation: a hole is reused, within the reach of running iterations.
AddObserverInHole(o) ==
  /\ Running /\ o \notin Registered /\ Len(observers) < MaxSlots
  /\ observers' = IF Null \in Range(observers)
                  THEN [observers EXCEPT ![CHOOSE i \in DOMAIN observers : observers[i] = Null] = o]
                  ELSE Append(observers, o)
  /\ UNCHANGED <<alive, iterators, needs_compact, panicked, history>>

\* "observers can only be added once!"
AddObserver(o) ==
  /\ Running /\ o \notin Registered /\ Len(observers) < MaxSlots
  /\ observers' = Append(observers, o)
  /\ UNCHANGED <<alive, iterators, needs_compact, panicked, history>>

\* Whoever has left, even to come back, is not a stayer of any iteration.
Left(O) == history' = [k \in DOMAIN history |-> [history[k] EXCEPT !.stayers = @ \ O]]

Hole(q, O) == [i \in DOMAIN q |-> IF q[i] \in O THEN Null ELSE q[i]]

\* The elements of q that are not in O, in their order.
Without(q, O) ==
  LET kept[i \in 0 .. Len(q)] ==
        IF i = 0 THEN <<>> ELSE IF q[i] \in O THEN kept[i - 1] ELSE Append(kept[i - 1], q[i])
  IN kept[Len(q)]

Closed(q) == Without(q, {Null})

RemoveObserver(o) ==
  /\ Running /\ o \in Registered
  /\ IF Quiet
     THEN observers' = Closed(Hole(observers, {o})) /\ UNCHANGED needs_compact
     ELSE observers' = Hole(observers, {o}) /\ needs_compact' = TRUE
  /\ Left({o})
  /\ UNCHANGED <<alive, iterators, panicked>>

\* ASSERT(index >= 0): the observer is not in the list.
RemoveUnknown(o) ==
  /\ Running /\ o \notin Registered
  /\ panicked' = TRUE
  /\ UNCHANGED <<alive, observers, iterators, needs_compact, history>>

\* Mutation: the flag is forgotten.
ClearWithoutCompaction ==
  /\ Running
  /\ observers' = IF Quiet THEN <<>> ELSE Hole(observers, Observers)
  /\ Left(Observers)
  /\ UNCHANGED <<alive, needs_compact, iterators, panicked>>

Clear ==
  /\ Running
  /\ IF Quiet
     THEN observers' = <<>> /\ UNCHANGED needs_compact
     ELSE observers' = Hole(observers, Observers) /\ needs_compact' = TRUE
  /\ Left(Observers)
  /\ UNCHANGED <<alive, iterators, panicked>>

\* ~ObserverList: the iterators it still has are cut off.
Destroy ==
  /\ Running
  /\ alive' = FALSE
  /\ observers' = <<>>
  /\ iterators' = [k \in DOMAIN iterators |-> [iterators[k] EXCEPT !.list = FALSE]]
  /\ Left(Observers)
  /\ UNCHANGED <<needs_compact, panicked>>

------------------------------------------------------------------------------
(* Iterations. *)

Inner == Len(iterators)

\* Iterator(list)
Begin ==
  /\ Running /\ Inner < MaxDepth
  /\ iterators' = Append(iterators, [list |-> TRUE, index |-> 1, max_index |-> Len(observers)])
  /\ history' = Append(history, [told |-> <<>>, stayers |-> Registered, exhausted |-> FALSE])
  /\ UNCHANGED <<alive, observers, needs_compact, panicked>>

\* Mutation: the loop runs to the end of the list as it is now.
ReachOfToday(it) ==
  {i \in DOMAIN observers : it.index <= i /\ observers[i] # Null}

\* The live positions an iterator has still to visit.
Reach(it) ==
  {i \in DOMAIN observers : it.index <= i /\ i <= it.max_index /\ observers[i] # Null}

\* tryGetNext finds an observer, which is then notified ...
TryGetNext ==
  LET it == iterators[Inner]
      i == CHOOSE j \in Reach(it) : \A k \in Reach(it) : j <= k
  IN /\ ~panicked /\ iterators # <<>> /\ it.list /\ Reach(it) # {}
     /\ iterators' = [iterators EXCEPT ![Inner].index = i + 1]
     /\ history' = [history EXCEPT ![Inner].told = Append(@, observers[i])]
     /\ UNCHANGED <<alive, observers, needs_compact, panicked>>

\* ... or returns nullptr; index_ has moved past the holes.
TryGetNextEnds ==
  LET it == iterators[Inner]
      limit == IF it.max_index < Len(observers) THEN it.max_index ELSE Len(observers)
  IN /\ ~panicked /\ iterators # <<>> /\ (it.list => Reach(it) = {})
     /\ iterators' = IF it.list /\ it.index <= limit
                     THEN [iterators EXCEPT ![Inner].index = limit + 1] ELSE iterators
     /\ history' = [history EXCEPT ![Inner].exhausted = TRUE]
     /\ UNCHANGED <<alive, observers, needs_compact, panicked>>

\* ~Iterator, at the end of the loop or when an observer throws: the last one
\* of the list compacts it.
End ==
  /\ ~panicked /\ iterators # <<>>
  /\ IF iterators[Inner].list /\ Inner = 1 /\ needs_compact
     THEN observers' = Closed(observers) /\ needs_compact' = FALSE
     ELSE UNCHANGED <<observers, needs_compact>>
  /\ iterators' = Front(iterators)
  /\ history' = Front(history)
  /\ UNCHANGED <<alive, panicked>>

Next ==
  \/ \E o \in Observers : AddObserver(o) \/ RemoveObserver(o) \/ RemoveUnknown(o)
  \/ Clear \/ Destroy
  \/ Begin \/ TryGetNext \/ TryGetNextEnds \/ End

Spec == Init /\ [][Next]_vars

\* For model checking: observers are interchangeable.
ObserverSymmetry == Permutations(Observers)

------------------------------------------------------------------------------
(* Correctness. *)

\* Every variable has its type, and an index ends one past its maximum.
TypeOK ==
  /\ alive \in BOOLEAN /\ needs_compact \in BOOLEAN /\ panicked \in BOOLEAN
  /\ Len(observers) <= MaxSlots /\ Range(observers) \subseteq Observers \cup {Null}
  /\ Len(iterators) <= MaxDepth /\ Len(history) = Len(iterators)
  /\ \A k \in DOMAIN iterators : iterators[k] \in
       [list : BOOLEAN, index : 1 .. (iterators[k].max_index + 1), max_index : 0 .. MaxSlots]

\* Holes exist only while iterations are active: when the last iterator goes,
\* whatever the order of removals, additions and nested loops was, the list is
\* dense again and a later iteration or indexOf meets no null entry.  The types
\* are right, too.
HolesAreTemporary ==
  /\ TypeOK
  /\ alive /\ Null \in Range(observers) => needs_compact
  /\ alive /\ Quiet => Null \notin Range(observers) /\ ~needs_compact

\* One loop never notifies the same observer twice, even if the observer
\* leaves and joins again while the loop is running; and a loop that ran to its
\* end has notified everyone who was in the list all the time, whatever happened
\* in nested loops.
StayersAreToldOnce ==
  \A k \in DOMAIN history :
    /\ IsInjective(history[k].told)
    /\ history[k].exhausted => history[k].stayers \subseteq Range(history[k].told)

\* The list with holes and indices implements the list without: the order of
\* notification, who is notified and who is not.
Contract == INSTANCE ObserverListSpec WITH
  list <- Closed(observers),
  owed <- [k \in DOMAIN iterators |->
            IF iterators[k].list
            THEN Closed(SubSeq(observers, iterators[k].index,
                               IF iterators[k].max_index < Len(observers)
                               THEN iterators[k].max_index ELSE Len(observers)))
            ELSE <<>>]

ImplementsContract == Contract!Spec
==============================================================================
