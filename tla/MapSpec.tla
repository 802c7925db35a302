------------------------------- MODULE MapSpec -------------------------------
(***************************************************************************)
(* What hash maps promise (src/Stp/Base/Containers/HashMap.h): each is a   *)
(* finite function, and an enumeration that nothing disturbs visits every  *)
(* key that stays, once.                                                   *)
(***************************************************************************)
EXTENDS Integers

CONSTANTS Maps, Keys, Values,
  Stale  \* the value that set leaves behind where there was one already

None == "none"
NoWalk == [map |-> None, seen |-> {}, owed |-> {}]
Ended == [NoWalk EXCEPT !.map = "ended"]

VARIABLES dict,   \* the maps
          walk    \* the enumeration in progress: its map, the keys it has shown and those it owes

vars == <<dict, walk>>

Bound(f, k, v) == [x \in DOMAIN f \cup {k} |-> IF x = k THEN v ELSE f[x]]
Without(f, k) == [x \in DOMAIN f \ {k} |-> f[x]]
Empty == [x \in {} |-> Stale]

\* An operation that may reorganise the map m stops an enumeration of it, which
\* then never gets to its end.
Disturbs(m) == walk' = walk \/ (walk.map = m /\ walk' = NoWalk)

Init == dict = [m \in Maps |-> Empty] /\ walk = NoWalk

TryAdd(m, k, v) ==
  /\ dict' = IF k \in DOMAIN dict[m] THEN dict ELSE [dict EXCEPT ![m] = Bound(@, k, v)]
  /\ Disturbs(m)

Set(m, k, v) ==
  /\ dict' = [dict EXCEPT ![m] = Bound(@, k, IF k \in DOMAIN @ THEN Stale ELSE v)]
  /\ Disturbs(m)

Update(m, k, v) ==
  /\ k \in DOMAIN dict[m]
  /\ dict' = [dict EXCEPT ![m][k] = v]
  /\ UNCHANGED walk

TryRemove(m, k) ==
  /\ dict' = [dict EXCEPT ![m] = Without(@, k)]
  /\ \/ walk.map = m /\ walk' = [walk EXCEPT !.seen = @ \ {k}, !.owed = @ \ {k}]
     \/ Disturbs(m)

Clear(m) == dict' = [dict EXCEPT ![m] = Empty] /\ walk' = IF walk.map = m THEN NoWalk ELSE walk

\* willGrow, shrink and rehash have no effect that a user of the map can see.
Reorganise(m) == UNCHANGED dict /\ Disturbs(m)

Swap(m, o) == dict' = [dict EXCEPT ![m] = dict[o], ![o] = dict[m]] /\ walk' = NoWalk

Copy(m, o) == dict' = [dict EXCEPT ![m] = dict[o]] /\ walk' = IF walk.map = m THEN NoWalk ELSE walk

Enumerate(m) == walk' = [map |-> m, seen |-> {}, owed |-> DOMAIN dict[m]] /\ UNCHANGED dict

Visit(k) ==
  /\ walk.map \in Maps
  /\ k \in DOMAIN dict[walk.map] \ walk.seen
  /\ walk' = [walk EXCEPT !.seen = @ \cup {k}]
  /\ UNCHANGED dict

End == walk.map \in Maps /\ walk.owed \subseteq walk.seen /\ walk' = Ended /\ UNCHANGED dict

Next ==
  \/ \E m \in Maps, k \in Keys : TryRemove(m, k)
  \/ \E m \in Maps, k \in Keys, v \in Values : TryAdd(m, k, v) \/ Set(m, k, v) \/ Update(m, k, v)
  \/ \E m \in Maps : Clear(m) \/ Reorganise(m) \/ Enumerate(m)
  \/ \E m, o \in Maps : Swap(m, o) \/ Copy(m, o)
  \/ \E k \in Keys : Visit(k)
  \/ End

Spec == Init /\ [][Next]_vars
==============================================================================
