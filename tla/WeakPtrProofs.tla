---------------------------- MODULE WeakPtrProofs ----------------------------
(***************************************************************************)
(* Proofs about WeakPtr.                                                   *)
(*                                                                         *)
(* A flag that is valid and has references is the factory's (ValidIsOwned).*)
(* Whoever has passed the check of a flag is bound to it (Checked), and    *)
(* stays so while the flag has references; so the thread that is allowed   *)
(* to invalidate is the only one that may be inside, or there is no        *)
(* pointer left (MayInvalidate).                                           *)
(***************************************************************************)
EXTENDS WeakPtr, FiniteSetTheorems, TLAPS

CheckingPCs == {"ensure", "compare", "read", "using"}
FactoryPCs == {"ensure", "compare", "alone", "invalidate"}

\* What a call works on, by its place.
CallShape ==
  \A t \in Threads :
    /\ call[t].pc = "idle" => call[t] = Nowhere
    /\ call[t].pc \in {"issue", "read", "using"} => call[t].ptr # nullptr
    /\ call[t].pc \in {"alone", "invalidate", "destroy"} => call[t].ptr = nullptr
    /\ call[t].pc \in CheckingPCs /\ call[t].ptr # nullptr => weak[call[t].ptr].flag \in Flags
    /\ call[t].pc \in FactoryPCs /\ call[t].ptr = nullptr => owner \in Flags
    /\ call[t].pc = "issue" => owner \in Flags
    /\ call[t].pc \in {"release", "destroy"} /\ call[t].ptr = nullptr => owner = Null
    /\ call[t].pc = "failed" => ~Running
    /\ call[t].destroys => call[t].ptr = nullptr

\* Nobody shares a pointer or the factory.
Exclusive ==
  /\ \A t, u \in Threads : t # u /\ call[t].ptr # nullptr => call[t].ptr # call[u].ptr
  /\ \A t, u \in Threads : OnFactory(t) /\ OnFactory(u) => t = u
  /\ \A t \in Threads : OnFactory(t) => alive
  /\ ~alive => owner = Null

Counts ==
  \A f \in Flags :
    count[f] = Cardinality(References(f).pointers) + Cardinality(References(f).releasing)
               + IF owner = f THEN 1 ELSE 0

ValidIsOwned ==
  /\ owner \in Flags => valid[owner]
  /\ \A f \in Flags : valid[f] /\ count[f] > 0 => f = owner

\* Whoever waits for the rest of its check is not the first to have come.
Bound ==
  \A t \in Threads :
    /\ call[t].pc = "compare" => bound[Flag(t)] # nullptr
    /\ call[t].pc = "alone" => bound[owner] \notin {nullptr, t}

Checked == Asserts => \A t \in Threads : call[t].pc \in {"read", "using"} => bound[Flag(t)] = t

MayInvalidate ==
  Asserts => \A t \in Threads : call[t].pc = "invalidate" => bound[owner] = t \/ count[owner] = 1

UsesOwned == Asserts => \A t \in Threads : call[t].pc = "using" => owner = Flag(t)

\* A thread that a flag with pointers is bound to is among its users.
InUse(f) ==
  \/ \E p \in Pointers : weak[p].flag = f
  \/ f = owner /\ (count[f] > 1 \/ \E t \in Threads : call[t].pc = "issue")
BoundIsUser == \A f \in Flags : InUse(f) /\ bound[f] # nullptr => bound[f] \in users[f]

IInv ==
  /\ TypeOK /\ CallShape /\ Exclusive /\ Counts /\ ValidIsOwned
  /\ Bound /\ Checked /\ MayInvalidate /\ UsesOwned /\ BoundIsUser /\ FailsDeservedly

------------------------------------------------------------------------------
(* Sets that differ in one element. *)

LEMMA Recount ==
  ASSUME NEW A, NEW B, NEW a, IsFiniteSet(A), A \ {a} = B \ {a}
  PROVE  /\ Cardinality(A) \in Nat
         /\ Cardinality(B) = Cardinality(A) + (IF a \in B THEN 1 ELSE 0) - (IF a \in A THEN 1 ELSE 0)
<1> DEFINE C == A \ {a}
<1>1. IsFiniteSet(C) /\ a \notin C /\ Cardinality(A) \in Nat /\ Cardinality(C) \in Nat
  BY FS_Difference, FS_CardinalityType
<1>2. Cardinality(C \cup {a}) = Cardinality(C) + 1
  BY <1>1, FS_AddElement
<1>3. A = IF a \in A THEN C \cup {a} ELSE C
  OBVIOUS
<1>4. B = IF a \in B THEN C \cup {a} ELSE C
  OBVIOUS
<1> HIDE DEF C
<1>5. Cardinality(A) = Cardinality(C) + (IF a \in A THEN 1 ELSE 0)
  BY <1>1, <1>2, <1>3
<1>6. Cardinality(B) = Cardinality(C) + (IF a \in B THEN 1 ELSE 0)
  BY <1>1, <1>2, <1>4
<1> QED
  BY <1>1, <1>5, <1>6

Holding(w, f) == {p \in Pointers : w[p].flag = f}
Dropping(c, f) == {t \in Threads : c[t].pc = "release" /\ c[t].old = f}

\* All but one are as before.
ButPointer(a, w, v) == \A p \in Pointers \ {a} : v[p].flag = w[p].flag
ButThread(a, c, d) == \A t \in Threads \ {a} : d[t].pc = c[t].pc /\ d[t].old = c[t].old

LEMMA HowMany ==
  ASSUME NEW w, NEW c, NEW f
  PROVE  /\ Cardinality(Holding(w, f)) \in Nat /\ Cardinality(Dropping(c, f)) \in Nat
         /\ (\A p \in Pointers : w[p].flag # f) <=> Cardinality(Holding(w, f)) = 0
         /\ (\A t \in Threads : c[t].pc = "release" => c[t].old # f) <=> Cardinality(Dropping(c, f)) = 0
<1>1. IsFiniteSet(Holding(w, f)) /\ IsFiniteSet(Dropping(c, f))
  BY FS_Subset, WeakPtrAssumption DEF Holding, Dropping
<1>2. /\ (\A p \in Pointers : w[p].flag # f) <=> Holding(w, f) = {}
      /\ (\A t \in Threads : c[t].pc = "release" => c[t].old # f) <=> Dropping(c, f) = {}
  BY DEF Holding, Dropping
<1> QED
  BY <1>1, <1>2, FS_CardinalityType, FS_EmptySet

\* One pointer gets another flag.
LEMMA OnePointer ==
  ASSUME NEW w, NEW v, NEW a \in Pointers, NEW f, ButPointer(a, w, v)
  PROVE  Cardinality(Holding(v, f)) = Cardinality(Holding(w, f))
           + (IF v[a].flag = f THEN 1 ELSE 0) - (IF w[a].flag = f THEN 1 ELSE 0)
<1>1. IsFiniteSet(Holding(w, f))
  BY FS_Subset, WeakPtrAssumption DEF Holding
<1>2. Holding(w, f) \ {a} = Holding(v, f) \ {a}
  BY DEF Holding, ButPointer
<1>3. (a \in Holding(w, f) <=> w[a].flag = f) /\ (a \in Holding(v, f) <=> v[a].flag = f)
  BY DEF Holding
<1> QED
  BY <1>1, <1>2, <1>3, Recount

\* One thread starts or ends a release.
LEMMA OneCall ==
  ASSUME NEW c, NEW d, NEW a \in Threads, NEW f, ButThread(a, c, d)
  PROVE  Cardinality(Dropping(d, f)) = Cardinality(Dropping(c, f))
           + (IF d[a].pc = "release" /\ d[a].old = f THEN 1 ELSE 0)
           - (IF c[a].pc = "release" /\ c[a].old = f THEN 1 ELSE 0)
<1>1. IsFiniteSet(Dropping(c, f))
  BY FS_Subset, WeakPtrAssumption DEF Dropping
<1>2. Dropping(c, f) \ {a} = Dropping(d, f) \ {a}
  BY DEF Dropping, ButThread
<1>3. /\ a \in Dropping(c, f) <=> c[a].pc = "release" /\ c[a].old = f
      /\ a \in Dropping(d, f) <=> d[a].pc = "release" /\ d[a].old = f
  BY DEF Dropping
<1> QED
  BY <1>1, <1>2, <1>3, Recount

\* The count of a flag: what CountsReferences says, in these words.
Refs(c, w, o, f) ==
  Cardinality(Holding(w, f)) + Cardinality(Dropping(c, f)) + IF o = f THEN 1 ELSE 0

LEMMA CountsMeans ==
  /\ Counts <=> \A f \in Flags : count[f] = Refs(call, weak, owner, f)
  /\ Counts' <=> \A f \in Flags : count'[f] = Refs(call', weak', owner', f)
<1>1. \A f : /\ References(f).pointers = Holding(weak, f)
             /\ References(f).releasing = Dropping(call, f)
  BY DEF References, Holding, Dropping
<1>2. \A f : /\ References(f).pointers' = Holding(weak', f)
             /\ References(f).releasing' = Dropping(call', f)
  BY DEF References, Holding, Dropping
<1>3. Counts <=> \A f \in Flags : count[f] = Refs(call, weak, owner, f)
  BY <1>1 DEF Counts, Refs
<1>4. Counts' <=> \A f \in Flags : count'[f] = Refs(call', weak', owner', f)
  BY <1>2 DEF Counts, Refs
<1> QED
  BY <1>3, <1>4

\* Whatever refers to a flag is counted.
LEMMA Referred ==
  ASSUME TypeOK, Counts, NEW f \in Flags
  PROVE  /\ count[f] \in Nat
         /\ \A p \in Pointers : weak[p].flag = f => count[f] >= 1 + IF owner = f THEN 1 ELSE 0
         /\ \A t \in Threads : call[t].pc = "release" /\ call[t].old = f =>
              count[f] >= 1 + IF owner = f THEN 1 ELSE 0
         /\ owner = f => count[f] >= 1
<1>1. count[f] \in Nat
  BY DEF TypeOK
<1>2. count[f] = Refs(call, weak, owner, f)
  BY CountsMeans
<1> QED
  BY <1>1, <1>2, HowMany DEF Refs

------------------------------------------------------------------------------
(* The invariant. *)

LEMMA InitIInv == Init => IInv
<1> SUFFICES ASSUME Init PROVE IInv
  OBVIOUS
<1> USE DEF Init, Nowhere, Place, Running
<1>1. TypeOK
  BY DEF TypeOK
<1>2. CallShape
  BY DEF CallShape, CheckingPCs, FactoryPCs
<1>3. Exclusive
  BY DEF Exclusive, OnFactory
<1>4. Counts
  BY CountsMeans, HowMany, WeakPtrAssumption DEF Refs
<1>5. ValidIsOwned /\ Bound /\ Checked /\ MayInvalidate /\ UsesOwned /\ BoundIsUser /\ FailsDeservedly
  BY WeakPtrAssumption DEF ValidIsOwned, Bound, Checked, MayInvalidate, UsesOwned, BoundIsUser, FailsDeservedly
<1> QED
  BY <1>1, <1>2, <1>3, <1>4, <1>5 DEF IInv

\* A reference to the factory's flag is the second one.
LEMMA Shared ==
  ASSUME TypeOK, Counts, owner \in Flags, count[owner] = 1
  PROVE  /\ \A p \in Pointers : weak[p].flag # owner
         /\ \A t \in Threads : call[t].pc = "release" => call[t].old # owner
BY Referred

LEMMA GetRefKeepsIInv ==
  ASSUME IInv, NEW t \in Threads, NEW p \in Pointers, GetRef(t, p)
  PROVE  IInv'
<1> USE WeakPtrAssumption DEF IInv, Nowhere, Place
<1>1. /\ call' = [call EXCEPT ![t] = Place("issue", p, nullptr, FALSE)]
      /\ call[t] = Nowhere /\ Running
      /\ \A u \in Threads : call[u].ptr # p
      /\ \A u \in Threads : call[u].pc # "issue" /\ (call[u].pc = "idle" \/ call[u].ptr # nullptr)
      /\ UNCHANGED <<alive, weak, panicked>> /\ alive
  BY DEF GetRef, Idle, FreeFactory, FreePointer, OnFactory, CallShape
<1>2. \A f : Refs(call', weak', owner', f) = Refs(call, weak, owner', f)
  <2> TAKE f
  <2>1. ButThread(t, call, call')
    BY <1>1 DEF TypeOK, ButThread
  <2>2. call'[t].pc # "release" /\ call[t].pc # "release"
    BY <1>1 DEF TypeOK, Nowhere, Place
  <2>3. Cardinality(Dropping(call', f)) = Cardinality(Dropping(call, f))
          + (IF call'[t].pc = "release" /\ call'[t].old = f THEN 1 ELSE 0)
          - (IF call[t].pc = "release" /\ call[t].old = f THEN 1 ELSE 0)
    BY <2>1, OneCall
  <2>4. Cardinality(Dropping(call, f)) \in Nat
    BY HowMany
  <2> QED
    BY <1>1, <2>2, <2>3, <2>4 DEF Refs
<1>3. CASE hasRefs
  <2>1. UNCHANGED <<owner, count, valid, bound, users>>
    BY <1>3 DEF GetRef
  <2>2. owner \in Flags /\ count[owner] > 1
    BY <1>3, Referred DEF hasRefs, TypeOK
  <2>3. TypeOK'
    BY <1>1, <2>1 DEF TypeOK
  <2>4. CallShape' /\ Exclusive'
    BY <1>1, <2>1, <2>2 DEF TypeOK, CallShape, CheckingPCs, FactoryPCs, Nowhere, Running, Exclusive, OnFactory
  <2>5. Counts' /\ ValidIsOwned'
    BY <1>2, <2>1, CountsMeans DEF ValidIsOwned
  <2>6. Bound' /\ Checked' /\ MayInvalidate' /\ UsesOwned'
    BY <1>1, <2>1 DEF TypeOK, Bound, Checked, MayInvalidate, UsesOwned, Flag
  <2>7. BoundIsUser'
    BY <1>1, <2>1, <2>2 DEF TypeOK, BoundIsUser, InUse
  <2>8. FailsDeservedly'
    BY <1>1 DEF FailsDeservedly, Running
  <2> QED
    BY <2>3, <2>4, <2>5, <2>6, <2>7, <2>8
<1>4. CASE ~hasRefs
  <2>1. PICK f \in Flags :
          /\ count[f] = 0 /\ owner' = f
          /\ count' = [g \in Flags |-> IF g = f THEN 1 ELSE IF g = owner THEN 0 ELSE count[g]]
          /\ valid' = [valid EXCEPT ![f] = TRUE]
          /\ bound' = [bound EXCEPT ![f] = nullptr]
          /\ users' = [users EXCEPT ![f] = {}]
    BY <1>4 DEF GetRef
  <2>2. owner \in Flags => count[owner] = 1
    BY <1>4 DEF hasRefs, TypeOK
  <2>3. /\ \A g \in {f, owner} : \A r \in Pointers : weak[r].flag # g \/ g \notin Flags
        /\ \A g \in {f, owner} : \A u \in Threads : call[u].pc = "release" => call[u].old # g \/ g \notin Flags
        /\ f # owner
    BY <2>1, <2>2, Referred, Shared
  <2>4. \A u \in Threads : call[u].ptr # nullptr => Flag(u)' = Flag(u)
    BY <1>1 DEF TypeOK, Flag
  <2>5. TypeOK'
    BY <1>1, <2>1 DEF TypeOK
  <2>6. CallShape' /\ Exclusive'
    BY <1>1, <2>1 DEF TypeOK, CallShape, CheckingPCs, FactoryPCs, Nowhere, Running, Exclusive, OnFactory
  <2>7. Counts'
    <3> SUFFICES ASSUME NEW g \in Flags
                 PROVE  count'[g] = Refs(call, weak, owner', g)
      BY <1>2, CountsMeans
    <3>1. CASE g \in {f, owner}
      BY <2>1, <2>3, <3>1, HowMany DEF Refs
    <3>2. CASE g \notin {f, owner}
      BY <2>1, <3>2, CountsMeans DEF Refs
    <3> QED
      BY <3>1, <3>2
  <2>8. ValidIsOwned'
    BY <2>1 DEF ValidIsOwned, TypeOK
  <2>9. \A u \in Threads : call[u].pc \in {"ensure", "compare", "read", "using"} =>
          /\ call'[u] = call[u] /\ call[u].ptr # nullptr
          /\ Flag(u)' = Flag(u) /\ Flag(u) \in Flags \ {f, owner} /\ bound'[Flag(u)] = bound[Flag(u)]
    BY <1>1, <2>1, <2>3, <2>4 DEF TypeOK, Flag, CallShape, CheckingPCs
  <2>10. \A u \in Threads : call'[u].pc \notin {"alone", "invalidate"}
    BY <1>1 DEF TypeOK, CallShape
  <2>11. Bound' /\ Checked' /\ MayInvalidate' /\ UsesOwned'
    BY <1>1, <2>9, <2>10 DEF TypeOK, Bound, Checked, MayInvalidate, UsesOwned, Flag
  <2>12. BoundIsUser'
    BY <1>1, <2>1, <2>3 DEF TypeOK, BoundIsUser, InUse
  <2>13. FailsDeservedly'
    BY <1>1 DEF FailsDeservedly, Running
  <2> QED
    BY <2>5, <2>6, <2>7, <2>8, <2>11, <2>12, <2>13
<1> QED
  BY <1>3, <1>4

\* p is given the flag f, which the next step of the thread releases the old one
\* of: the references to every flag are as many as its count says.
LEMMA Replaces ==
  ASSUME IInv, NEW t \in Threads, NEW p \in Pointers, NEW f,
         ButPointer(p, weak, weak'), weak'[p].flag = f,
         Releasing(t, p, weak[p].flag),
         call[t].pc # "release", owner' = owner, count' = Counted(f)
  PROVE  Counts'
<1> SUFFICES ASSUME NEW g \in Flags
             PROVE  count'[g] = Refs(call', weak', owner', g)
  BY CountsMeans
<1>1. Cardinality(Holding(weak', g)) = Cardinality(Holding(weak, g))
        + (IF f = g THEN 1 ELSE 0) - (IF weak[p].flag = g THEN 1 ELSE 0)
  BY OnePointer
<1>2. Cardinality(Dropping(call', g)) = Cardinality(Dropping(call, g))
        + (IF weak[p].flag = g THEN 1 ELSE 0)
  <2>1. ButThread(t, call, call')
    BY DEF IInv, TypeOK, Releasing, ButThread
  <2>2. call'[t].pc = "release" /\ call'[t].old = weak[p].flag
    BY DEF IInv, TypeOK, Releasing, Place
  <2>3. Cardinality(Dropping(call', g)) = Cardinality(Dropping(call, g))
          + (IF call'[t].pc = "release" /\ call'[t].old = g THEN 1 ELSE 0)
          - (IF call[t].pc = "release" /\ call[t].old = g THEN 1 ELSE 0)
    BY <2>1, OneCall
  <2>4. Cardinality(Dropping(call, g)) \in Nat
    BY HowMany
  <2> QED
    BY <2>2, <2>3, <2>4
<1>3. count'[g] = count[g] + (IF f = g THEN 1 ELSE 0)
  BY DEF IInv, TypeOK, Counted
<1>4. count[g] = Refs(call, weak, owner, g)
  BY CountsMeans DEF IInv
<1> QED
  BY <1>1, <1>2, <1>3, <1>4, HowMany DEF Refs

LEMMA IssueKeepsIInv ==
  ASSUME IInv, NEW t \in Threads, Issue(t)
  PROVE  IInv'
<1> DEFINE p == call[t].ptr
<1> USE WeakPtrAssumption DEF IInv
<1>1. /\ Running /\ call[t].pc = "issue" /\ p \in Pointers /\ owner \in Flags /\ valid[owner] /\ alive
      /\ \A u \in Threads \ {t} : call[u].ptr # p /\ ~OnFactory(u)
  BY DEF Issue, At, CallShape, TypeOK, Exclusive, OnFactory, ValidIsOwned
<1>2. /\ weak' = [weak EXCEPT ![p] = [flag |-> owner, set |-> TRUE]]
      /\ call' = [call EXCEPT ![t] = Place("release", p, weak[p].flag, FALSE)]
      /\ count' = [count EXCEPT ![owner] = @ + 1]
      /\ UNCHANGED <<alive, owner, valid, bound, panicked, users>>
  BY <1>1 DEF Issue, Releasing, Counted
<1>3. \A u \in Threads \ {t} : call'[u] = call[u] /\ (call[u].ptr # nullptr => Flag(u)' = Flag(u))
  BY <1>1, <1>2 DEF TypeOK, Flag
<1> HIDE DEF p
<1>4. TypeOK'
  BY <1>1, <1>2 DEF TypeOK, Place
<1>5. CallShape' /\ Exclusive'
  BY <1>1, <1>2, <1>3 DEF TypeOK, CallShape, CheckingPCs, FactoryPCs, Running, Exclusive, OnFactory, Place
<1>6. Counts'
  <2>1. ButPointer(p, weak, weak') /\ weak'[p].flag = owner
    BY <1>1, <1>2 DEF TypeOK, ButPointer
  <2> QED
    BY <1>1, <1>2, <2>1, Replaces DEF Releasing, Counted
<1>7. ValidIsOwned'
  BY <1>1, <1>2 DEF TypeOK, ValidIsOwned
<1>8. Bound' /\ Checked' /\ MayInvalidate' /\ UsesOwned'
  BY <1>1, <1>2, <1>3 DEF TypeOK, Bound, Checked, MayInvalidate, UsesOwned, Flag, OnFactory, CallShape, Place
<1>9. BoundIsUser'
  BY <1>1, <1>2 DEF TypeOK, BoundIsUser, InUse, Place
<1>10. FailsDeservedly'
  BY <1>1, <1>2 DEF FailsDeservedly, Running
<1> QED
  BY <1>4, <1>5, <1>6, <1>7, <1>8, <1>9, <1>10

\* What Copy, Move and Reset have in common: an idle thread changes pointers that
\* nobody uses.
LEMMA IdleStep ==
  ASSUME IInv, NEW t \in Threads, NEW p \in Pointers, Idle(t), FreePointer(p),
         Releasing(t, p, weak[p].flag), TypeOK',
         UNCHANGED <<alive, owner, valid, bound, panicked, users>>,
         \A u \in Threads \ {t} : call[u].ptr # nullptr => weak'[call[u].ptr] = weak[call[u].ptr]
  PROVE  /\ CallShape' /\ Exclusive' /\ Bound' /\ Checked' /\ UsesOwned' /\ FailsDeservedly'
<1> USE WeakPtrAssumption DEF IInv
<1>1. /\ call' = [call EXCEPT ![t] = Place("release", p, weak[p].flag, FALSE)]
      /\ call[t] = Nowhere /\ Running
      /\ \A u \in Threads : call[u].ptr # p
  BY DEF Releasing, Idle, FreePointer, CallShape
<1>2. \A u \in Threads \ {t} : call'[u] = call[u] /\ Flag(u)' = Flag(u)
  BY <1>1 DEF TypeOK, Flag
<1>3. \A u \in Threads \ {t} : OnFactory(u)' = OnFactory(u)
  BY <1>2 DEF OnFactory
<1>4. ~OnFactory(t)'
  BY <1>1 DEF TypeOK, OnFactory, Place
<1>5. CallShape'
  BY <1>1, <1>2 DEF TypeOK, CallShape, CheckingPCs, FactoryPCs, Running, Place
<1>6. Exclusive'
  <2>1. call'[t].ptr = p /\ \A u \in Threads \ {t} : call'[u].ptr = call[u].ptr
    BY <1>1, <1>2 DEF TypeOK, Place
  <2>2. \A u, v \in Threads : u # v /\ call'[u].ptr # nullptr => call'[u].ptr # call'[v].ptr
    <3> SUFFICES ASSUME NEW u \in Threads, NEW v \in Threads,
                        u # v, call'[u].ptr # nullptr, call'[u].ptr = call'[v].ptr
                 PROVE  FALSE
      OBVIOUS
    <3>1. u # t /\ v # t
      BY <1>1, <2>1
    <3> QED
      BY <2>1, <3>1 DEF Exclusive
  <2>3. \A u \in Threads : OnFactory(u)' => OnFactory(u)
    BY <1>3, <1>4
  <2> QED
    BY <2>2, <2>3 DEF Exclusive
<1>7. Bound' /\ Checked' /\ UsesOwned'
  BY <1>1, <1>2 DEF TypeOK, Bound, Checked, UsesOwned, Place
<1>8. FailsDeservedly'
  BY <1>1 DEF FailsDeservedly, Running
<1> QED
  BY <1>5, <1>6, <1>7, <1>8

LEMMA CopyKeepsIInv ==
  ASSUME IInv, NEW t \in Threads, NEW p \in Pointers, NEW q \in Pointers, Copy(t, p, q)
  PROVE  IInv'
<1> USE WeakPtrAssumption DEF IInv
<1>1. /\ Idle(t) /\ p # q /\ FreePointer(p) /\ FreePointer(q)
      /\ weak' = [weak EXCEPT ![p] = weak[q]]
      /\ Releasing(t, p, weak[p].flag)
      /\ count' = Counted(weak[q].flag)
      /\ UNCHANGED <<alive, owner, valid, bound, panicked, users>>
  BY DEF Copy
<1>2. TypeOK'
  BY <1>1 DEF TypeOK, Releasing, Place, Counted
<1>3. \A u \in Threads : call[u].ptr # nullptr => weak'[call[u].ptr] = weak[call[u].ptr]
  BY <1>1 DEF TypeOK, FreePointer
<1>4. CallShape' /\ Exclusive' /\ Bound' /\ Checked' /\ UsesOwned' /\ FailsDeservedly'
  BY <1>1, <1>2, <1>3, IdleStep
<1>5. ButPointer(p, weak, weak') /\ weak'[p].flag = weak[q].flag
  BY <1>1 DEF TypeOK, ButPointer
<1>6. Counts'
  BY <1>1, <1>5, Replaces DEF Idle
<1>7. ValidIsOwned'
  <2>1. weak[q].flag \in Flags => count[weak[q].flag] > 0
    BY Referred DEF TypeOK
  <2> QED
    BY <1>1, <2>1 DEF TypeOK, ValidIsOwned, Counted
<1>8. MayInvalidate'
  <2> SUFFICES ASSUME Asserts, NEW u \in Threads, call'[u].pc = "invalidate"
               PROVE  bound[owner] = u \/ count'[owner] = 1
    BY <1>1 DEF MayInvalidate
  <2>1. call[u] = call'[u] /\ owner \in Flags
    BY <1>1 DEF TypeOK, Releasing, Place, CallShape, FactoryPCs
  <2>2. bound[owner] = u \/ count[owner] = 1
    BY <2>1 DEF MayInvalidate
  <2>3. count[owner] = 1 => weak[q].flag # owner
    BY <2>1, Shared
  <2> QED
    BY <1>1, <2>1, <2>2, <2>3 DEF Counted, TypeOK
<1>9. BoundIsUser'
  <2>1. \A f \in Flags : InUse(f)' => InUse(f)
    BY <1>1 DEF InUse, TypeOK, Counted, Releasing, Place
  <2> QED
    BY <1>1, <2>1 DEF BoundIsUser
<1> QED
  BY <1>2, <1>4, <1>6, <1>7, <1>8, <1>9

LEMMA ResetKeepsIInv ==
  ASSUME IInv, NEW t \in Threads, NEW p \in Pointers, Reset(t, p)
  PROVE  IInv'
<1> USE WeakPtrAssumption DEF IInv
<1>1. /\ Idle(t) /\ FreePointer(p)
      /\ weak' = [weak EXCEPT ![p] = [flag |-> nullptr, set |-> FALSE]]
      /\ Releasing(t, p, weak[p].flag)
      /\ UNCHANGED <<alive, owner, count, valid, bound, panicked, users>>
  BY DEF Reset
<1>2. TypeOK'
  BY <1>1 DEF TypeOK, Releasing, Place
<1>3. \A u \in Threads : call[u].ptr # nullptr => weak'[call[u].ptr] = weak[call[u].ptr]
  BY <1>1 DEF TypeOK, FreePointer
<1>4. CallShape' /\ Exclusive' /\ Bound' /\ Checked' /\ UsesOwned' /\ FailsDeservedly'
  BY <1>1, <1>2, <1>3, IdleStep
<1>5. ButPointer(p, weak, weak') /\ weak'[p].flag = nullptr
  BY <1>1 DEF TypeOK, ButPointer
<1>6. Counts'
  BY <1>1, <1>5, Replaces DEF Idle, Counted
<1>7. ValidIsOwned'
  BY <1>1 DEF ValidIsOwned
<1>8. MayInvalidate'
  BY <1>1 DEF MayInvalidate, TypeOK, Releasing, Place
<1>9. BoundIsUser'
  <2>1. \A f \in Flags : InUse(f)' => InUse(f)
    BY <1>1 DEF InUse, TypeOK, Releasing, Place
  <2> QED
    BY <1>1, <2>1 DEF BoundIsUser
<1> QED
  BY <1>2, <1>4, <1>6, <1>7, <1>8, <1>9

LEMMA MoveKeepsIInv ==
  ASSUME IInv, NEW t \in Threads, NEW p \in Pointers, NEW q \in Pointers, Move(t, p, q)
  PROVE  IInv'
<1> USE WeakPtrAssumption DEF IInv
<1>1. /\ Idle(t) /\ p # q /\ FreePointer(p) /\ FreePointer(q)
      /\ weak' = [weak EXCEPT ![p] = weak[q], ![q].flag = Null]
      /\ Releasing(t, p, weak[p].flag)
      /\ UNCHANGED <<alive, owner, count, valid, bound, panicked, users>>
  BY DEF Move
<1>2. TypeOK'
  <2>1. weak' \in [Pointers -> [flag : Flags \cup {Null, nullptr}, set : BOOLEAN]]
    BY <1>1 DEF TypeOK
  <2> QED
    BY <1>1, <2>1 DEF TypeOK, Releasing, Place
<1>3. \A u \in Threads : call[u].ptr # nullptr => weak'[call[u].ptr] = weak[call[u].ptr]
  BY <1>1 DEF TypeOK, FreePointer
<1>4. CallShape' /\ Exclusive' /\ Bound' /\ Checked' /\ UsesOwned' /\ FailsDeservedly'
  BY <1>1, <1>2, <1>3, IdleStep
<1>5. Counts'
  <2> SUFFICES ASSUME NEW g \in Flags
               PROVE  count[g] = Refs(call', weak', owner, g)
    BY <1>1, CountsMeans
  <2> DEFINE between == [weak EXCEPT ![p] = weak[q]]
  <2>1. ButPointer(p, weak, between) /\ between[p].flag = weak[q].flag /\ between[q].flag = weak[q].flag
    BY <1>1 DEF TypeOK, ButPointer
  <2>2. ButPointer(q, between, weak') /\ weak'[q].flag = Null
    BY <1>1 DEF TypeOK, ButPointer
  <2> HIDE DEF between
  <2>3. Cardinality(Holding(between, g)) = Cardinality(Holding(weak, g))
          + (IF between[p].flag = g THEN 1 ELSE 0) - (IF weak[p].flag = g THEN 1 ELSE 0)
    BY <2>1, OnePointer
  <2>4. Cardinality(Holding(weak', g)) = Cardinality(Holding(between, g))
          + (IF weak'[q].flag = g THEN 1 ELSE 0) - (IF between[q].flag = g THEN 1 ELSE 0)
    BY <2>2, OnePointer
  <2>5. ButThread(t, call, call') /\ call[t].pc # "release"
        /\ call'[t].pc = "release" /\ call'[t].old = weak[p].flag
    BY <1>1 DEF TypeOK, Releasing, Place, ButThread, Idle
  <2>6. Cardinality(Dropping(call', g)) = Cardinality(Dropping(call, g))
          + (IF call'[t].pc = "release" /\ call'[t].old = g THEN 1 ELSE 0)
          - (IF call[t].pc = "release" /\ call[t].old = g THEN 1 ELSE 0)
    BY <2>5, OneCall
  <2>7. count[g] = Refs(call, weak, owner, g)
    BY CountsMeans
  <2>8. Cardinality(Holding(weak, g)) \in Nat /\ Cardinality(Dropping(call, g)) \in Nat
    BY HowMany
  <2>9. g # Null
    OBVIOUS
  <2> QED
    BY <2>1, <2>2, <2>3, <2>4, <2>5, <2>6, <2>7, <2>8, <2>9 DEF Refs
<1>6. ValidIsOwned'
  BY <1>1 DEF ValidIsOwned
<1>7. MayInvalidate'
  BY <1>1 DEF MayInvalidate, TypeOK, Releasing, Place
<1>8. BoundIsUser'
  <2>1. \A r \in Pointers : weak'[r].flag = Null \/ \E s \in Pointers : weak'[r].flag = weak[s].flag
    BY <1>1 DEF TypeOK
  <2>2. \A u \in Threads : call'[u].pc = "issue" => call[u].pc = "issue"
    BY <1>1 DEF TypeOK, Releasing, Place
  <2>3. \A f \in Flags : InUse(f)' => InUse(f)
    <3> SUFFICES ASSUME NEW f \in Flags, InUse(f)' PROVE InUse(f)
      OBVIOUS
    <3>1. CASE \E r \in Pointers : weak'[r].flag = f
      BY <2>1, <3>1 DEF InUse
    <3>2. CASE f = owner /\ (count[f] > 1 \/ \E u \in Threads : call'[u].pc = "issue")
      BY <2>2, <3>2 DEF InUse
    <3> QED
      BY <1>1, <3>1, <3>2 DEF InUse
  <2> QED
    BY <1>1, <2>3 DEF BoundIsUser
<1> QED
  BY <1>2, <1>4, <1>5, <1>6, <1>7, <1>8

\* The fields of a call that has moved on.
LEMMA Moved ==
  ASSUME TypeOK, NEW t \in Threads, NEW pc, Goto(t, pc)
  PROVE  /\ call'[t].pc = pc /\ call'[t].ptr = call[t].ptr
         /\ call'[t].old = call[t].old /\ call'[t].destroys = call[t].destroys
         /\ \A u \in Threads \ {t} : call'[u] = call[u]
BY DEF TypeOK, Goto

\* A step of t that changes nothing but where t is, and does not begin or end a
\* release.
LEMMA GotoStep ==
  ASSUME IInv, NEW t \in Threads, NEW pc, Goto(t, pc), Running,
         call[t].pc \notin {"idle", "issue", "release"},
         UNCHANGED <<alive, owner, weak, count, valid, bound, users>>,
         panicked' \in {"no", "null", "thread"},
         \/ pc = "failed" /\ panicked' # "no"
         \/ pc \in {"read", "using"} /\ call[t].pc \in CheckingPCs /\ call[t].ptr # nullptr
         \/ pc \in {"alone", "invalidate"} /\ call[t].pc \in FactoryPCs /\ call[t].ptr = nullptr
  PROVE  /\ TypeOK' /\ CallShape' /\ Exclusive' /\ Counts' /\ ValidIsOwned' /\ BoundIsUser'
         /\ Flag(t)' = Flag(t)
         /\ \A u \in Threads \ {t} : call'[u] = call[u] /\ Flag(u)' = Flag(u)
<1> USE WeakPtrAssumption DEF IInv
<1>1. TypeOK'
  <2>1. pc \in {"read", "using", "alone", "invalidate", "failed"}
    OBVIOUS
  <2> QED
    BY <2>1, SMTT(20) DEF TypeOK, Goto
<1>2. /\ call'[t].pc = pc /\ call'[t].ptr = call[t].ptr /\ call'[t].destroys = call[t].destroys
      /\ \A u \in Threads \ {t} : call'[u] = call[u]
  BY Moved
<1>3. \A u \in Threads : Flag(u)' = Flag(u)
  BY <1>2 DEF Flag
<1>4. CallShape'
  <2>1. CASE pc = "failed"
    BY <1>2, <2>1 DEF CallShape, CheckingPCs, FactoryPCs, Running
  <2>2. CASE pc \in {"read", "using"} /\ call[t].pc \in CheckingPCs /\ call[t].ptr # nullptr
    BY <1>2, <2>2 DEF CallShape, CheckingPCs, FactoryPCs, Running
  <2>3. CASE pc \in {"alone", "invalidate"} /\ call[t].pc \in FactoryPCs /\ call[t].ptr = nullptr
    BY <1>2, <2>3 DEF CallShape, CheckingPCs, FactoryPCs, Running
  <2> QED
    BY <2>1, <2>2, <2>3
<1>5. Exclusive'
  <2>1. \A u \in Threads : call'[u].ptr = call[u].ptr
    BY <1>2
  <2>2. \A u \in Threads : OnFactory(u)' => OnFactory(u)
    BY <1>2, <2>1 DEF OnFactory
  <2> QED
    BY <2>1, <2>2 DEF Exclusive
<1>6. Counts'
  <2> SUFFICES ASSUME NEW f \in Flags
               PROVE  Refs(call', weak', owner', f) = Refs(call, weak, owner, f)
    BY CountsMeans
  <2>1. Dropping(call', f) = Dropping(call, f)
    BY <1>2 DEF Dropping
  <2> QED
    BY <2>1 DEF Refs
<1>7. ValidIsOwned'
  BY DEF ValidIsOwned
<1>8. BoundIsUser'
  <2>1. \A f \in Flags : InUse(f)' => InUse(f)
    BY <1>2 DEF InUse
  <2> QED
    BY <2>1 DEF BoundIsUser
<1> QED
  BY <1>1, <1>2, <1>3, <1>4, <1>5, <1>6, <1>7, <1>8

LEMMA CompareKeepsIInv ==
  ASSUME IInv, NEW t \in Threads, Compare(t)
  PROVE  IInv'
<1> USE WeakPtrAssumption DEF IInv
<1>1. /\ Running /\ panicked = "no" /\ call[t].pc = "compare"
      /\ Flag(t) \in Flags /\ bound[Flag(t)] # nullptr
      /\ UNCHANGED <<alive, owner, weak, count, valid, bound, users>>
  BY DEF Compare, At, Running, Flag, CallShape, CheckingPCs, FactoryPCs, Bound
<1> DEFINE unchanged == UNCHANGED <<alive, owner, weak, count, valid, bound, users>>
<1>2. CASE bound[Flag(t)] = t
  <2>1. PICK pc : Goto(t, pc) /\ pc = IF call[t].ptr = nullptr THEN "invalidate" ELSE "read"
    BY <1>2 DEF Compare
  <2>2. panicked' = "no"
    BY <1>1, <1>2 DEF Compare
  <2>3. /\ TypeOK' /\ CallShape' /\ Exclusive' /\ Counts' /\ ValidIsOwned' /\ BoundIsUser'
        /\ Flag(t)' = Flag(t)
        /\ \A u \in Threads \ {t} : call'[u] = call[u] /\ Flag(u)' = Flag(u)
    BY <1>1, <2>1, <2>2, GotoStep DEF CheckingPCs, FactoryPCs
  <2>4. call'[t].pc = pc
    BY <2>1, Moved
  <2>5. Bound' /\ Checked' /\ MayInvalidate' /\ UsesOwned'
    BY <1>1, <1>2, <2>1, <2>3, <2>4 DEF Bound, Checked, MayInvalidate, UsesOwned, Flag
  <2>6. FailsDeservedly'
    BY <2>2 DEF FailsDeservedly
  <2> QED
    BY <2>3, <2>5, <2>6
<1>3. CASE bound[Flag(t)] # t /\ call[t].ptr = nullptr
  <2>1. Goto(t, "alone") /\ panicked' = "no"
    BY <1>1, <1>3 DEF Compare
  <2>2. /\ TypeOK' /\ CallShape' /\ Exclusive' /\ Counts' /\ ValidIsOwned' /\ BoundIsUser'
        /\ \A u \in Threads \ {t} : call'[u] = call[u] /\ Flag(u)' = Flag(u)
    BY <1>1, <1>3, <2>1, GotoStep DEF FactoryPCs
  <2>3. call'[t].pc = "alone"
    BY <2>1, Moved
  <2>4. Bound' /\ Checked' /\ MayInvalidate' /\ UsesOwned'
    BY <1>1, <1>3, <2>2, <2>3 DEF Bound, Checked, MayInvalidate, UsesOwned, Flag
  <2>5. FailsDeservedly'
    BY <2>1 DEF FailsDeservedly
  <2> QED
    BY <2>2, <2>4, <2>5
<1>4. CASE bound[Flag(t)] # t /\ call[t].ptr # nullptr
  <2>1. Goto(t, "failed") /\ panicked' = "thread"
    BY <1>1, <1>4 DEF Compare
  <2>2. /\ TypeOK' /\ CallShape' /\ Exclusive' /\ Counts' /\ ValidIsOwned' /\ BoundIsUser'
        /\ Flag(t)' = Flag(t)
        /\ \A u \in Threads \ {t} : call'[u] = call[u] /\ Flag(u)' = Flag(u)
    BY <1>1, <2>1, GotoStep
  <2>3. call'[t].pc = "failed"
    BY <2>1, Moved
  <2>4. Bound' /\ Checked' /\ MayInvalidate' /\ UsesOwned'
    BY <1>1, <2>2, <2>3 DEF Bound, Checked, MayInvalidate, UsesOwned
  <2>5. bound[Flag(t)] \in users[Flag(t)]
    BY <1>1, <1>4 DEF BoundIsUser, InUse, Flag, TypeOK
  <2>6. FailsDeservedly'
    BY <1>1, <1>4, <2>2, <2>3, <2>5 DEF FailsDeservedly
  <2> QED
    BY <2>2, <2>4, <2>6
<1> QED
  BY <1>2, <1>3, <1>4

LEMMA HasOneRefKeepsIInv ==
  ASSUME IInv, NEW t \in Threads, HasOneRef(t)
  PROVE  IInv'
<1> USE WeakPtrAssumption DEF IInv
<1>1. /\ Running /\ panicked = "no" /\ call[t].pc = "alone" /\ call[t].ptr = nullptr
      /\ owner \in Flags /\ count[owner] >= 1 /\ bound[owner] \notin {nullptr, t} /\ Flag(t) = owner
      /\ UNCHANGED <<alive, owner, weak, count, valid, bound, users>>
  BY Referred DEF HasOneRef, At, Running, Flag, CallShape, FactoryPCs, Bound
<1>2. CASE count[owner] = 1
  <2>1. Goto(t, "invalidate") /\ panicked' = "no"
    BY <1>1, <1>2 DEF HasOneRef
  <2>2. /\ TypeOK' /\ CallShape' /\ Exclusive' /\ Counts' /\ ValidIsOwned' /\ BoundIsUser'
        /\ \A u \in Threads \ {t} : call'[u] = call[u] /\ Flag(u)' = Flag(u)
    BY <1>1, <2>1, GotoStep DEF FactoryPCs
  <2>3. call'[t].pc = "invalidate"
    BY <2>1, Moved
  <2>4. Bound' /\ Checked' /\ MayInvalidate' /\ UsesOwned'
    BY <1>1, <1>2, <2>2, <2>3 DEF Bound, Checked, MayInvalidate, UsesOwned
  <2>5. FailsDeservedly'
    BY <2>1 DEF FailsDeservedly
  <2> QED
    BY <2>2, <2>4, <2>5
<1>3. CASE count[owner] # 1
  <2>1. Goto(t, "failed") /\ panicked' = "thread"
    BY <1>1, <1>3 DEF HasOneRef
  <2>2. /\ TypeOK' /\ CallShape' /\ Exclusive' /\ Counts' /\ ValidIsOwned' /\ BoundIsUser'
        /\ Flag(t)' = Flag(t)
        /\ \A u \in Threads \ {t} : call'[u] = call[u] /\ Flag(u)' = Flag(u)
    BY <1>1, <2>1, GotoStep
  <2>3. call'[t].pc = "failed"
    BY <2>1, Moved
  <2>4. Bound' /\ Checked' /\ MayInvalidate' /\ UsesOwned'
    BY <1>1, <2>2, <2>3 DEF Bound, Checked, MayInvalidate, UsesOwned
  <2>5. bound[owner] \in users[owner]
    <3>1. count[owner] > 1
      BY <1>1, <1>3 DEF TypeOK
    <3> QED
      BY <1>1, <3>1 DEF BoundIsUser, InUse
  <2>6. FailsDeservedly'
    BY <1>1, <2>2, <2>3, <2>5 DEF FailsDeservedly
  <2> QED
    BY <2>2, <2>4, <2>6
<1> QED
  BY <1>2, <1>3

LEMMA EnsureThreadIdAssignedKeepsIInv ==
  ASSUME IInv, NEW t \in Threads, EnsureThreadIdAssigned(t)
  PROVE  IInv'
<1> DEFINE f == Flag(t)
<1> USE WeakPtrAssumption DEF IInv
<1>1. /\ Running /\ call[t].pc = "ensure" /\ f \in Flags
      /\ bound' = IF bound[f] = nullptr THEN [bound EXCEPT ![f] = t] ELSE bound
      /\ users' = [users EXCEPT ![f] = @ \cup {t}]
      /\ Goto(t, "compare")
      /\ UNCHANGED <<alive, owner, weak, count, valid, panicked>>
  BY DEF EnsureThreadIdAssigned, At, Flag, CallShape, CheckingPCs, FactoryPCs
<1> HIDE DEF f
<1>2. TypeOK'
  BY <1>1, SMTT(20) DEF TypeOK, Goto
<1>3. /\ call'[t].pc = "compare" /\ call'[t].ptr = call[t].ptr /\ call'[t].destroys = call[t].destroys
      /\ \A u \in Threads \ {t} : call'[u] = call[u]
  BY <1>1, Moved
<1>4. \A u \in Threads : Flag(u)' = Flag(u)
  BY <1>1, <1>3 DEF Flag
<1>5. CallShape'
  BY <1>1, <1>3 DEF CallShape, CheckingPCs, FactoryPCs, Running
<1>6. Exclusive'
  <2>1. \A u \in Threads : call'[u].ptr = call[u].ptr
    BY <1>3
  <2>2. \A u \in Threads : OnFactory(u)' => OnFactory(u)
    BY <1>1, <1>3, <2>1 DEF OnFactory
  <2> QED
    BY <1>1, <2>1, <2>2 DEF Exclusive
<1>7. Counts'
  <2>1. \A g \in Flags : Dropping(call', g) = Dropping(call, g)
    BY <1>1, <1>3 DEF Dropping
  <2> QED
    BY <1>1, <2>1, CountsMeans DEF Refs
<1>8. ValidIsOwned'
  BY <1>1 DEF ValidIsOwned
<1>9. Bound'
  BY <1>1, <1>3, <1>4 DEF Bound, TypeOK, f
<1>10. Checked' /\ MayInvalidate' /\ UsesOwned'
  BY <1>1, <1>3, <1>4 DEF Checked, MayInvalidate, UsesOwned, TypeOK
<1>11. BoundIsUser'
  <2>1. \A g \in Flags : InUse(g)' => InUse(g)
    BY <1>1, <1>3 DEF InUse
  <2> QED
    BY <1>1, <2>1 DEF BoundIsUser, TypeOK
<1>12. FailsDeservedly'
  BY <1>1 DEF FailsDeservedly, Running
<1> QED
  BY <1>2, <1>5, <1>6, <1>7, <1>8, <1>9, <1>10, <1>11, <1>12

LEMMA StutterKeepsIInv == IInv /\ UNCHANGED vars => IInv'
<1> SUFFICES ASSUME IInv, UNCHANGED vars PROVE IInv'
  OBVIOUS
<1>1. TypeOK' /\ CallShape' /\ Exclusive'
  BY DEF IInv, vars, TypeOK, CallShape, Running, Exclusive, OnFactory
<1>2. Counts' /\ ValidIsOwned'
  BY CountsMeans DEF IInv, vars, ValidIsOwned
<1>3. \A t \in Threads : Flag(t)' = Flag(t)
  BY DEF vars, Flag
<1>4. Bound' /\ Checked' /\ MayInvalidate' /\ UsesOwned' /\ FailsDeservedly'
  BY <1>3 DEF IInv, vars, Bound, Checked, MayInvalidate, UsesOwned, FailsDeservedly
<1>5. BoundIsUser'
  BY DEF IInv, vars, BoundIsUser, InUse
<1> QED
  BY <1>1, <1>2, <1>4, <1>5 DEF IInv

\* A call begins or ends; no reference is made or dropped.
LEMMA CallStep ==
  ASSUME IInv, NEW t \in Threads, NEW pc, NEW p \in Pointers \cup {nullptr}, NEW d \in BOOLEAN,
         Running, call' = [call EXCEPT ![t] = Place(pc, p, nullptr, d)],
         call[t].pc # "release",
         UNCHANGED <<owner, weak, count, valid, bound, panicked, users>>, alive' \in BOOLEAN,
         \/ /\ pc = "idle" /\ p = nullptr /\ d = FALSE
            /\ alive' # alive => OnFactory(t) /\ owner = Null
         \/ /\ pc \in {"ensure", "read"} /\ p # nullptr /\ weak[p].flag \in Flags /\ alive' = alive
            /\ d = FALSE /\ FreePointer(p) /\ (Asserts => pc = "ensure")
         \/ /\ pc \in {"ensure", "invalidate", "destroy"} /\ p = nullptr /\ alive' = alive
            /\ FreeFactory /\ (pc = "destroy" <=> owner = Null)
            /\ Asserts => pc # "invalidate"
  PROVE  IInv'
<1> USE WeakPtrAssumption DEF IInv
<1>1. /\ call'[t] = Place(pc, p, nullptr, d)
      /\ \A u \in Threads \ {t} : call'[u] = call[u] /\ Flag(u)' = Flag(u)
  BY DEF TypeOK, Flag
<1>2. TypeOK'
  <2>1. pc \in {"idle", "ensure", "read", "invalidate", "destroy"}
    OBVIOUS
  <2> QED
    BY <2>1 DEF TypeOK, Place
<1>3. CallShape'
  <2> SUFFICES ASSUME NEW u \in Threads
               PROVE  /\ call'[u].pc = "idle" => call'[u] = Nowhere
                      /\ call'[u].pc \in {"issue", "read", "using"} => call'[u].ptr # nullptr
                      /\ call'[u].pc \in {"alone", "invalidate", "destroy"} => call'[u].ptr = nullptr
                      /\ call'[u].pc \in CheckingPCs /\ call'[u].ptr # nullptr => weak[call'[u].ptr].flag \in Flags
                      /\ call'[u].pc \in FactoryPCs /\ call'[u].ptr = nullptr => owner \in Flags
                      /\ call'[u].pc = "issue" => owner \in Flags
                      /\ call'[u].pc \in {"release", "destroy"} /\ call'[u].ptr = nullptr => owner = Null
                      /\ call'[u].pc = "failed" => ~Running
                      /\ call'[u].destroys => call'[u].ptr = nullptr
    BY DEF CallShape, Running
  <2>1. CASE u # t
    BY <1>1, <2>1 DEF CallShape
  <2>2. CASE u = t
    BY <1>1, <2>2 DEF CheckingPCs, FactoryPCs, Place, Nowhere, TypeOK
  <2> QED
    BY <2>1, <2>2
<1>4. Exclusive'
  <2>1. \A u, v \in Threads : u # v /\ call'[u].ptr # nullptr => call'[u].ptr # call'[v].ptr
    <3>1. \A u \in Threads \ {t} : call'[u].ptr = call[u].ptr /\ (p # nullptr => call[u].ptr # p)
      BY <1>1 DEF FreePointer
    <3>2. call'[t].ptr = p
      BY <1>1 DEF Place
    <3> SUFFICES ASSUME NEW u \in Threads, NEW v \in Threads,
                        u # v, call'[u].ptr # nullptr, call'[u].ptr = call'[v].ptr
                 PROVE  FALSE
      OBVIOUS
    <3>3. u # t /\ v # t
      BY <3>1, <3>2
    <3> QED
      BY <3>1, <3>3 DEF Exclusive
  <2>2. \A u \in Threads \ {t} : OnFactory(u)' = OnFactory(u)
    BY <1>1 DEF OnFactory
  <2>3. OnFactory(t)' => FreeFactory /\ alive' = alive
    BY <1>1 DEF OnFactory, Place
  <2>4. \A u, v \in Threads : OnFactory(u)' /\ OnFactory(v)' => u = v
    BY <2>2, <2>3 DEF Exclusive, FreeFactory
  <2>5. alive' # alive => OnFactory(t) /\ owner = Null
    OBVIOUS
  <2>6. \A u \in Threads : OnFactory(u)' => alive'
    BY <2>2, <2>3, <2>5 DEF Exclusive, FreeFactory, TypeOK
  <2>7. ~alive' => owner = Null
    BY <2>5 DEF Exclusive, TypeOK
  <2> QED
    BY <2>1, <2>4, <2>6, <2>7 DEF Exclusive
<1>5. Counts'
  <2>1. \A f \in Flags : Dropping(call', f) = Dropping(call, f)
    BY <1>1 DEF Dropping, Place
  <2> QED
    BY <2>1, CountsMeans DEF Refs
<1>6. ValidIsOwned'
  BY DEF ValidIsOwned
<1>7. pc \notin {"compare", "alone", "using"} /\ (Asserts => pc \notin {"read", "invalidate"})
  OBVIOUS
<1>8. call'[t].pc = pc
  BY <1>1 DEF Place
<1>9. Bound' /\ Checked' /\ MayInvalidate' /\ UsesOwned'
  BY <1>1, <1>7, <1>8 DEF Bound, Checked, MayInvalidate, UsesOwned
<1>10. BoundIsUser'
  <2>1. \A f \in Flags : InUse(f)' => InUse(f)
    BY <1>1, <1>8 DEF InUse
  <2> QED
    BY <2>1 DEF BoundIsUser
<1>11. FailsDeservedly'
  BY DEF FailsDeservedly, Running
<1> QED
  BY <1>2, <1>3, <1>4, <1>5, <1>6, <1>9, <1>10, <1>11

LEMMA LeaveKeepsIInv ==
  ASSUME IInv, NEW t \in Threads, Leave(t)
  PROVE  IInv'
<1>1. /\ Running /\ call[t].pc = "using" /\ call' = [call EXCEPT ![t] = Place("idle", nullptr, nullptr, FALSE)]
      /\ UNCHANGED <<alive, owner, weak, count, valid, bound, panicked, users>> /\ alive' \in BOOLEAN
  BY DEF Leave, At, Return, Nowhere, IInv, TypeOK
<1> QED
  BY <1>1, CallStep

LEMMA DestroyKeepsIInv ==
  ASSUME IInv, NEW t \in Threads, Destroy(t)
  PROVE  IInv'
<1>1. /\ Running /\ call[t].pc = "destroy" /\ call' = [call EXCEPT ![t] = Place("idle", nullptr, nullptr, FALSE)]
      /\ UNCHANGED <<owner, weak, count, valid, bound, panicked, users>> /\ alive' \in BOOLEAN
      /\ OnFactory(t) /\ owner = Null
  BY DEF Destroy, At, Return, Nowhere, IInv, TypeOK, CallShape, OnFactory
<1> QED
  BY <1>1, CallStep

LEMMA GetKeepsIInv ==
  ASSUME IInv, NEW t \in Threads, NEW p \in Pointers, Get(t, p)
  PROVE  IInv'
<1>1. /\ Running /\ call[t].pc = "idle" /\ FreePointer(p)
      /\ UNCHANGED <<alive, owner, weak, count, valid, bound, users>>
      /\ weak[p].flag \in Flags \cup {Null, nullptr} /\ alive' \in BOOLEAN
  BY DEF Get, Idle, IInv, TypeOK
<1>2. CASE weak[p].flag = nullptr
  <2>1. panicked' = "null" /\ UNCHANGED call
    BY <1>2 DEF Get
  <2>2. CallShape'
    BY <1>1, <2>1 DEF IInv, CallShape, Running
  <2> QED
    BY <1>1, <2>1, <2>2, CountsMeans DEF IInv, TypeOK, Exclusive, OnFactory, ValidIsOwned, Bound, Checked,
         MayInvalidate, UsesOwned, BoundIsUser, InUse, FailsDeservedly, Flag
<1>3. CASE weak[p].flag = Null
  <2>1. UNCHANGED vars
    BY <1>1, <1>3, WeakPtrAssumption DEF Get, vars
  <2> QED
    BY <2>1, StutterKeepsIInv
<1>4. CASE weak[p].flag \in Flags
  <2>1. /\ call' = [call EXCEPT ![t] = Place(IF Asserts THEN "ensure" ELSE "read", p, nullptr, FALSE)]
        /\ UNCHANGED panicked
    BY <1>4, WeakPtrAssumption DEF Get
  <2> QED
    BY <1>1, <1>4, <2>1, CallStep, WeakPtrAssumption
<1> QED
  BY <1>1, <1>2, <1>3, <1>4

LEMMA InvalidateKeepsIInv ==
  ASSUME IInv, NEW t \in Threads, NEW destroys \in BOOLEAN, Invalidate(t, destroys)
  PROVE  IInv'
<1> DEFINE pc == IF owner = Null THEN "destroy" ELSE IF Asserts THEN "ensure" ELSE "invalidate"
<1>1. /\ Running /\ call[t].pc = "idle" /\ FreeFactory
      /\ call' = [call EXCEPT ![t] = Place(pc, nullptr, nullptr, destroys)]
      /\ UNCHANGED <<alive, owner, weak, count, valid, bound, panicked, users>> /\ alive' \in BOOLEAN
  BY DEF Invalidate, Idle, IInv, TypeOK
<1>2. /\ pc \in {"ensure", "invalidate", "destroy"} /\ (pc = "destroy" <=> owner = Null)
      /\ Asserts => pc # "invalidate"
  OBVIOUS
<1> HIDE DEF pc
<1> QED
  BY <1>1, <1>2, CallStep

LEMMA GetValidMaskKeepsIInv ==
  ASSUME IInv, NEW t \in Threads, GetValidMask(t)
  PROVE  IInv'
<1>1. /\ Running /\ call[t].pc = "read" /\ call[t].ptr # nullptr /\ call[t].ptr \in Pointers
      /\ Flag(t) = weak[call[t].ptr].flag /\ Flag(t) \in Flags
      /\ UNCHANGED <<alive, owner, weak, count, valid, bound, panicked, users>> /\ alive' \in BOOLEAN
  BY DEF GetValidMask, At, IInv, TypeOK, CallShape, CheckingPCs, Flag
<1>2. CASE valid[Flag(t)] /\ weak[call[t].ptr].set
  <2>1. Goto(t, "using") /\ panicked' = "no"
    BY <1>1, <1>2 DEF GetValidMask, Running
  <2>2. /\ TypeOK' /\ CallShape' /\ Exclusive' /\ Counts' /\ ValidIsOwned' /\ BoundIsUser'
        /\ Flag(t)' = Flag(t)
        /\ \A u \in Threads \ {t} : call'[u] = call[u] /\ Flag(u)' = Flag(u)
    BY <1>1, <2>1, GotoStep DEF CheckingPCs
  <2>3. call'[t].pc = "using"
    BY <2>1, Moved DEF IInv
  <2>4. Flag(t) = owner
    BY <1>1, <1>2, Referred DEF IInv, ValidIsOwned
  <2>5. Bound' /\ Checked' /\ MayInvalidate' /\ UsesOwned'
    BY <1>1, <2>2, <2>3, <2>4 DEF IInv, Bound, Checked, MayInvalidate, UsesOwned
  <2>6. FailsDeservedly'
    BY <2>1 DEF FailsDeservedly
  <2> QED
    BY <2>2, <2>5, <2>6 DEF IInv
<1>3. CASE ~(valid[Flag(t)] /\ weak[call[t].ptr].set)
  <2>1. call' = [call EXCEPT ![t] = Place("idle", nullptr, nullptr, FALSE)]
    BY <1>3 DEF GetValidMask, Return, Nowhere
  <2> QED
    BY <1>1, <2>1, CallStep
<1> QED
  BY <1>2, <1>3

LEMMA InvalidateFlagKeepsIInv ==
  ASSUME IInv, NEW t \in Threads, InvalidateFlag(t)
  PROVE  IInv'
<1> USE WeakPtrAssumption DEF IInv
<1>1. /\ Running /\ call[t].pc = "invalidate" /\ call[t].ptr = nullptr /\ owner \in Flags
      /\ OnFactory(t) /\ alive
      /\ valid' = [valid EXCEPT ![owner] = FALSE] /\ owner' = Null
      /\ UNCHANGED <<alive, weak, count, bound, panicked, users>>
  BY DEF InvalidateFlag, At, CallShape, FactoryPCs, OnFactory, Exclusive
<1>2. /\ call'[t].pc = "release" /\ call'[t].ptr = nullptr /\ call'[t].old = owner
      /\ call'[t].destroys = call[t].destroys
      /\ \A u \in Threads \ {t} : call'[u] = call[u]
  BY <1>1 DEF InvalidateFlag, TypeOK, Place
<1>3. TypeOK'
  BY <1>1 DEF InvalidateFlag, TypeOK, Place
<1>4. \A u \in Threads \ {t} : call[u].pc = "idle" \/ (call[u].pc # "issue" /\ call[u].ptr # nullptr)
  BY <1>1 DEF Exclusive, OnFactory
<1>5. \A u \in Threads \ {t} : call[u].ptr # nullptr => Flag(u)' = Flag(u)
  BY <1>1, <1>2 DEF Flag
<1>6. CallShape'
  <2> SUFFICES ASSUME NEW u \in Threads
               PROVE  /\ call'[u].pc = "idle" => call'[u] = Nowhere
                      /\ call'[u].pc \in {"issue", "read", "using"} => call'[u].ptr # nullptr
                      /\ call'[u].pc \in {"alone", "invalidate", "destroy"} => call'[u].ptr = nullptr
                      /\ call'[u].pc \in CheckingPCs /\ call'[u].ptr # nullptr => weak[call'[u].ptr].flag \in Flags
                      /\ call'[u].pc \in FactoryPCs /\ call'[u].ptr = nullptr => Null \in Flags
                      /\ call'[u].pc # "issue" /\ call'[u].pc # "failed"
                      /\ call'[u].destroys => call'[u].ptr = nullptr
    BY <1>1 DEF CallShape
  <2>1. CASE u = t
    BY <1>2, <2>1 DEF CheckingPCs, FactoryPCs
  <2>2. CASE u # t
    <3>1. call'[u] = call[u] /\ call[u].pc # "issue" /\ (call[u].ptr = nullptr => call[u].pc = "idle")
      BY <1>2, <1>4, <2>2
    <3>2. call[u].pc # "failed"
      BY <1>1 DEF CallShape
    <3>3. "idle" \notin FactoryPCs
      BY DEF FactoryPCs
    <3> QED
      BY <3>1, <3>2, <3>3 DEF CallShape
  <2> QED
    BY <2>1, <2>2
<1>7. Exclusive'
  <2>1. \A u \in Threads : call'[u].ptr = call[u].ptr
    BY <1>1, <1>2
  <2>2. \A u \in Threads : OnFactory(u)' => OnFactory(u)
    BY <1>1, <1>2, <2>1 DEF OnFactory
  <2> QED
    BY <1>1, <2>1, <2>2 DEF Exclusive
<1>8. Counts'
  <2> SUFFICES ASSUME NEW g \in Flags PROVE count[g] = Refs(call', weak, Null, g)
    BY <1>1, CountsMeans
  <2>1. ButThread(t, call, call')
    BY <1>2 DEF ButThread
  <2>2. Cardinality(Dropping(call', g)) = Cardinality(Dropping(call, g))
          + (IF call'[t].pc = "release" /\ call'[t].old = g THEN 1 ELSE 0)
          - (IF call[t].pc = "release" /\ call[t].old = g THEN 1 ELSE 0)
    BY <2>1, OneCall
  <2>3. count[g] = Refs(call, weak, owner, g)
    BY CountsMeans
  <2>4. Cardinality(Holding(weak, g)) \in Nat /\ Cardinality(Dropping(call, g)) \in Nat
    BY HowMany
  <2>5. Cardinality(Dropping(call', g)) = Cardinality(Dropping(call, g)) + (IF owner = g THEN 1 ELSE 0)
    BY <1>1, <1>2, <2>2, <2>4
  <2>6. g # Null
    OBVIOUS
  <2> QED
    BY <2>3, <2>4, <2>5, <2>6 DEF Refs
<1>9. ValidIsOwned'
  BY <1>1 DEF ValidIsOwned, TypeOK
<1>10. Bound' /\ Checked' /\ MayInvalidate'
  BY <1>1, <1>2, <1>4, <1>5 DEF Bound, Checked, MayInvalidate, CallShape
<1>11. UsesOwned'
  <2> SUFFICES ASSUME Asserts, NEW u \in Threads, call[u].pc = "using", u # t PROVE FALSE
    BY <1>2 DEF UsesOwned
  <2>1. Flag(u) = owner /\ bound[owner] = u /\ weak[call[u].ptr].flag = owner /\ call[u].ptr \in Pointers
    BY DEF UsesOwned, Checked, Flag, CallShape, TypeOK
  <2>2. count[owner] # 1
    BY <1>1, <2>1, Shared
  <2> QED
    BY <1>1, <2>1, <2>2 DEF MayInvalidate
<1>12. BoundIsUser'
  <2>1. \A f \in Flags : InUse(f)' => InUse(f)
    BY <1>1 DEF InUse
  <2> QED
    BY <1>1, <2>1 DEF BoundIsUser
<1>13. FailsDeservedly'
  BY <1>1 DEF FailsDeservedly, Running
<1> QED
  BY <1>3, <1>6, <1>7, <1>8, <1>9, <1>10, <1>11, <1>12, <1>13

LEMMA ReleaseKeepsIInv ==
  ASSUME IInv, NEW t \in Threads, Release(t)
  PROVE  IInv'
<1> DEFINE f == call[t].old
           next == IF call[t].destroys THEN "destroy" ELSE "idle"
<1> USE WeakPtrAssumption DEF IInv
<1>1. /\ Running /\ call[t].pc = "release"
      /\ UNCHANGED <<alive, owner, weak, valid, bound, panicked>>
  BY DEF Release, At
<1>2. /\ call'[t].pc = next
      /\ call'[t] = Nowhere \/ (call'[t].ptr = call[t].ptr /\ next = "destroy")
      /\ \A u \in Threads \ {t} : call'[u] = call[u]
  <2>1. CASE call[t].destroys
    BY <2>1, Moved DEF Release
  <2>2. CASE ~call[t].destroys
    BY <2>2 DEF Release, Return, Nowhere, Place, TypeOK
  <2> QED
    BY <2>1, <2>2
<1>3. call' \in [Threads -> [pc : {"idle", "issue", "release", "ensure", "compare", "alone", "read",
              "using", "invalidate", "destroy", "failed"},
        ptr : Pointers \cup {nullptr}, old : Flags \cup {Null, nullptr}, destroys : BOOLEAN]]
  <2>1. CASE call[t].destroys
    BY <2>1, SMTT(20) DEF Release, Goto, TypeOK
  <2>2. CASE ~call[t].destroys
    <3>1. call' = [call EXCEPT ![t] = Nowhere]
      BY <2>2 DEF Release, Return
    <3>2. Nowhere \in [pc : {"idle", "issue", "release", "ensure", "compare", "alone", "read",
              "using", "invalidate", "destroy", "failed"},
        ptr : Pointers \cup {nullptr}, old : Flags \cup {Null, nullptr}, destroys : BOOLEAN]
      BY DEF Nowhere, Place
    <3> QED
      BY <3>1, <3>2 DEF TypeOK
  <2> QED
    BY <2>1, <2>2
<1>4. /\ f \in Flags => /\ count' = [count EXCEPT ![f] = @ - 1]
                        /\ count[f] >= 1 + IF owner = f THEN 1 ELSE 0
                        /\ \/ users' = users
                           \/ /\ users' = [users EXCEPT ![f] = {}]
                              /\ count[f] = 2 /\ f = owner /\ ~\E u \in Threads : call[u].pc = "issue"
      /\ f \notin Flags => UNCHANGED <<count, users>>
  BY <1>1, Referred DEF Release, TypeOK
<1> HIDE DEF f, next
<1>5. TypeOK'
  <2>1. CASE f \in Flags
    <3>1. count' \in [Flags -> Nat]
      BY <1>4, <2>1 DEF TypeOK
    <3>2. users' \in [Flags -> SUBSET Threads]
      BY <1>4, <2>1 DEF TypeOK
    <3> QED
      BY <1>1, <1>3, <3>1, <3>2 DEF TypeOK
  <2>2. CASE f \notin Flags
    BY <1>1, <1>3, <1>4, <2>2 DEF TypeOK
  <2> QED
    BY <2>1, <2>2
<1>6. \A u \in Threads \ {t} : Flag(u)' = Flag(u)
  BY <1>1, <1>2 DEF Flag
<1>7. \A u \in Threads : OnFactory(u)' => OnFactory(u)
  BY <1>1, <1>2 DEF OnFactory, Nowhere, Place
<1>8. CallShape'
  <2> SUFFICES ASSUME NEW u \in Threads
               PROVE  /\ call'[u].pc = "idle" => call'[u] = Nowhere
                      /\ call'[u].pc \in {"issue", "read", "using"} => call'[u].ptr # nullptr
                      /\ call'[u].pc \in {"alone", "invalidate", "destroy"} => call'[u].ptr = nullptr
                      /\ call'[u].pc \in CheckingPCs /\ call'[u].ptr # nullptr => weak[call'[u].ptr].flag \in Flags
                      /\ call'[u].pc \in FactoryPCs /\ call'[u].ptr = nullptr => owner \in Flags
                      /\ call'[u].pc = "issue" => owner \in Flags
                      /\ call'[u].pc \in {"release", "destroy"} /\ call'[u].ptr = nullptr => owner = Null
                      /\ call'[u].pc # "failed"
                      /\ call'[u].destroys => call'[u].ptr = nullptr
    BY <1>1 DEF CallShape
  <2>1. CASE u # t
    BY <1>1, <1>2, <2>1 DEF CallShape
  <2>2. CASE u = t /\ call'[t] = Nowhere
    BY <2>2 DEF CheckingPCs, FactoryPCs, Place, Nowhere
  <2>3. CASE u = t /\ call'[t] # Nowhere
    <3>1. call'[t].pc = "destroy" /\ call'[t].ptr = nullptr /\ owner = Null
      BY <1>1, <1>2, <2>3 DEF next, CallShape
    <3> QED
      BY <2>3, <3>1 DEF CheckingPCs, FactoryPCs
  <2> QED
    BY <2>1, <2>2, <2>3
<1>9. Exclusive'
  <2>1. \A u, v \in Threads : u # v /\ call'[u].ptr # nullptr => call'[u].ptr # call'[v].ptr
    <3>1. \A u \in Threads : call'[u].ptr = nullptr \/ call'[u].ptr = call[u].ptr
      BY <1>2 DEF Nowhere, Place
    <3> QED
      BY <3>1 DEF Exclusive
  <2> QED
    BY <1>1, <1>7, <2>1 DEF Exclusive
<1>10. Counts'
  <2> SUFFICES ASSUME NEW g \in Flags PROVE count'[g] = Refs(call', weak, owner, g)
    BY <1>1, CountsMeans
  <2>1. ButThread(t, call, call')
    BY <1>2 DEF ButThread
  <2>2. Cardinality(Dropping(call', g)) = Cardinality(Dropping(call, g))
          + (IF call'[t].pc = "release" /\ call'[t].old = g THEN 1 ELSE 0)
          - (IF call[t].pc = "release" /\ call[t].old = g THEN 1 ELSE 0)
    BY <2>1, OneCall
  <2>3. count[g] = Refs(call, weak, owner, g)
    BY CountsMeans
  <2>4. Cardinality(Holding(weak, g)) \in Nat /\ Cardinality(Dropping(call, g)) \in Nat
    BY HowMany
  <2>5. Cardinality(Dropping(call', g)) = Cardinality(Dropping(call, g)) - (IF f = g THEN 1 ELSE 0)
    BY <1>1, <1>2, <2>2, <2>4 DEF f, next
  <2>6. count'[g] = count[g] - IF f = g THEN 1 ELSE 0
    BY <1>4 DEF TypeOK
  <2> QED
    BY <2>3, <2>4, <2>5, <2>6 DEF Refs
<1>11. \A g \in Flags : count'[g] \in Nat /\ count'[g] <= count[g]
  BY <1>4 DEF TypeOK
<1>12. ValidIsOwned'
  BY <1>1, <1>11 DEF ValidIsOwned, TypeOK
<1>13. next \in {"idle", "destroy"}
  BY DEF next
<1>14. Bound' /\ Checked' /\ UsesOwned'
  BY <1>1, <1>2, <1>6, <1>13 DEF Bound, Checked, UsesOwned
<1>15. MayInvalidate'
  <2> SUFFICES ASSUME Asserts, NEW u \in Threads, u # t, call[u].pc = "invalidate"
               PROVE  bound[owner] = u \/ count'[owner] = 1
    BY <1>1, <1>2, <1>13 DEF MayInvalidate
  <2>1. owner \in Flags /\ (bound[owner] = u \/ count[owner] = 1)
    BY DEF MayInvalidate, CallShape, FactoryPCs
  <2> QED
    BY <1>4, <2>1 DEF TypeOK
<1>16. BoundIsUser'
  <2> SUFFICES ASSUME NEW g \in Flags, InUse(g)', bound[g] # nullptr PROVE bound[g] \in users'[g]
    BY <1>1 DEF BoundIsUser
  <2>1. InUse(g)
    BY <1>1, <1>2, <1>11, <1>13 DEF InUse, TypeOK
  <2>2. CASE users'[g] = users[g]
    BY <2>1, <2>2 DEF BoundIsUser
  <2>3. CASE users'[g] # users[g]
    <3>1. g = f /\ f \in Flags /\ count[f] = 2 /\ f = owner /\ ~\E u \in Threads : call[u].pc = "issue"
      BY <1>4, <2>3 DEF TypeOK
    <3>2. count'[f] = 1
      BY <1>4, <3>1 DEF TypeOK
    <3>3. \A p \in Pointers : weak'[p].flag # owner'
      <4>1. TypeOK' /\ Counts' /\ owner' \in Flags /\ count'[owner'] = 1
        BY <1>1, <1>5, <1>10, <3>1, <3>2
      <4>2. count'[owner'] = Refs(call', weak', owner', owner')
        BY <4>1, CountsMeans
      <4>3. /\ Cardinality(Holding(weak', owner')) \in Nat /\ Cardinality(Dropping(call', owner')) \in Nat
            /\ (\A p \in Pointers : weak'[p].flag # owner') <=> Cardinality(Holding(weak', owner')) = 0
        BY HowMany
      <4> QED
        BY <4>1, <4>2, <4>3 DEF Refs
    <3>4. ~\E u \in Threads : call'[u].pc = "issue"
      BY <1>2, <1>13, <3>1
    <3> QED
      BY <1>1, <3>1, <3>2, <3>3, <3>4 DEF InUse
  <2> QED
    BY <2>2, <2>3
<1>17. FailsDeservedly'
  BY <1>1 DEF FailsDeservedly, Running
<1> QED
  BY <1>5, <1>8, <1>9, <1>10, <1>12, <1>14, <1>15, <1>16, <1>17

LEMMA StepIInv == IInv /\ [Next]_vars => IInv'
<1> SUFFICES ASSUME IInv, [Next]_vars PROVE IInv'
  OBVIOUS
<1>1. CASE UNCHANGED vars
  BY <1>1, StutterKeepsIInv
<1>2. CASE Next
  <2> SUFFICES ASSUME NEW t \in Threads,
                 \/ \E p \in Pointers : GetRef(t, p) \/ Reset(t, p) \/ Get(t, p)
                 \/ \E p, q \in Pointers : Copy(t, p, q) \/ Move(t, p, q)
                 \/ Issue(t) \/ Release(t)
                 \/ \E destroys \in BOOLEAN : Invalidate(t, destroys)
                 \/ EnsureThreadIdAssigned(t) \/ Compare(t) \/ HasOneRef(t)
                 \/ GetValidMask(t) \/ Leave(t) \/ InvalidateFlag(t) \/ Destroy(t)
               PROVE  IInv'
    BY <1>2 DEF Next
  <2>1. CASE \E p \in Pointers : GetRef(t, p) \/ Reset(t, p) \/ Get(t, p)
    BY <2>1, GetRefKeepsIInv, ResetKeepsIInv, GetKeepsIInv
  <2>2. CASE \E p, q \in Pointers : Copy(t, p, q) \/ Move(t, p, q)
    BY <2>2, CopyKeepsIInv, MoveKeepsIInv
  <2>3. CASE Issue(t) \/ Release(t)
    BY <2>3, IssueKeepsIInv, ReleaseKeepsIInv
  <2>4. CASE \E destroys \in BOOLEAN : Invalidate(t, destroys)
    BY <2>4, InvalidateKeepsIInv
  <2>5. CASE EnsureThreadIdAssigned(t) \/ Compare(t) \/ HasOneRef(t)
    BY <2>5, EnsureThreadIdAssignedKeepsIInv, CompareKeepsIInv, HasOneRefKeepsIInv
  <2>6. CASE GetValidMask(t) \/ Leave(t) \/ InvalidateFlag(t) \/ Destroy(t)
    BY <2>6, GetValidMaskKeepsIInv, LeaveKeepsIInv, InvalidateFlagKeepsIInv, DestroyKeepsIInv
  <2> QED
    BY <2>1, <2>2, <2>3, <2>4, <2>5, <2>6
<1> QED
  BY <1>1, <1>2

THEOREM Invariant == Spec => []IInv
BY InitIInv, StepIInv, PTL DEF Spec

------------------------------------------------------------------------------
(* Safety. *)

\* Every flag is counted exactly: it is deleted (reused by GetRef) with its last
\* reference, the factory's, a pointer's or one that is being dropped, and not
\* before, for any number of threads and pointers; and every variable has its
\* type.
THEOREM ReferencesAreCounted == Spec => []CountsReferences
<1>1. IInv => CountsReferences
  BY DEF IInv, CountsReferences, Counts
<1> QED
  BY <1>1, Invariant, PTL

\* The thread check fails only for a flag that another thread has checked since
\* there were pointers to it.
THEOREM ChecksFailDeservedly == Spec => []FailsDeservedly
<1>1. IInv => FailsDeservedly
  BY DEF IInv
<1> QED
  BY <1>1, Invariant, PTL

\* With the ASSERTs of a debug build nobody is inside an object that has been
\* destroyed, in whatever order threads use and destroy it.
THEOREM NoUseAfterDestruction ==
  ASSUME Asserts
  PROVE  Spec => []UsesLiveObject
<1>1. IInv => UsesLiveObject
  <2> SUFFICES ASSUME IInv, NEW t \in Threads, call[t].pc = "using" PROVE alive
    BY DEF UsesLiveObject
  <2>1. owner = Flag(t) /\ Flag(t) \in Flags
    BY DEF IInv, UsesOwned, CallShape, CheckingPCs, Flag
  <2> QED
    BY <2>1, WeakPtrAssumption DEF IInv, Exclusive
<1> QED
  BY <1>1, Invariant, PTL

------------------------------------------------------------------------------
(* Refinement. *)

\* What the variables of WeakPtrSpec stand for.
Target(w, v) == [p \in Pointers |-> IF w[p].flag \in Flags /\ v[w[p].flag] THEN "object" ELSE "null"]
Inside(c) == {t \in Threads : c[t].pc = "using"}

\* A step of the contract.
ContractStep ==
  LET target == Target(weak, valid)  target2 == Target(weak', valid')
      using == Inside(call)  using2 == Inside(call')
  IN \/ alive' = alive /\ target2 = target /\ using2 = using
     \/ /\ alive' = alive /\ using2 = using
        /\ \/ alive /\ \E p \in Pointers : target2 = [target EXCEPT ![p] = "object"]
           \/ \E p \in Pointers : target2 = [target EXCEPT ![p] = "null"]
           \/ \E p, q \in Pointers : target2 = [target EXCEPT ![p] = target[q]]
           \/ \E p, q \in Pointers : target2 = [target EXCEPT ![p] = target[q], ![q] = "null"]
           \/ using = {} /\ target2 = [p \in Pointers |-> "null"]
     \/ /\ alive' = alive /\ target2 = target
        /\ \E t \in Threads :
             \/ using2 = using \ {t}
             \/ using2 = using \cup {t} /\ \E p \in Pointers : target[p] = "object"
     \/ /\ alive /\ alive' = FALSE /\ target2 = target /\ using2 = using /\ using = {}
        /\ \A p \in Pointers : target[p] = "null"

LEMMA ContractStepIs == ContractStep => [Contract!Next]_Contract!vars
<1> SUFFICES ASSUME ContractStep PROVE [Contract!Next]_Contract!vars
  OBVIOUS
<1> DEFINE target == [p \in Pointers |-> IF weak[p].flag \in Flags /\ valid[weak[p].flag] THEN "object" ELSE "null"]
           using == {t \in Threads : call[t].pc = "using"}
<1>1. target = Target(weak, valid) /\ target' = Target(weak', valid')
  BY DEF Target
<1>2. using = Inside(call) /\ using' = Inside(call')
  BY DEF Inside
<1>3. UNCHANGED <<alive, target, using>> => UNCHANGED Contract!vars
  BY DEF Contract!vars
<1>4. \A p \in Pointers :
        /\ Contract!Issue(p) <=> alive /\ target' = [target EXCEPT ![p] = "object"] /\ UNCHANGED <<alive, using>>
        /\ Contract!Reset(p) <=> target' = [target EXCEPT ![p] = "null"] /\ UNCHANGED <<alive, using>>
  BY DEF Contract!Issue, Contract!Reset
<1>5. \A p, q \in Pointers :
        /\ Contract!Copy(p, q) <=> target' = [target EXCEPT ![p] = target[q]] /\ UNCHANGED <<alive, using>>
        /\ Contract!Move(p, q) <=>
             target' = [target EXCEPT ![p] = target[q], ![q] = "null"] /\ UNCHANGED <<alive, using>>
  BY DEF Contract!Copy, Contract!Move
<1>6. \A t \in Threads :
        /\ Contract!Leave(t) <=> using' = using \ {t} /\ UNCHANGED <<alive, target>>
        /\ \A p \in Pointers :
             Contract!Enter(t, p) <=> target[p] = "object" /\ using' = using \cup {t} /\ UNCHANGED <<alive, target>>
  BY DEF Contract!Leave, Contract!Enter
<1>7. Contract!Invalidate <=> using = {} /\ target' = [p \in Pointers |-> "null"] /\ UNCHANGED <<alive, using>>
  BY DEF Contract!Invalidate
<1>8. Contract!Destroy <=> /\ alive /\ using = {} /\ \A p \in Pointers : target[p] = "null"
                           /\ alive' = FALSE /\ UNCHANGED <<target, using>>
  BY DEF Contract!Destroy
<1> HIDE DEF target, using
<1>9. CASE alive' = alive /\ target' = target /\ using' = using
  BY <1>3, <1>9
<1>10. CASE /\ alive' = alive /\ using' = using
            /\ \/ alive /\ \E p \in Pointers : target' = [target EXCEPT ![p] = "object"]
               \/ \E p \in Pointers : target' = [target EXCEPT ![p] = "null"]
               \/ \E p, q \in Pointers : target' = [target EXCEPT ![p] = target[q]]
               \/ \E p, q \in Pointers : target' = [target EXCEPT ![p] = target[q], ![q] = "null"]
               \/ using = {} /\ target' = [p \in Pointers |-> "null"]
  BY <1>4, <1>5, <1>7, <1>10 DEF Contract!Next
<1>11. CASE /\ alive' = alive /\ target' = target
            /\ \E t \in Threads :
                 \/ using' = using \ {t}
                 \/ using' = using \cup {t} /\ \E p \in Pointers : target[p] = "object"
  BY <1>6, <1>11 DEF Contract!Next
<1>12. CASE /\ alive /\ alive' = FALSE /\ target' = target /\ using' = using /\ using = {}
            /\ \A p \in Pointers : target[p] = "null"
  BY <1>8, <1>12 DEF Contract!Next
<1> QED
  BY <1>1, <1>2, <1>9, <1>10, <1>11, <1>12 DEF ContractStep

\* Which calls are inside, when only t moves.
LEMMA InsideStep ==
  ASSUME TypeOK, NEW t \in Threads, \A u \in Threads \ {t} : call'[u].pc = call[u].pc
  PROVE  /\ call[t].pc # "using" /\ call'[t].pc # "using" => Inside(call') = Inside(call)
         /\ call'[t].pc # "using" => Inside(call') = Inside(call) \ {t}
         /\ call'[t].pc = "using" => Inside(call') = Inside(call) \cup {t}
BY DEF Inside

LEMMA InitContract == Init => Contract!Init
<1> SUFFICES ASSUME Init PROVE Contract!Init
  OBVIOUS
<1>1. [p \in Pointers |-> IF weak[p].flag \in Flags /\ valid[weak[p].flag] THEN "object" ELSE "null"]
        = [p \in Pointers |-> "null"]
  BY WeakPtrAssumption DEF Init
<1>2. {t \in Threads : call[t].pc = "using"} = {}
  BY DEF Init, Nowhere, Place
<1> QED
  BY <1>1, <1>2 DEF Init, Contract!Init

\* A step that leaves the pointers and what they refer to alone and does not
\* enter or leave the object is none of the contract's.
LEMMA QuietStep ==
  ASSUME TypeOK, NEW t \in Threads, call[t].pc # "using", call'[t].pc # "using",
         \A u \in Threads \ {t} : call'[u].pc = call[u].pc,
         alive' = alive, weak' = weak,
         \A p \in Pointers : weak[p].flag \in Flags => valid'[weak[p].flag] = valid[weak[p].flag]
  PROVE  ContractStep
BY InsideStep DEF ContractStep, Target

\* Nobody is inside once the flag may be invalidated.
LEMMA NobodyInside ==
  ASSUME Asserts, IInv, NEW t \in Threads, call[t].pc \in {"invalidate", "destroy"}
  PROVE  Inside(call) = {}
<1> SUFFICES ASSUME NEW u \in Threads, call[u].pc = "using" PROVE FALSE
  BY DEF Inside
<1>1. /\ Flag(u) = owner /\ bound[owner] = u
      /\ call[u].ptr \in Pointers /\ weak[call[u].ptr].flag = owner /\ owner \in Flags
  BY DEF IInv, UsesOwned, Checked, Flag, CallShape, CheckingPCs, TypeOK
<1>2. call[t].pc = "invalidate"
  BY <1>1, WeakPtrAssumption DEF IInv, CallShape
<1>3. count[owner] # 1
  BY <1>1, Shared DEF IInv
<1> QED
  BY <1>1, <1>2, <1>3 DEF IInv, MayInvalidate

LEMMA StepContract ==
  ASSUME Asserts
  PROVE  IInv /\ [Next]_vars => ContractStep
<1> SUFFICES ASSUME IInv, [Next]_vars PROVE ContractStep
  OBVIOUS
<1> USE DEF IInv
<1>1. CASE UNCHANGED vars
  BY <1>1 DEF vars, ContractStep
<1>2. ASSUME NEW t \in Threads, NEW p \in Pointers, GetRef(t, p) PROVE ContractStep
  <2>1. /\ call[t].pc = "idle" /\ call'[t].pc = "issue" /\ alive' = alive /\ weak' = weak
        /\ \A u \in Threads \ {t} : call'[u] = call[u]
    BY <1>2 DEF GetRef, Idle, Place, TypeOK
  <2>2. valid' = valid \/ \E f \in Flags : count[f] = 0 /\ valid' = [valid EXCEPT ![f] = TRUE]
    BY <1>2 DEF GetRef
  <2>3. \A q \in Pointers : weak[q].flag \in Flags => count[weak[q].flag] # 0
    BY Referred DEF TypeOK
  <2>4. \A q \in Pointers : weak[q].flag \in Flags => valid'[weak[q].flag] = valid[weak[q].flag]
    BY <2>2, <2>3 DEF TypeOK
  <2> QED
    BY <2>1, <2>4, QuietStep
<1>3. ASSUME NEW t \in Threads, Issue(t) PROVE ContractStep
  <2> DEFINE p == call[t].ptr
  <2>1. /\ call[t].pc = "issue" /\ call'[t].pc = "release" /\ p \in Pointers
        /\ \A u \in Threads \ {t} : call'[u] = call[u]
        /\ owner \in Flags /\ valid[owner] /\ valid' = valid /\ alive /\ alive' = alive
        /\ weak' = [weak EXCEPT ![p] = [flag |-> owner, set |-> TRUE]]
    BY <1>3 DEF Issue, At, Releasing, Place, TypeOK, CallShape, ValidIsOwned, Exclusive, OnFactory
  <2> HIDE DEF p
  <2>2. Inside(call') = Inside(call)
    BY <2>1, InsideStep
  <2>3. Target(weak', valid') = [Target(weak, valid) EXCEPT ![p] = "object"]
    BY <2>1 DEF Target, TypeOK
  <2> QED
    BY <2>1, <2>2, <2>3 DEF ContractStep
<1>4. ASSUME NEW t \in Threads, NEW p \in Pointers, Reset(t, p) PROVE ContractStep
  <2>1. /\ call[t].pc = "idle" /\ call'[t].pc = "release"
        /\ \A u \in Threads \ {t} : call'[u] = call[u]
        /\ weak' = [weak EXCEPT ![p] = [flag |-> nullptr, set |-> FALSE]] /\ valid' = valid /\ alive' = alive
    BY <1>4 DEF Reset, Idle, Releasing, Place, TypeOK
  <2>2. Inside(call') = Inside(call)
    BY <2>1, InsideStep
  <2>3. Target(weak', valid') = [Target(weak, valid) EXCEPT ![p] = "null"]
    BY <2>1, WeakPtrAssumption DEF Target, TypeOK
  <2> QED
    BY <2>1, <2>2, <2>3 DEF ContractStep
<1>5. ASSUME NEW t \in Threads, NEW p \in Pointers, NEW q \in Pointers, Copy(t, p, q) PROVE ContractStep
  <2>1. /\ call[t].pc = "idle" /\ call'[t].pc = "release"
        /\ \A u \in Threads \ {t} : call'[u] = call[u]
        /\ weak' = [weak EXCEPT ![p] = weak[q]] /\ valid' = valid /\ alive' = alive
    BY <1>5 DEF Copy, Idle, Releasing, Place, TypeOK
  <2>2. Inside(call') = Inside(call)
    BY <2>1, InsideStep
  <2>3. Target(weak', valid') = [Target(weak, valid) EXCEPT ![p] = Target(weak, valid)[q]]
    BY <2>1 DEF Target, TypeOK
  <2> QED
    BY <2>1, <2>2, <2>3 DEF ContractStep
<1>6. ASSUME NEW t \in Threads, NEW p \in Pointers, NEW q \in Pointers, Move(t, p, q) PROVE ContractStep
  <2>1. /\ call[t].pc = "idle" /\ call'[t].pc = "release"
        /\ \A u \in Threads \ {t} : call'[u] = call[u]
        /\ valid' = valid /\ alive' = alive
    BY <1>6 DEF Move, Idle, Releasing, Place, TypeOK
  <2>2. Inside(call') = Inside(call)
    BY <2>1, InsideStep
  <2>3. /\ p # q /\ weak'[p].flag = weak[q].flag /\ weak'[q].flag = Null
        /\ \A r \in Pointers \ {p, q} : weak'[r] = weak[r]
    BY <1>6 DEF Move, TypeOK
  <2>4. Target(weak', valid') = [Target(weak, valid) EXCEPT ![p] = Target(weak, valid)[q], ![q] = "null"]
    BY <2>1, <2>3, WeakPtrAssumption DEF Target
  <2> QED
    BY <2>1, <2>2, <2>4 DEF ContractStep
<1>7. ASSUME NEW t \in Threads, Release(t) PROVE ContractStep
  <2>1. call[t].pc = "release" /\ UNCHANGED <<alive, weak, valid>>
    BY <1>7 DEF Release, At
  <2>2. call'[t].pc # "using" /\ \A u \in Threads \ {t} : call'[u].pc = call[u].pc
    <3>1. CASE call[t].destroys
      BY <1>7, <3>1, Moved DEF Release
    <3>2. CASE ~call[t].destroys
      BY <1>7, <3>2 DEF Release, Return, Nowhere, Place, TypeOK
    <3> QED
      BY <3>1, <3>2
  <2> QED
    BY <2>1, <2>2, QuietStep
<1>8. ASSUME NEW t \in Threads, NEW p \in Pointers, Get(t, p) PROVE ContractStep
  <2>1. /\ call[t].pc = "idle" /\ UNCHANGED <<alive, weak, valid>>
        /\ call' = call \/ call' = [call EXCEPT ![t] =
             Place(IF Asserts THEN "ensure" ELSE "read", p, nullptr, FALSE)]
    BY <1>8 DEF Get, Idle
  <2>2. call'[t].pc # "using" /\ \A u \in Threads \ {t} : call'[u].pc = call[u].pc
    BY <2>1 DEF Place, TypeOK
  <2> QED
    BY <2>1, <2>2, QuietStep
<1>9. ASSUME NEW t \in Threads, NEW destroys \in BOOLEAN, Invalidate(t, destroys) PROVE ContractStep
  <2>1. /\ call[t].pc = "idle" /\ UNCHANGED <<alive, weak, valid>>
        /\ call'[t].pc # "using" /\ \A u \in Threads \ {t} : call'[u].pc = call[u].pc
    BY <1>9 DEF Invalidate, Idle, Place, TypeOK
  <2> QED
    BY <2>1, QuietStep
<1>10. ASSUME NEW t \in Threads, EnsureThreadIdAssigned(t) \/ Compare(t) \/ HasOneRef(t) PROVE ContractStep
  <2>1. call[t].pc # "using" /\ UNCHANGED <<alive, weak, valid>>
    BY <1>10 DEF EnsureThreadIdAssigned, Compare, HasOneRef, At
  <2>2. \E pc \in {"compare", "invalidate", "read", "alone", "failed"} : Goto(t, pc)
    BY <1>10 DEF EnsureThreadIdAssigned, Compare, HasOneRef
  <2>3. call'[t].pc # "using" /\ \A u \in Threads \ {t} : call'[u].pc = call[u].pc
    BY <2>2, Moved
  <2> QED
    BY <2>1, <2>3, QuietStep
<1>11. ASSUME NEW t \in Threads, GetValidMask(t) PROVE ContractStep
  <2>1. call[t].pc = "read" /\ UNCHANGED <<alive, weak, valid>>
    BY <1>11 DEF GetValidMask, At
  <2>2. CASE valid[Flag(t)] /\ weak[call[t].ptr].set
    <3>1. Goto(t, "using")
      BY <1>11, <2>2 DEF GetValidMask
    <3>2. Inside(call') = Inside(call) \cup {t}
      BY <3>1, Moved, InsideStep
    <3>3. call[t].ptr \in Pointers /\ Target(weak, valid)[call[t].ptr] = "object"
      BY <2>1, <2>2 DEF Target, Flag, CallShape, CheckingPCs, TypeOK
    <3> QED
      BY <2>1, <3>2, <3>3 DEF ContractStep
  <2>3. CASE ~(valid[Flag(t)] /\ weak[call[t].ptr].set)
    <3>1. call'[t].pc # "using" /\ \A u \in Threads \ {t} : call'[u].pc = call[u].pc
      BY <1>11, <2>3 DEF GetValidMask, Return, Nowhere, Place, TypeOK
    <3> QED
      BY <2>1, <3>1, QuietStep
  <2> QED
    BY <2>2, <2>3
<1>12. ASSUME NEW t \in Threads, Leave(t) PROVE ContractStep
  <2>1. /\ UNCHANGED <<alive, weak, valid>>
        /\ call'[t].pc # "using" /\ \A u \in Threads \ {t} : call'[u].pc = call[u].pc
    BY <1>12 DEF Leave, Return, Nowhere, Place, TypeOK
  <2> QED
    BY <2>1, InsideStep DEF ContractStep
<1>13. ASSUME NEW t \in Threads, InvalidateFlag(t) PROVE ContractStep
  <2>1. /\ call[t].pc = "invalidate" /\ call'[t].pc = "release" /\ owner \in Flags
        /\ valid' = [valid EXCEPT ![owner] = FALSE] /\ UNCHANGED <<alive, weak>>
        /\ \A u \in Threads \ {t} : call'[u] = call[u]
    BY <1>13 DEF InvalidateFlag, At, Place, TypeOK, CallShape, FactoryPCs
  <2>2. Inside(call) = {} /\ Inside(call') = Inside(call)
    BY <2>1, NobodyInside, InsideStep
  <2>3. \A q \in Pointers : weak[q].flag \in Flags => count[weak[q].flag] > 0
    BY Referred DEF TypeOK
  <2>4. Target(weak', valid') = [q \in Pointers |-> "null"]
    BY <2>1, <2>3 DEF Target, ValidIsOwned, TypeOK
  <2> QED
    BY <2>1, <2>2, <2>4 DEF ContractStep
<1>14. ASSUME NEW t \in Threads, Destroy(t) PROVE ContractStep
  <2>1. /\ call[t].pc = "destroy" /\ call'[t].pc = "idle" /\ owner = Null /\ alive /\ alive' = FALSE
        /\ UNCHANGED <<weak, valid>> /\ \A u \in Threads \ {t} : call'[u] = call[u]
    BY <1>14 DEF Destroy, At, Return, Nowhere, Place, TypeOK, CallShape, Exclusive, OnFactory
  <2>2. Inside(call) = {} /\ Inside(call') = Inside(call)
    BY <2>1, NobodyInside, InsideStep
  <2>3. \A q \in Pointers : weak[q].flag \in Flags => count[weak[q].flag] > 0
    BY Referred DEF TypeOK
  <2>4. \A q \in Pointers : Target(weak, valid)[q] = "null"
    BY <2>1, <2>3, WeakPtrAssumption DEF Target, ValidIsOwned
  <2> QED
    BY <2>1, <2>2, <2>4 DEF ContractStep
<1>15. CASE Next
  BY <1>15, <1>2, <1>3, <1>4, <1>5, <1>6, <1>7, <1>8, <1>9, <1>10, <1>11, <1>12, <1>13, <1>14 DEF Next
<1> QED
  BY <1>1, <1>15

\* With the ASSERTs of a debug build the weak pointers are what WeakPtrSpec
\* promises, for any number of threads and pointers: each gives its object or
\* nothing, and one invalidation, which nobody is inside during, takes it from
\* all of them.
THEOREM KeepsContract ==
  ASSUME Asserts
  PROVE  Spec => ImplementsContract
<1>1. IInv /\ [Next]_vars => [Contract!Next]_Contract!vars
  BY StepContract, ContractStepIs
<1> QED
  BY <1>1, InitContract, Invariant, PTL DEF Spec, ImplementsContract, Contract!Spec
==============================================================================
