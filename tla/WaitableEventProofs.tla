------------------------- MODULE WaitableEventProofs -------------------------
(***************************************************************************)
(* Proofs about WaitableEvent for any number of threads and events.        *)
(***************************************************************************)
EXTENDS WaitableEvent, FiniteSetTheorems, WellFoundedInduction, TLAPS

------------------------------------------------------------------------------
(* The inductive invariant. *)

\* The events a waiting thread has not yet dequeued itself from.
Remaining(t) == {waitables[t][i] : i \in pos[t] .. Len(waitables[t])}

\* What a thread's place says about its locals.
ShapeOf(t) ==
  /\ pc[t] \in {"signal", "unlock"} =>
       /\ \E e \in Events : waitables[t] = <<e>>
       /\ lock[waitables[t][1]] = t
  /\ pc[t] = "signal" => ~signaled[waitables[t][1]]
  /\ pc[t] \in InWait \cup {"lockMany"} => waitables[t] # <<>>
  /\ pc[t] = "lockMany" => call[t] = "many"
  /\ pc[t] \in InWait /\ call[t] # "many" => Len(waitables[t]) = 1 /\ pos[t] = 1
  /\ pc[t] \notin {"dequeue", "signal", "unlock"} => pos[t] = 1
  /\ pc[t] = "dequeue" => pos[t] \in 1 .. Len(waitables[t])
  /\ pc[t] = "blocked" => ~fired[t]
  /\ pc[t] \notin InWait => ~fired[t] /\ signaling[t] = NoEvent

Shape == \A t \in Threads : ShapeOf(t)

\* Who may own an event's lock.
LockOwners ==
  \A e \in Events : lock[e] # NoThread =>
    \/ pc[lock[e]] \in {"signal", "unlock"} /\ waitables[lock[e]] = <<e>>
    \/ pc[lock[e]] = "lockMany" /\ e \in Range(waitables[lock[e]]) /\ ~signaled[e]

\* A signaled event has no waiters, and nobody is listed twice.
Lists ==
  \A e \in Events : IsInjective(waiters[e]) /\ (signaled[e] => waiters[e] = <<>>)

\* A listed thread still has that list to leave; if the event itself fired
\* it, that was by a SignalAll which is still walking the list.
Walking(e) == e \in Manual /\ lock[e] # NoThread /\ pc[lock[e]] = "signal"

Live ==
  \A e \in Events : \A t \in Range(waiters[e]) :
    /\ pc[t] \in InWait
    /\ e \in Remaining(t)
    /\ signaling[t] = e => Walking(e)

\* A thread that may still go to sleep is in the list of all its events.
Enlisted ==
  \A t \in Threads : pc[t] \in {"check", "blocked", "woken"} /\ ~fired[t] =>
    \A e \in Range(waitables[t]) : t \in Range(waiters[e])

\* SignalAll has fired the waiters it has passed.
Walk ==
  \A s \in Threads : pc[s] = "signal" /\ waitables[s][1] \in Manual =>
    \A i \in 1 .. Len(waiters[waitables[s][1]]) :
      i < pos[s] => fired[waiters[waitables[s][1]][i]]

\* A thread fired by a running Signal cannot pass the event that fired it.
HitWaits ==
  \A s \in Threads : \A w \in hit[s] :
    /\ pc[s] \in {"signal", "unlock"}
    /\ fired[w] /\ pc[w] \in InWait
    /\ waitables[s][1] \in Remaining(w)

\* EnqueueMany goes on only while there is an event left to lock.
LockingOn == \A t \in Threads : pc[t] = "lockMany" => ToLock(t) # {}

IInv ==
  /\ TypeOK /\ Shape /\ LockOwners /\ Lists /\ Live
  /\ Enlisted /\ Walk /\ HitWaits /\ LockingOn

------------------------------------------------------------------------------
(* Lists of threads. *)

\* Appending a thread to a list adds it to the list's elements.
LEMMA AppendList ==
  ASSUME NEW S, NEW q \in Seq(S), NEW x \in S
  PROVE  /\ Append(q, x) \in Seq(S)
         /\ Range(Append(q, x)) = Range(q) \cup {x}
         /\ IsInjective(q) /\ x \notin Range(q) => IsInjective(Append(q, x))
<1>1. Append(q, x) \in Seq(S) /\ Len(Append(q, x)) = Len(q) + 1
  OBVIOUS
<1>2. \A i \in 1 .. Len(q) : Append(q, x)[i] = q[i]
  OBVIOUS
<1>3. Append(q, x)[Len(q) + 1] = x
  OBVIOUS
<1>4. Range(Append(q, x)) = Range(q) \cup {x}
  BY <1>1, <1>2, <1>3 DEF Range
<1>5. ASSUME IsInjective(q), x \notin Range(q) PROVE IsInjective(Append(q, x))
  BY <1>1, <1>2, <1>3, <1>5 DEF Range, IsInjective
<1> QED BY <1>1, <1>4, <1>5

\* The first thread leaves a list without duplicates (SignalOne).
LEMMA TailList ==
  ASSUME NEW S, NEW q \in Seq(S), q # <<>>, IsInjective(q)
  PROVE  /\ Tail(q) \in Seq(S)
         /\ Head(q) \in Range(q)
         /\ Range(Tail(q)) = Range(q) \ {Head(q)}
         /\ IsInjective(Tail(q))
<1>1. /\ Tail(q) \in Seq(S) /\ Len(Tail(q)) = Len(q) - 1
      /\ Head(q) = q[1] /\ Len(q) \in Nat /\ Len(q) >= 1
  OBVIOUS
<1>2. \A i \in 1 .. Len(q) - 1 : Tail(q)[i] = q[i + 1]
  OBVIOUS
<1>3. IsInjective(Tail(q))
  BY <1>1, <1>2 DEF IsInjective
<1>4. Range(Tail(q)) = Range(q) \ {Head(q)}
  <2>1. ASSUME NEW y \in Range(Tail(q)) PROVE y \in Range(q) /\ y # Head(q)
    BY <1>1, <1>2, <2>1 DEF Range, IsInjective
  <2>2. ASSUME NEW y \in Range(q), y # Head(q) PROVE y \in Range(Tail(q))
    <3>1. PICK i \in 1 .. Len(q) : y = q[i]
      BY DEF Range
    <3>2. i - 1 \in DOMAIN Tail(q) /\ Tail(q)[i - 1] = y
      BY <1>1, <1>2, <2>2, <3>1
    <3> QED BY <3>2 DEF Range
  <2> QED BY <2>1, <2>2
<1>5. Head(q) \in Range(q)
  BY <1>1 DEF Range
<1> QED BY <1>1, <1>3, <1>4, <1>5

\* Dequeue removes exactly the given thread from a list without duplicates.
LEMMA DequeueList ==
  ASSUME NEW S, NEW q \in Seq(S), NEW w, IsInjective(q)
  PROVE  /\ Dequeue(q, w) \in Seq(S)
         /\ Range(Dequeue(q, w)) = Range(q) \ {w}
         /\ IsInjective(Dequeue(q, w))
<1>1. CASE w \notin Range(q)
  BY <1>1 DEF Dequeue
<1>2. CASE w \in Range(q)
  <2> DEFINE First(i) == q[i] = w /\ \A j \in 1 .. (i - 1) : q[j] # w
             k == CHOOSE i \in DOMAIN q : First(i)
             d == [i \in 1 .. (Len(q) - 1) |-> IF i < k THEN q[i] ELSE q[i + 1]]
  <2>1. PICK i \in DOMAIN q : q[i] = w
    BY <1>2 DEF Range
  <2>2. First(i)
    BY <2>1 DEF IsInjective
  <2>3. k \in DOMAIN q /\ First(k)
    BY <2>1, <2>2
  <2>4. k \in 1 .. Len(q) /\ q[k] = w /\ Len(q) \in Nat
    BY <2>3
  <2>5. Dequeue(q, w) = d
    BY <1>2 DEF Dequeue
  <2> HIDE DEF k, First
  <2>6. d \in Seq(S) /\ DOMAIN d = 1 .. (Len(q) - 1)
    BY <2>4
  <2>7. IsInjective(d)
    BY <2>4, <2>6 DEF IsInjective
  <2>8. ASSUME NEW y \in Range(d) PROVE y \in Range(q) /\ y # w
    BY <2>4, <2>6, <2>8 DEF Range, IsInjective
  <2>9. ASSUME NEW y \in Range(q), y # w PROVE y \in Range(d)
    <3>1. PICK j \in 1 .. Len(q) : y = q[j]
      BY DEF Range
    <3>2. j # k
      BY <2>4, <2>9, <3>1
    <3>3. CASE j < k
      <4>1. j \in DOMAIN d /\ d[j] = q[j]
        BY <2>4, <2>6, <3>3
      <4> QED BY <3>1, <4>1 DEF Range
    <3>4. CASE j > k
      <4>1. j - 1 \in DOMAIN d /\ d[j - 1] = q[j]
        BY <2>4, <2>6, <3>4
      <4> QED BY <3>1, <4>1 DEF Range
    <3> QED BY <2>4, <3>1, <3>2, <3>3, <3>4
  <2> QED BY <2>5, <2>6, <2>7, <2>8, <2>9
<1> QED BY <1>1, <1>2

\* The entries of a wait-list are threads.
LEMMA Entries ==
  ASSUME NEW q \in Seq(Threads)
  PROVE  /\ Range(q) \subseteq Threads
         /\ \A i \in 1 .. Len(q) : q[i] \in Threads /\ q[i] \in Range(q)
BY DEF Range

\* A signalling thread owns the lock of its own event and no other.
LEMMA OneLock ==
  ASSUME LockOwners, NEW s \in Threads, NEW e \in Events, NEW f \in Events,
         pc[s] \in {"signal", "unlock"}, waitables[s] = <<e>>, lock[f] = s
  PROVE  f = e
<1>1. waitables[s] = <<f>>
  BY EventAssumption DEF LockOwners
<1> QED BY <1>1

\* A non-empty set of addresses has a least element, so sorting an array of
\* events is the same as going on with the least one left.
LEMMA LeastAddress ==
  ASSUME NEW S \in SUBSET Nat, S # {}
  PROVE  \E m \in S : \A n \in S : m <= n
<1>1. PICK m \in S : \A n \in S : ~ (<<n, m>> \in OpToRel(<, Nat))
  BY NatLessThanWellFounded, WFMin
<1>2. ASSUME NEW n \in S PROVE m <= n
  <2>1. <<n, m>> \in Nat \X Nat /\ <<n, m>>[1] = n /\ <<n, m>>[2] = m
    OBVIOUS
  <2>2. ~(n < m)
    BY <1>1, <2>1 DEF OpToRel
  <2> QED BY <2>2
<1> QED BY <1>2

LEMMA NextLockLeast ==
  ASSUME NEW t \in Threads, TypeOK, LockingOn, pc[t] = "lockMany"
  PROVE  /\ NextLock(t) \in ToLock(t)
         /\ \A f \in ToLock(t) : NextLock(t) <= f
         /\ NextLock(t) \in Events /\ NextLock(t) \in Range(waitables[t])
<1>1. ToLock(t) \subseteq Range(waitables[t]) /\ Range(waitables[t]) \subseteq Events
  BY DEF ToLock, Range, TypeOK
<1>2. ToLock(t) \in SUBSET Nat /\ ToLock(t) # {}
  BY <1>1, EventAssumption DEF LockingOn
<1>3. \E e \in ToLock(t) : \A f \in ToLock(t) : e <= f
  BY <1>2, LeastAddress
<1> QED BY <1>1, <1>3 DEF NextLock

LEMMA SignalOneStep ==
  ASSUME IInv, NEW s \in Threads, SignalOne(s)
  PROVE  IInv'
<1> DEFINE e == waitables[s][1]
           w == Head(waiters[e])
<1> USE EventAssumption DEF IInv
<1>1. /\ pc[s] = "signal" /\ waitables[s][1] = e /\ e \in Events \ Manual /\ waitables[s] = <<e>>
      /\ lock[e] = s /\ ~signaled[e]
  BY DEF SignalOne, TypeOK, Shape, ShapeOf
<1>2. /\ waiters[e] \in Seq(Threads) /\ waiters[e] # <<>>
      /\ IsInjective(waiters[e])
      /\ waiters' = [waiters EXCEPT ![e] = Tail(waiters[e])]
      /\ UNCHANGED <<signaled, lock, call, waitables, pos, result, ret>>
  BY <1>1 DEF SignalOne, TypeOK, Lists
<1>3. /\ Tail(waiters[e]) \in Seq(Threads) /\ w \in Range(waiters[e])
      /\ Range(Tail(waiters[e])) = Range(waiters[e]) \ {w}
      /\ IsInjective(Tail(waiters[e]))
  BY <1>2, TailList
<1>4. w \in Threads /\ pc[w] \in InWait /\ w # s /\ e \in Remaining(w)
  <2>1. w \in Threads
    BY <1>2
  <2>2. pc[w] \in InWait /\ e \in Remaining(w)
    BY <1>1, <1>3 DEF Live
  <2> QED BY <1>1, <2>1, <2>2 DEF InWait
<1>5. Fire(s, w, e, "unlock") \/ Refuses(w)
  BY DEF SignalOne
<1> HIDE DEF e, w
<1>51. \A x : Remaining(x)' = Remaining(x)
  BY <1>2 DEF Remaining
<1>52. \A f \in Events :
        /\ Range(waiters'[f]) = IF f = e THEN Range(waiters[e]) \ {w} ELSE Range(waiters[f])
        /\ Range(waiters[f]) \subseteq Threads
  BY <1>1, <1>2, <1>3, Entries DEF TypeOK
<1>6. Lists'
  BY <1>1, <1>2, <1>3 DEF Lists, TypeOK
<1>7. CASE Fire(s, w, e, "unlock")
  <2>1. /\ pc[w] \in {"blocked", "woken", "dequeue"} /\ ~fired[w]
        /\ fired' = [fired EXCEPT ![w] = TRUE]
        /\ signaling' = [signaling EXCEPT ![w] = e]
        /\ pc' = [pc EXCEPT ![s] = "unlock",
                            ![w] = IF pc[w] = "blocked" THEN "woken" ELSE pc[w]]
        /\ hit' = [hit EXCEPT ![s] = hit[s] \cup {w}]
    BY <1>4, <1>7 DEF Fire, WaiterLockFree, InWait, TypeOK
  <2>11. \A x \in Threads : /\ pc'[x] \in InWait <=> pc[x] \in InWait
                            /\ fired[x] => fired'[x]
                            /\ x # w => fired'[x] = fired[x] /\ signaling'[x] = signaling[x]
    BY <1>1, <1>4, <2>1 DEF TypeOK, InWait
  <2>2. TypeOK'
    <3>1. pc' \in [Threads -> Places] /\ hit' \in [Threads -> SUBSET Threads]
      BY <1>1, <1>4, <2>1 DEF TypeOK, Places
    <3>2. /\ fired' \in [Threads -> BOOLEAN]
          /\ signaling' \in [Threads -> Events \cup {NoEvent}]
      BY <1>1, <2>1 DEF TypeOK
    <3>3. waiters' \in [Events -> Seq(Threads)]
      BY <1>2, <1>3 DEF TypeOK
    <3> QED BY <1>2, <3>1, <3>2, <3>3 DEF TypeOK
  <2>3. Shape'
    <3>1. \A x \in Threads : x # s /\ x # w => pc'[x] = pc[x]
      BY <2>1 DEF TypeOK
    <3>2. pc'[s] = "unlock" /\ fired'[s] = fired[s] /\ signaling'[s] = signaling[s]
      BY <1>4, <2>1 DEF TypeOK
    <3>3. pc'[w] \in {"woken", "dequeue"} /\ (pc'[w] = "dequeue" <=> pc[w] = "dequeue")
      BY <1>4, <2>1 DEF TypeOK
    <3> SUFFICES ASSUME NEW x \in Threads PROVE ShapeOf(x)'
      BY DEF Shape
    <3>4. CASE x = s
      BY <1>1, <1>2, <3>2, <3>4 DEF Shape, ShapeOf, InWait
    <3>5. CASE x = w
      BY <1>2, <1>4, <2>1, <2>11, <3>3, <3>5 DEF Shape, ShapeOf, InWait
    <3>6. CASE x # s /\ x # w
      BY <1>2, <2>11, <3>1, <3>6 DEF Shape, ShapeOf
    <3> QED BY <3>4, <3>5, <3>6
  <2>4. LockOwners'
    BY <1>1, <1>2, <1>4, <2>1 DEF LockOwners, TypeOK, InWait
  <2>5. Live'
    <3> SUFFICES ASSUME NEW f \in Events, NEW x \in Range(waiters'[f])
                 PROVE  /\ pc'[x] \in InWait /\ f \in Remaining(x)
                        /\ signaling'[x] = f => Walking(f)'
      BY <1>2, <1>51 DEF Live
    <3>1. x \in Threads /\ x \in Range(waiters[f]) /\ (f = e => x # w)
      BY <1>52
    <3>2. signaling'[x] = f => signaling[x] = f
      BY <2>1, <2>11, <3>1, <1>4 DEF TypeOK
    <3>3. Walking(f) => Walking(f)'
      <4>1. Walking(f) => lock[f] \in Threads /\ lock[f] # w /\ f \in Manual
        BY <1>4 DEF Walking, InWait, TypeOK
      <4>2. Walking(f) => lock[f] # s
        BY <1>1, <4>1, OneLock
      <4> QED BY <1>2, <2>1, <4>1, <4>2 DEF Walking, TypeOK
    <3> QED BY <2>11, <3>1, <3>2, <3>3 DEF Live
  <2>6. Enlisted'
    <3>1. \A x \in Threads : /\ pc'[x] \in {"check", "blocked", "woken"} =>
                                pc[x] \in {"check", "blocked", "woken"}
                             /\ Range(waitables[x]) \subseteq Events
      BY <1>1, <1>4, <2>1 DEF TypeOK, InWait, Range
    <3>2. fired'[w]
      BY <1>4, <2>1 DEF TypeOK
    <3> SUFFICES ASSUME NEW x \in Threads, pc'[x] \in {"check", "blocked", "woken"},
                        ~fired'[x], NEW f \in Range(waitables[x])
                 PROVE  x \in Range(waiters'[f])
      BY <1>2 DEF Enlisted
    <3>3. x # w /\ f \in Events /\ x \in Range(waiters[f])
      BY <2>11, <3>1, <3>2 DEF Enlisted
    <3> QED BY <1>52, <3>3
  <2>7. Walk'
    <3> SUFFICES ASSUME NEW r \in Threads, pc'[r] = "signal", waitables[r][1] \in Manual,
                        NEW i \in 1 .. Len(waiters'[waitables[r][1]]), i < pos[r]
                 PROVE  fired'[waiters'[waitables[r][1]][i]]
      BY <1>2 DEF Walk
    <3>1. pc[r] = "signal" /\ waiters'[waitables[r][1]] = waiters[waitables[r][1]]
      BY <1>1, <1>2, <1>4, <2>1 DEF TypeOK, InWait
    <3>2. waiters[waitables[r][1]] \in Seq(Threads)
      BY DEF TypeOK
    <3>3. waiters[waitables[r][1]][i] \in Threads
      BY <3>1, <3>2
    <3> QED BY <2>11, <3>1, <3>3 DEF Walk
  <2>8. HitWaits'
    <3> SUFFICES ASSUME NEW r \in Threads, NEW x \in hit'[r]
                 PROVE  /\ pc'[r] \in {"signal", "unlock"}
                        /\ fired'[x] /\ pc'[x] \in InWait
                        /\ waitables[r][1] \in Remaining(x)
      BY <1>2, <1>51 DEF HitWaits
    <3>1. CASE x \in hit[r]
      <4>1. pc[r] \in {"signal", "unlock"} /\ fired[x] /\ pc[x] \in InWait /\ x \in Threads
            /\ waitables[r][1] \in Remaining(x)
        BY <3>1 DEF HitWaits, TypeOK
      <4>2. r # w
        BY <1>4, <4>1 DEF InWait
      <4> QED BY <1>1, <2>1, <2>11, <4>1, <4>2 DEF TypeOK
    <3>2. CASE r = s /\ x = w
      <4>1. pc'[s] = "unlock" /\ fired'[w]
        BY <1>1, <1>4, <2>1 DEF TypeOK
      <4> QED BY <1>1, <1>4, <2>11, <3>2, <4>1
    <3> QED BY <2>1, <3>1, <3>2 DEF TypeOK
  <2>9. LockingOn'
    <3>1. \A x \in Threads : pc'[x] = "lockMany" => pc[x] = "lockMany"
      BY <1>4, <2>1 DEF TypeOK
    <3> QED BY <1>2, <3>1 DEF LockingOn, ToLock, Held
  <2> QED BY <1>6, <2>2, <2>3, <2>4, <2>5, <2>6, <2>7, <2>8, <2>9
<1>8. CASE Refuses(w)
  <2>1. fired[w] /\ UNCHANGED <<fired, signaling, pc, hit>>
    BY <1>8 DEF Refuses
  <2>2. TypeOK'
    BY <1>1, <1>2, <1>3, <2>1 DEF TypeOK
  <2>3. Shape'
    BY <1>2, <2>1 DEF Shape, ShapeOf, InWait
  <2>4. LockOwners'
    BY <1>2, <2>1 DEF LockOwners
  <2>5. Live'
    <3>1. \A f \in Events : Range(waiters'[f]) \subseteq Range(waiters[f])
                            /\ Walking(f)' = Walking(f)
      BY <1>2, <1>52, <2>1 DEF Walking
    <3> QED BY <1>2, <1>51, <2>1, <3>1 DEF Live
  <2>6. Enlisted'
    BY <1>1, <1>2, <1>3, <1>4, <2>1 DEF Enlisted, TypeOK
  <2>7. Walk'
    BY <1>1, <1>2, <2>1 DEF Walk, TypeOK
  <2>8. HitWaits'
    BY <1>2, <2>1 DEF HitWaits, Remaining
  <2>9. LockingOn'
    BY <1>2, <2>1 DEF LockingOn, ToLock, Held
  <2> QED BY <1>6, <2>2, <2>3, <2>4, <2>5, <2>6, <2>7, <2>8, <2>9
<1> QED BY <1>5, <1>7, <1>8

LEMMA SignalAllStep ==
  ASSUME IInv, NEW s \in Threads, SignalAll(s)
  PROVE  IInv'
<1> DEFINE e == waitables[s][1]
           w == waiters[e][pos[s]]
<1> USE EventAssumption DEF IInv
<1>1. /\ pc[s] = "signal" /\ waitables[s][1] = e /\ e \in Events \cap Manual
      /\ waitables[s] = <<e>> /\ lock[e] = s /\ ~signaled[e]
  BY DEF SignalAll, TypeOK, Shape, ShapeOf
<1>2. /\ waiters[e] \in Seq(Threads) /\ pos[s] \in 1 .. Len(waiters[e])
      /\ pos' = [pos EXCEPT ![s] = pos[s] + 1]
      /\ UNCHANGED <<signaled, waiters, lock, call, waitables, result, ret>>
  BY <1>1 DEF SignalAll, TypeOK, kernel
<1>3. w \in Threads /\ w \in Range(waiters[e])
  BY <1>2, Entries
<1>4. pc[w] \in InWait /\ w # s /\ e \in Remaining(w)
  <2>1. pc[w] \in InWait /\ e \in Remaining(w)
    BY <1>1, <1>3 DEF Live
  <2> QED BY <1>1, <2>1 DEF InWait
<1>5. Fire(s, w, e, "signal") \/ Refuses(w)
  BY DEF SignalAll
<1> HIDE DEF e, w
<1>6. Lists'
  BY <1>2 DEF Lists
<1>7. \A x \in Threads : x # s => pos'[x] = pos[x] /\ Remaining(x)' = Remaining(x)
  BY <1>2 DEF Remaining, TypeOK
<1>8. CASE Fire(s, w, e, "signal")
  <2>1. /\ pc[w] \in {"blocked", "woken", "dequeue"} /\ ~fired[w]
        /\ fired' = [fired EXCEPT ![w] = TRUE]
        /\ signaling' = [signaling EXCEPT ![w] = e]
        /\ pc' = [pc EXCEPT ![w] = IF pc[w] = "blocked" THEN "woken" ELSE pc[w]]
        /\ hit' = [hit EXCEPT ![s] = hit[s] \cup {w}]
    BY <1>1, <1>3, <1>4, <1>8 DEF Fire, WaiterLockFree, InWait, TypeOK
  <2>2. \A x \in Threads : /\ pc'[x] \in InWait <=> pc[x] \in InWait
                           /\ fired[x] => fired'[x]
                           /\ x # w => /\ fired'[x] = fired[x]
                                       /\ signaling'[x] = signaling[x]
                                       /\ pc'[x] = pc[x]
    BY <1>1, <1>3, <1>4, <2>1 DEF TypeOK, InWait
  <2>3. fired'[w] /\ signaling'[w] = e
    BY <1>3, <2>1 DEF TypeOK
  <2>4. TypeOK'
    <3>1. pc' \in [Threads -> Places]
      BY <1>3, <2>1 DEF TypeOK, Places
    <3>2. /\ fired' \in [Threads -> BOOLEAN]
          /\ signaling' \in [Threads -> Events \cup {NoEvent}]
          /\ hit' \in [Threads -> SUBSET Threads]
      BY <1>1, <1>3, <2>1 DEF TypeOK
    <3>3. pos' \in [Threads -> Nat \ {0}]
      BY <1>2 DEF TypeOK
    <3> QED BY <1>2, <3>1, <3>2, <3>3 DEF TypeOK
  <2>5. Shape'
    <3>1. /\ pc'[w] \in {"woken", "dequeue"}
          /\ pc'[w] = "dequeue" <=> pc[w] = "dequeue"
      BY <1>3, <2>1 DEF TypeOK
    <3> SUFFICES ASSUME NEW x \in Threads PROVE ShapeOf(x)'
      BY DEF Shape
    <3>2. CASE x = s
      BY <1>1, <1>2, <1>4, <2>2, <3>2 DEF Shape, ShapeOf, InWait
    <3>3. CASE x = w
      BY <1>2, <1>4, <1>7, <2>1, <2>2, <3>1, <3>3 DEF Shape, ShapeOf, InWait
    <3>4. CASE x # s /\ x # w
      BY <1>2, <1>7, <2>2, <3>4 DEF Shape, ShapeOf
    <3> QED BY <3>2, <3>3, <3>4
  <2>6. LockOwners'
    BY <1>1, <1>2, <1>3, <1>4, <2>1 DEF LockOwners, TypeOK, InWait
  <2>7. Live'
    <3> SUFFICES ASSUME NEW f \in Events, NEW x \in Range(waiters[f])
                 PROVE  /\ pc'[x] \in InWait /\ f \in Remaining(x)'
                        /\ signaling'[x] = f => Walking(f)'
      BY <1>2 DEF Live
    <3>1. x \in Threads
      BY Entries DEF TypeOK
    <3>2. pc[x] \in InWait /\ f \in Remaining(x) /\ (signaling[x] = f => Walking(f))
      BY DEF Live
    <3>3. x # s
      BY <1>1, <3>2 DEF InWait
    <3>6. Walking(f) => Walking(f)'
      <4>1. Walking(f) => lock[f] \in Threads /\ lock[f] # w
        BY <1>4 DEF Walking, InWait, TypeOK
      <4> QED BY <1>2, <2>2, <4>1 DEF Walking
    <3>4. CASE x = w
      <4>1. f = e => Walking(f)'
        BY <1>1, <1>2, <1>4, <2>2 DEF Walking
      <4> QED BY <1>7, <2>2, <2>3, <3>1, <3>2, <3>3, <3>4, <4>1
    <3>5. CASE x # w
      BY <1>7, <2>2, <3>1, <3>2, <3>3, <3>5, <3>6
    <3> QED BY <3>4, <3>5
  <2>8. Enlisted'
    <3> SUFFICES ASSUME NEW x \in Threads, pc'[x] \in {"check", "blocked", "woken"},
                        ~fired'[x], NEW f \in Range(waitables[x])
                 PROVE  x \in Range(waiters[f])
      BY <1>2 DEF Enlisted
    <3> QED BY <2>2, <2>3 DEF Enlisted
  <2>9. Walk'
    <3> SUFFICES ASSUME NEW r \in Threads, pc'[r] = "signal", waitables[r][1] \in Manual,
                        NEW i \in 1 .. Len(waiters[waitables[r][1]]), i < pos'[r]
                 PROVE  fired'[waiters[waitables[r][1]][i]]
      BY <1>2 DEF Walk
    <3>1. r # w /\ pc[r] = "signal"
      BY <1>4, <2>2, <1>3 DEF InWait
    <3>2. waiters[waitables[r][1]] \in Seq(Threads)
      BY DEF TypeOK
    <3>3. waiters[waitables[r][1]][i] \in Threads
      BY <3>2
    <3>4. CASE r = s /\ i = pos[s]
      BY <1>1, <2>3, <3>4 DEF w
    <3>5. CASE r # s \/ i < pos[s]
      <4>1. i < pos[r]
        BY <1>7, <3>5
      <4> QED BY <2>2, <3>1, <3>3, <4>1 DEF Walk
    <3> QED BY <1>2, <3>4, <3>5 DEF TypeOK
  <2>10. HitWaits'
    <3> SUFFICES ASSUME NEW r \in Threads, NEW x \in hit'[r]
                 PROVE  /\ pc'[r] \in {"signal", "unlock"}
                        /\ fired'[x] /\ pc'[x] \in InWait
                        /\ waitables[r][1] \in Remaining(x)'
      BY <1>2 DEF HitWaits
    <3>1. CASE x \in hit[r]
      <4>1. pc[r] \in {"signal", "unlock"} /\ fired[x] /\ pc[x] \in InWait /\ x \in Threads
            /\ waitables[r][1] \in Remaining(x)
        BY <3>1 DEF HitWaits, TypeOK
      <4>2. r # w /\ x # s
        BY <1>1, <1>4, <4>1 DEF InWait
      <4> QED BY <1>7, <2>2, <4>1, <4>2
    <3>2. CASE r = s /\ x = w
      BY <1>1, <1>3, <1>4, <1>7, <2>2, <2>3, <3>2
    <3> QED BY <2>1, <3>1, <3>2 DEF TypeOK
  <2>11. LockingOn'
    BY <1>1, <1>2, <1>4, <2>2 DEF LockingOn, ToLock, Held, InWait
  <2> QED BY <1>6, <2>4, <2>5, <2>6, <2>7, <2>8, <2>9, <2>10, <2>11
<1>9. CASE Refuses(w)
  <2>1. fired[w] /\ UNCHANGED <<fired, signaling, pc, hit>>
    BY <1>9 DEF Refuses
  <2>2. TypeOK'
    <3>1. pos' \in [Threads -> Nat \ {0}]
      BY <1>2 DEF TypeOK
    <3> QED BY <1>2, <2>1, <3>1 DEF TypeOK
  <2>3. Shape'
    <3> SUFFICES ASSUME NEW x \in Threads PROVE ShapeOf(x)'
      BY DEF Shape
    <3>1. CASE x = s
      BY <1>1, <1>2, <2>1, <3>1 DEF Shape, ShapeOf, InWait
    <3>2. CASE x # s
      BY <1>2, <1>7, <2>1, <3>2 DEF Shape, ShapeOf
    <3> QED BY <3>1, <3>2
  <2>4. LockOwners'
    BY <1>2, <2>1 DEF LockOwners
  <2>5. Live'
    <3> SUFFICES ASSUME NEW f \in Events, NEW x \in Range(waiters[f])
                 PROVE  /\ pc[x] \in InWait /\ f \in Remaining(x)'
                        /\ signaling[x] = f => Walking(f)'
      BY <1>2, <2>1 DEF Live
    <3>1. x \in Threads
      BY Entries DEF TypeOK
    <3>2. pc[x] \in InWait /\ f \in Remaining(x) /\ (signaling[x] = f => Walking(f))
      BY DEF Live
    <3>3. x # s
      BY <1>1, <3>2 DEF InWait
    <3>4. Walking(f) => Walking(f)'
      BY <1>2, <2>1 DEF Walking
    <3> QED BY <1>7, <3>1, <3>2, <3>3, <3>4
  <2>6. Enlisted'
    BY <1>2, <2>1 DEF Enlisted
  <2>7. Walk'
    <3> SUFFICES ASSUME NEW r \in Threads, pc[r] = "signal", waitables[r][1] \in Manual,
                        NEW i \in 1 .. Len(waiters[waitables[r][1]]), i < pos'[r]
                 PROVE  fired[waiters[waitables[r][1]][i]]
      BY <1>2, <2>1 DEF Walk
    <3>1. CASE r = s /\ i = pos[s]
      BY <1>1, <2>1, <3>1 DEF w
    <3>2. CASE r # s \/ i < pos[s]
      <4>1. i < pos[r]
        BY <1>7, <3>2
      <4> QED BY <4>1 DEF Walk
    <3> QED BY <1>2, <3>1, <3>2 DEF TypeOK
  <2>8. HitWaits'
    <3> SUFFICES ASSUME NEW r \in Threads, NEW x \in hit[r]
                 PROVE  /\ pc[r] \in {"signal", "unlock"}
                        /\ fired[x] /\ pc[x] \in InWait
                        /\ waitables[r][1] \in Remaining(x)'
      BY <1>2, <2>1 DEF HitWaits
    <3>1. pc[r] \in {"signal", "unlock"} /\ fired[x] /\ pc[x] \in InWait /\ x \in Threads
          /\ waitables[r][1] \in Remaining(x)
      BY DEF HitWaits, TypeOK
    <3>2. x # s
      BY <1>1, <3>1 DEF InWait
    <3> QED BY <1>7, <3>1, <3>2
  <2>9. LockingOn'
    BY <1>2, <2>1 DEF LockingOn, ToLock, Held
  <2> QED BY <1>6, <2>2, <2>3, <2>4, <2>5, <2>6, <2>7, <2>8, <2>9
<1> QED BY <1>5, <1>8, <1>9

LEMMA SignalEndStep ==
  ASSUME IInv, NEW s \in Threads, SignalEnd(s)
  PROVE  IInv'
<1> DEFINE e == waitables[s][1]
<1> USE EventAssumption DEF IInv
<1>1. /\ pc[s] = "signal" /\ waitables[s][1] = e /\ e \in Events
      /\ waitables[s] = <<e>> /\ lock[e] = s /\ ~signaled[e]
  BY DEF SignalEnd, TypeOK, Shape, ShapeOf
<1>2. /\ waiters' = [waiters EXCEPT ![e] = <<>>]
      /\ signaled' = [signaled EXCEPT ![e] = TRUE]
      /\ pc' = [pc EXCEPT ![s] = "unlock"]
      /\ UNCHANGED <<lock, call, waitables, pos, fired, signaling, result, ret, hit>>
  BY DEF SignalEnd, waiter
<1>3. \A x \in Range(waiters[e]) : fired[x]
  <2>1. CASE e \in Manual
    <3> SUFFICES ASSUME NEW x \in Range(waiters[e]) PROVE fired[x]
      OBVIOUS
    <3>1. PICK i \in 1 .. Len(waiters[e]) : x = waiters[e][i]
      <4>1. waiters[e] \in Seq(Threads)
        BY <1>1 DEF TypeOK
      <4> QED BY <4>1 DEF Range
    <3>2. i < pos[s]
      BY <2>1, <1>1 DEF SignalEnd, TypeOK
    <3> QED BY <1>1, <2>1, <3>1, <3>2 DEF Walk
  <2>2. CASE e \notin Manual
    BY <2>2 DEF SignalEnd, Range
  <2> QED BY <2>1, <2>2
<1> HIDE DEF e
<1>4. \A f \in Events : /\ waiters'[f] = IF f = e THEN <<>> ELSE waiters[f]
                        /\ f # e => signaled'[f] = signaled[f]
  BY <1>2 DEF TypeOK
<1>5. Range(<<>>) = {}
  BY DEF Range
<1>6. \A x \in Threads : /\ x # s => pc'[x] = pc[x]
                         /\ Remaining(x)' = Remaining(x)
                         /\ pc'[x] \in InWait <=> pc[x] \in InWait
  BY <1>1, <1>2 DEF TypeOK, Remaining, InWait
<1>7. TypeOK'
  BY <1>1, <1>2 DEF TypeOK, Places
<1>8. Shape'
  <2> SUFFICES ASSUME NEW x \in Threads PROVE ShapeOf(x)'
    BY DEF Shape
  <2>1. CASE x = s
    BY <1>1, <1>2, <2>1 DEF Shape, ShapeOf, InWait, TypeOK
  <2>2. CASE x # s
    <3>1. ShapeOf(x) /\ pc'[x] = pc[x]
      BY <1>6, <2>2 DEF Shape
    <3>2. pc[x] = "signal" => waitables[x][1] \in Events /\ waitables[x][1] # e
      BY <1>1, <2>2, <3>1 DEF ShapeOf
    <3> QED BY <1>2, <1>4, <3>1, <3>2 DEF ShapeOf
  <2> QED BY <2>1, <2>2
<1>9. LockOwners'
  BY <1>1, <1>2, <1>4 DEF LockOwners, TypeOK
<1>10. Lists'
  BY <1>1, <1>4 DEF Lists, IsInjective, TypeOK
<1>11. Live'
  <2> SUFFICES ASSUME NEW f \in Events, NEW x \in Range(waiters'[f])
               PROVE  /\ pc'[x] \in InWait /\ f \in Remaining(x)'
                      /\ signaling[x] = f => Walking(f)'
    BY <1>2 DEF Live
  <2>1. f # e /\ x \in Threads /\ x \in Range(waiters[f])
    BY <1>4, <1>5, Entries DEF TypeOK
  <2>2. Walking(f) => Walking(f)'
    <3>1. Walking(f) => lock[f] \in Threads /\ lock[f] # s
      BY <1>1, <2>1, OneLock DEF Walking, TypeOK
    <3> QED BY <1>2, <1>6, <3>1 DEF Walking
  <2> QED BY <1>6, <2>1, <2>2 DEF Live
<1>12. Enlisted'
  <2> SUFFICES ASSUME NEW x \in Threads, pc'[x] \in {"check", "blocked", "woken"},
                      ~fired[x], NEW f \in Range(waitables[x])
               PROVE  x \in Range(waiters'[f])
    BY <1>2 DEF Enlisted
  <2>1. x # s
    BY <1>2 DEF TypeOK
  <2>2. f \in Events
    BY DEF TypeOK, Range
  <2>3. x \in Range(waiters[f])
    BY <1>6, <2>1 DEF Enlisted
  <2> QED BY <1>3, <1>4, <2>2, <2>3
<1>13. Walk'
  <2> SUFFICES ASSUME NEW r \in Threads, pc'[r] = "signal", waitables[r][1] \in Manual,
                      NEW i \in 1 .. Len(waiters'[waitables[r][1]]), i < pos[r]
               PROVE  fired[waiters'[waitables[r][1]][i]]
    BY <1>2 DEF Walk
  <2>1. r # s /\ pc[r] = "signal"
    BY <1>2 DEF TypeOK
  <2>2. waitables[r][1] # e
    BY <1>1, <2>1 DEF Shape, ShapeOf
  <2> QED BY <1>4, <2>1, <2>2 DEF Walk
<1>14. HitWaits'
  BY <1>1, <1>2, <1>6 DEF HitWaits, TypeOK
<1>15. LockingOn'
  BY <1>1, <1>2 DEF LockingOn, ToLock, Held, TypeOK
<1> QED BY <1>7, <1>8, <1>9, <1>10, <1>11, <1>12, <1>13, <1>14, <1>15

LEMMA SignalUnlockStep ==
  ASSUME IInv, NEW s \in Threads, SignalUnlock(s)
  PROVE  IInv'
<1> DEFINE e == waitables[s][1]
<1> USE EventAssumption DEF IInv
<1>1. /\ pc[s] = "unlock" /\ waitables[s][1] = e /\ e \in Events
      /\ waitables[s] = <<e>> /\ lock[e] = s
  BY DEF SignalUnlock, TypeOK, Shape, ShapeOf
<1>2. /\ lock' = [lock EXCEPT ![e] = NoThread]
      /\ pc' = [pc EXCEPT ![s] = "idle"]
      /\ call' = [call EXCEPT ![s] = "none"]
      /\ waitables' = [waitables EXCEPT ![s] = <<>>]
      /\ pos' = [pos EXCEPT ![s] = 1]
      /\ hit' = [hit EXCEPT ![s] = {}]
      /\ UNCHANGED <<signaled, waiters, fired, signaling, result, ret>>
  BY DEF SignalUnlock, waiter
<1> HIDE DEF e
<1>3. \A x \in Threads : x # s => /\ pc'[x] = pc[x] /\ pos'[x] = pos[x]
                                  /\ waitables'[x] = waitables[x]
                                  /\ call'[x] = call[x] /\ hit'[x] = hit[x]
                                  /\ Remaining(x)' = Remaining(x)
  BY <1>2 DEF TypeOK, Remaining
<1>4. \A f \in Events : f # e => lock'[f] = lock[f] /\ lock[f] # s
  BY <1>1, <1>2, OneLock DEF TypeOK
<1>5. pc'[s] = "idle" /\ waitables'[s] = <<>> /\ pos'[s] = 1 /\ hit'[s] = {}
  BY <1>2 DEF TypeOK
<1>6. lock'[e] = NoThread
  BY <1>1, <1>2 DEF TypeOK
<1>7. TypeOK'
  BY <1>1, <1>2 DEF TypeOK, Places, Calls
<1>8. Shape'
  <2> SUFFICES ASSUME NEW x \in Threads PROVE ShapeOf(x)'
    BY DEF Shape
  <2>1. CASE x = s
    BY <1>1, <1>2, <1>5, <2>1 DEF Shape, ShapeOf, InWait
  <2>2. CASE x # s
    <3>1. ShapeOf(x)
      BY DEF Shape
    <3>2. pc[x] \in {"signal", "unlock"} => waitables[x][1] \in Events /\ waitables[x][1] # e
      BY <1>1, <2>2, <3>1 DEF ShapeOf
    <3> QED BY <1>2, <1>3, <1>4, <2>2, <3>1, <3>2 DEF ShapeOf
  <2> QED BY <2>1, <2>2
<1>9. LockOwners'
  <2> SUFFICES ASSUME NEW f \in Events, lock'[f] # NoThread
               PROVE  \/ /\ pc'[lock'[f]] \in {"signal", "unlock"}
                         /\ waitables'[lock'[f]] = <<f>>
                      \/ /\ pc'[lock'[f]] = "lockMany" /\ ~signaled[f]
                         /\ f \in Range(waitables'[lock'[f]])
    BY <1>2 DEF LockOwners
  <2>1. f # e /\ lock'[f] = lock[f] /\ lock[f] # s /\ lock[f] \in Threads
    BY <1>4, <1>6 DEF TypeOK
  <2>2. \/ pc[lock[f]] \in {"signal", "unlock"} /\ waitables[lock[f]] = <<f>>
        \/ pc[lock[f]] = "lockMany" /\ f \in Range(waitables[lock[f]]) /\ ~signaled[f]
    BY <2>1 DEF LockOwners
  <2> QED BY <1>3, <2>1, <2>2
<1>10. Lists'
  BY <1>2 DEF Lists
<1>11. Live'
  <2> SUFFICES ASSUME NEW f \in Events, NEW x \in Range(waiters[f])
               PROVE  /\ pc'[x] \in InWait /\ f \in Remaining(x)'
                      /\ signaling[x] = f => Walking(f)'
    BY <1>2 DEF Live
  <2>1. x \in Threads /\ x # s
    BY <1>1, Entries DEF TypeOK, Live, InWait
  <2>2. Walking(f) => Walking(f)'
    <3>1. Walking(f) => f # e /\ lock[f] \in Threads
      BY <1>1 DEF Walking, TypeOK
    <3> QED BY <1>3, <1>4, <3>1 DEF Walking
  <2> QED BY <1>3, <2>1, <2>2 DEF Live
<1>12. Enlisted'
  <2> SUFFICES ASSUME NEW x \in Threads, pc'[x] \in {"check", "blocked", "woken"},
                      ~fired[x], NEW f \in Range(waitables'[x])
               PROVE  x \in Range(waiters[f])
    BY <1>2 DEF Enlisted
  <2> QED BY <1>3, <1>5 DEF Enlisted
<1>13. Walk'
  <2> SUFFICES ASSUME NEW r \in Threads, pc'[r] = "signal", waitables'[r][1] \in Manual,
                      NEW i \in 1 .. Len(waiters[waitables'[r][1]]), i < pos'[r]
               PROVE  fired[waiters[waitables'[r][1]][i]]
    BY <1>2 DEF Walk
  <2> QED BY <1>3, <1>5 DEF Walk
<1>14. HitWaits'
  <2> SUFFICES ASSUME NEW r \in Threads, NEW x \in hit'[r]
               PROVE  /\ pc'[r] \in {"signal", "unlock"}
                      /\ fired[x] /\ pc'[x] \in InWait
                      /\ waitables'[r][1] \in Remaining(x)'
    BY <1>2 DEF HitWaits
  <2>1. r # s /\ x \in hit[r]
    BY <1>3, <1>5
  <2>2. x \in Threads /\ x # s
    BY <1>1, <2>1 DEF HitWaits, InWait, TypeOK
  <2> QED BY <1>3, <2>1, <2>2 DEF HitWaits
<1>15. LockingOn'
  <2> SUFFICES ASSUME NEW x \in Threads, pc'[x] = "lockMany" PROVE ToLock(x)' # {}
    BY DEF LockingOn
  <2>1. x # s /\ pc[x] = "lockMany" /\ waitables'[x] = waitables[x]
    BY <1>3, <1>5
  <2>2. Held(x)' = Held(x)
    BY <1>1, <1>4, <1>6, <2>1, EventAssumption DEF Held
  <2> QED BY <2>1, <2>2 DEF LockingOn, ToLock
<1> QED BY <1>7, <1>8, <1>9, <1>10, <1>11, <1>12, <1>13, <1>14, <1>15

LEMMA SignalStep ==
  ASSUME IInv, NEW s \in Threads, NEW e \in Events, Signal(s, e)
  PROVE  IInv'
<1> USE EventAssumption DEF IInv
<1>1. /\ pc[s] = "idle" /\ lock[e] = NoThread /\ ~signaled[e]
      /\ lock' = [lock EXCEPT ![e] = s]
      /\ pc' = [pc EXCEPT ![s] = "signal"]
      /\ call' = [call EXCEPT ![s] = "signal"]
      /\ waitables' = [waitables EXCEPT ![s] = <<e>>]
      /\ ret' = [ret EXCEPT ![s] = NoEvent]
      /\ UNCHANGED <<signaled, waiters, pos, fired, signaling, result, hit>>
  BY DEF Signal, NoAnswer, waiter
<1>2. \A x \in Threads : x # s => /\ pc'[x] = pc[x] /\ waitables'[x] = waitables[x]
                                  /\ call'[x] = call[x]
                                  /\ Remaining(x)' = Remaining(x)
  BY <1>1 DEF TypeOK, Remaining
<1>3. pc'[s] = "signal" /\ waitables'[s] = <<e>> /\ pos[s] = 1 /\ lock'[e] = s
  <2>1. pos[s] = 1
    BY <1>1 DEF Shape, ShapeOf
  <2> QED BY <1>1, <2>1 DEF TypeOK
<1>4. \A f \in Events : f # e => lock'[f] = lock[f] /\ lock[f] # s
  BY <1>1 DEF TypeOK, LockOwners
<1>5. TypeOK'
  BY <1>1 DEF TypeOK, Places, Calls
<1>6. Shape'
  <2> SUFFICES ASSUME NEW x \in Threads PROVE ShapeOf(x)'
    BY DEF Shape
  <2>1. CASE x = s
    BY <1>1, <1>3, <2>1 DEF Shape, ShapeOf, InWait
  <2>2. CASE x # s
    <3>1. pc[x] \in {"signal", "unlock"} => waitables[x][1] # e /\ waitables[x][1] \in Events
      BY <1>1, <2>2 DEF Shape, ShapeOf
    <3> QED BY <1>1, <1>2, <1>4, <2>2, <3>1 DEF Shape, ShapeOf
  <2> QED BY <2>1, <2>2
<1>7. LockOwners'
  <2> SUFFICES ASSUME NEW f \in Events, lock'[f] # NoThread
               PROVE  \/ /\ pc'[lock'[f]] \in {"signal", "unlock"}
                         /\ waitables'[lock'[f]] = <<f>>
                      \/ /\ pc'[lock'[f]] = "lockMany" /\ ~signaled[f]
                         /\ f \in Range(waitables'[lock'[f]])
    BY <1>1 DEF LockOwners
  <2>1. CASE f = e
    BY <1>3, <2>1
  <2>2. CASE f # e
    <3>1. lock'[f] = lock[f] /\ lock[f] \in Threads /\ lock[f] # s
      BY <1>4, <2>2 DEF TypeOK
    <3> QED BY <1>2, <3>1 DEF LockOwners
  <2> QED BY <2>1, <2>2
<1>8. Lists'
  BY <1>1 DEF Lists
<1>9. Live'
  <2> SUFFICES ASSUME NEW f \in Events, NEW x \in Range(waiters[f])
               PROVE  /\ pc'[x] \in InWait /\ f \in Remaining(x)'
                      /\ signaling[x] = f => Walking(f)'
    BY <1>1 DEF Live
  <2>1. x \in Threads /\ x # s
    BY <1>1, Entries DEF TypeOK, Live, InWait
  <2>2. Walking(f) => Walking(f)'
    <3>1. Walking(f) => f # e /\ lock[f] \in Threads
      BY <1>1 DEF Walking, TypeOK
    <3> QED BY <1>2, <1>4, <3>1 DEF Walking
  <2> QED BY <1>2, <2>1, <2>2 DEF Live
<1>10. Enlisted'
  <2> SUFFICES ASSUME NEW x \in Threads, pc'[x] \in {"check", "blocked", "woken"},
                      ~fired[x], NEW f \in Range(waitables'[x])
               PROVE  x \in Range(waiters[f])
    BY <1>1 DEF Enlisted
  <2> QED BY <1>2, <1>3 DEF Enlisted
<1>11. Walk'
  <2> SUFFICES ASSUME NEW r \in Threads, pc'[r] = "signal", waitables'[r][1] \in Manual,
                      NEW i \in 1 .. Len(waiters[waitables'[r][1]]), i < pos[r]
               PROVE  fired[waiters[waitables'[r][1]][i]]
    BY <1>1 DEF Walk
  <2>1. r # s
    BY <1>3
  <2> QED BY <1>2, <2>1 DEF Walk
<1>12. HitWaits'
  <2> SUFFICES ASSUME NEW r \in Threads, NEW x \in hit[r]
               PROVE  /\ pc'[r] \in {"signal", "unlock"}
                      /\ fired[x] /\ pc'[x] \in InWait
                      /\ waitables'[r][1] \in Remaining(x)'
    BY <1>1 DEF HitWaits
  <2>1. r # s /\ x \in Threads /\ x # s
    BY <1>1 DEF HitWaits, InWait, TypeOK
  <2> QED BY <1>2, <2>1 DEF HitWaits
<1>13. LockingOn'
  <2> SUFFICES ASSUME NEW x \in Threads, pc'[x] = "lockMany" PROVE ToLock(x)' # {}
    BY DEF LockingOn
  <2>1. x # s /\ pc[x] = "lockMany" /\ waitables'[x] = waitables[x]
    BY <1>2, <1>3
  <2>2. Held(x)' = Held(x)
    BY <1>1, <1>3, <1>4, <2>1 DEF Held
  <2> QED BY <2>1, <2>2 DEF LockingOn, ToLock
<1> QED BY <1>5, <1>6, <1>7, <1>8, <1>9, <1>10, <1>11, <1>12, <1>13

\* The two ways into the wait loop: thread s joins the lists of its events,
\* none of which is signaled, while nobody else owns their locks.
LEMMA JoinStep ==
  ASSUME IInv, NEW s \in Threads, NEW c \in Calls, NEW a \in Seq(Events),
         a # <<>>, c # "many" => Len(a) = 1,
         pc[s] \notin InWait \cup {"signal", "unlock"},
         \A f \in Range(a) : ~signaled[f] /\ lock[f] \in {NoThread, s},
         waiters' = [f \in Events |-> IF f \in Range(a) THEN Append(waiters[f], s)
                                      ELSE waiters[f]],
         lock' = [f \in Events |-> IF lock[f] = s THEN NoThread ELSE lock[f]],
         pc' = [pc EXCEPT ![s] = "check"],
         call' = [call EXCEPT ![s] = c],
         waitables' = [waitables EXCEPT ![s] = a],
         ret' \in [Threads -> Events \cup {NoEvent}],
         UNCHANGED <<signaled, pos, fired, signaling, result, hit>>
  PROVE  IInv'
<1> USE EventAssumption DEF IInv
<1>1. \A x \in Threads : x # s => /\ pc'[x] = pc[x] /\ waitables'[x] = waitables[x]
                                  /\ call'[x] = call[x]
                                  /\ Remaining(x)' = Remaining(x)
  BY DEF TypeOK, Remaining
<1>2. /\ pc'[s] = "check" /\ waitables'[s] = a /\ pos[s] = 1 /\ call'[s] = c
      /\ ~fired[s] /\ signaling[s] = NoEvent
  BY DEF TypeOK, Shape, ShapeOf, InWait
<1>3. Range(a) \subseteq Events /\ Remaining(s)' = Range(a)
  BY <1>2 DEF Range, Remaining
<1>4. \A f \in Events :
        /\ waiters[f] \in Seq(Threads) /\ Range(waiters[f]) \subseteq Threads
        /\ IsInjective(waiters[f]) /\ s \notin Range(waiters[f])
  BY Entries DEF TypeOK, Lists, Live
<1>5. \A f \in Events :
        /\ waiters'[f] \in Seq(Threads) /\ IsInjective(waiters'[f])
        /\ Range(waiters'[f]) = IF f \in Range(a) THEN Range(waiters[f]) \cup {s}
                                ELSE Range(waiters[f])
  <2> SUFFICES ASSUME NEW f \in Events
               PROVE  /\ waiters'[f] \in Seq(Threads) /\ IsInjective(waiters'[f])
                      /\ Range(waiters'[f]) = IF f \in Range(a) THEN Range(waiters[f]) \cup {s}
                                              ELSE Range(waiters[f])
    OBVIOUS
  <2>1. CASE f \in Range(a)
    <3>1. waiters'[f] = Append(waiters[f], s)
      BY <2>1
    <3> DEFINE q == waiters[f]
    <3>2. q \in Seq(Threads) /\ IsInjective(q) /\ s \notin Range(q)
      BY <1>4
    <3> HIDE DEF q
    <3>3. /\ Append(q, s) \in Seq(Threads) /\ IsInjective(Append(q, s))
          /\ Range(Append(q, s)) = Range(q) \cup {s}
      BY <3>2, AppendList
    <3> QED BY <2>1, <3>1, <3>3 DEF q
  <2>2. CASE f \notin Range(a)
    BY <1>4, <2>2
  <2> QED BY <2>1, <2>2
<1>6. \A f \in Events : lock'[f] # NoThread =>
        lock'[f] = lock[f] /\ lock[f] # s /\ f \notin Range(a)
  OBVIOUS
<1>7. TypeOK'
  BY <1>3, <1>5 DEF TypeOK, Places
<1>8. Shape'
  <2> SUFFICES ASSUME NEW x \in Threads PROVE ShapeOf(x)'
    BY DEF Shape
  <2>1. CASE x = s
    BY <1>2, <2>1 DEF ShapeOf, InWait
  <2>2. CASE x # s
    <3>1. pc[x] \in {"signal", "unlock"} => lock'[waitables[x][1]] = lock[waitables[x][1]]
      BY <2>2 DEF Shape, ShapeOf
    <3> QED BY <1>1, <2>2, <3>1 DEF Shape, ShapeOf
  <2> QED BY <2>1, <2>2
<1>9. LockOwners'
  <2> SUFFICES ASSUME NEW f \in Events, lock'[f] # NoThread
               PROVE  \/ /\ pc'[lock'[f]] \in {"signal", "unlock"}
                         /\ waitables'[lock'[f]] = <<f>>
                      \/ /\ pc'[lock'[f]] = "lockMany" /\ ~signaled[f]
                         /\ f \in Range(waitables'[lock'[f]])
    BY DEF LockOwners
  <2> QED BY <1>1, <1>6 DEF LockOwners, TypeOK
<1>10. Lists'
  <2>1. \A f \in Events : signaled[f] => f \notin Range(a) /\ waiters'[f] = waiters[f]
    OBVIOUS
  <2> QED BY <1>5, <2>1 DEF Lists
<1>11. Live'
  <2> SUFFICES ASSUME NEW f \in Events, NEW x \in Range(waiters'[f])
               PROVE  /\ pc'[x] \in InWait /\ f \in Remaining(x)'
                      /\ signaling[x] = f => Walking(f)'
    BY DEF Live
  <2>1. CASE x = s
    BY <1>2, <1>3, <1>4, <1>5, <2>1 DEF InWait
  <2>2. CASE x # s
    <3>1. x \in Threads /\ x \in Range(waiters[f])
      BY <1>4, <1>5, <2>2
    <3>2. Walking(f) => Walking(f)'
      <4>1. Walking(f) => lock[f] # s /\ lock[f] \in Threads
        BY DEF Walking, TypeOK
      <4> QED BY <1>1, <4>1 DEF Walking
    <3>3. pc[x] \in InWait /\ f \in Remaining(x) /\ (signaling[x] = f => Walking(f))
      BY <3>1 DEF Live
    <3> QED BY <1>1, <2>2, <3>1, <3>2, <3>3
  <2> QED BY <2>1, <2>2
<1>12. Enlisted'
  <2> SUFFICES ASSUME NEW x \in Threads, pc'[x] \in {"check", "blocked", "woken"},
                      ~fired[x], NEW f \in Range(waitables'[x])
               PROVE  x \in Range(waiters'[f])
    BY DEF Enlisted
  <2>1. CASE x = s
    BY <1>2, <1>3, <1>5, <2>1
  <2>2. CASE x # s
    <3>1. f \in Events
      BY <1>7 DEF TypeOK, Range
    <3> QED BY <1>1, <1>5, <2>2, <3>1 DEF Enlisted
  <2> QED BY <2>1, <2>2
<1>13. Walk'
  <2> SUFFICES ASSUME NEW r \in Threads, pc'[r] = "signal", waitables'[r][1] \in Manual,
                      NEW i \in 1 .. Len(waiters'[waitables'[r][1]]), i < pos[r]
               PROVE  fired[waiters'[waitables'[r][1]][i]]
    BY DEF Walk
  <2>1. r # s /\ pc[r] = "signal" /\ waitables'[r] = waitables[r]
    BY <1>1, <1>2
  <2>2. lock[waitables[r][1]] = r
    BY <2>1 DEF Shape, ShapeOf
  <2>3. waiters'[waitables[r][1]] = waiters[waitables[r][1]]
    BY <2>1, <2>2
  <2> QED BY <2>1, <2>3 DEF Walk
<1>14. HitWaits'
  <2> SUFFICES ASSUME NEW r \in Threads, NEW x \in hit[r]
               PROVE  /\ pc'[r] \in {"signal", "unlock"}
                      /\ fired[x] /\ pc'[x] \in InWait
                      /\ waitables'[r][1] \in Remaining(x)'
    BY DEF HitWaits
  <2>1. r # s /\ x \in Threads /\ x # s
    BY DEF HitWaits, TypeOK
  <2> QED BY <1>1, <2>1 DEF HitWaits
<1>15. LockingOn'
  <2> SUFFICES ASSUME NEW x \in Threads, pc'[x] = "lockMany" PROVE ToLock(x)' # {}
    BY DEF LockingOn
  <2>1. x # s /\ pc[x] = "lockMany" /\ waitables'[x] = waitables[x]
    BY <1>1, <1>2
  <2>2. Held(x)' = Held(x)
    BY <2>1 DEF Held
  <2> QED BY <2>1, <2>2 DEF LockingOn, ToLock
<1> QED BY <1>7, <1>8, <1>9, <1>10, <1>11, <1>12, <1>13, <1>14, <1>15

LEMMA WaitEnqueueStep ==
  ASSUME IInv, NEW t \in Threads, NEW e \in Events, NEW c \in {"wait", "timed"},
         WaitEnqueue(t, e, c)
  PROVE  IInv'
<1> USE EventAssumption DEF IInv
<1>1. pc[t] = "idle" /\ lock[e] = NoThread /\ ~signaled[e]
  BY DEF WaitEnqueue
<1>2. Range(<<e>>) = {e} /\ <<e>> \in Seq(Events) /\ Len(<<e>>) = 1 /\ <<e>> # <<>>
  BY DEF Range
<1>3. \A f \in Events : lock[f] # t
  BY <1>1 DEF LockOwners
<1>4. lock' = [f \in Events |-> IF lock[f] = t THEN NoThread ELSE lock[f]]
  BY <1>3 DEF WaitEnqueue, TypeOK
<1>5. waiters' = [f \in Events |-> IF f \in Range(<<e>>) THEN Append(waiters[f], t)
                                   ELSE waiters[f]]
  BY <1>2 DEF WaitEnqueue, TypeOK
<1>6. c \in Calls /\ pc[t] \notin InWait \cup {"signal", "unlock"}
  BY <1>1 DEF Calls, InWait
<1>7. /\ pc' = [pc EXCEPT ![t] = "check"]
      /\ call' = [call EXCEPT ![t] = c]
      /\ waitables' = [waitables EXCEPT ![t] = <<e>>]
      /\ ret' \in [Threads -> Events \cup {NoEvent}]
      /\ UNCHANGED <<signaled, pos, fired, signaling, result, hit>>
  BY DEF WaitEnqueue, NoAnswer, waiter, TypeOK
<1>8. \A f \in Range(<<e>>) : ~signaled[f] /\ lock[f] \in {NoThread, t}
  BY <1>1, <1>2
<1> QED BY <1>2, <1>4, <1>5, <1>6, <1>7, <1>8, JoinStep

\* The ways out of a call: thread s is gone from every list, and the locks of
\* the lists it had still to leave are free.
LEMMA LeaveStep ==
  ASSUME IInv, NEW s \in Threads, NEW r \in Events \cup {NoEvent},
         pc[s] \in InWait \cup {"lockMany"},
         pc[s] \in InWait => \A f \in Remaining(s) : lock[f] = NoThread,
         waiters' \in [Events -> Seq(Threads)],
         \A f \in Events : /\ Range(waiters'[f]) = Range(waiters[f]) \ {s}
                           /\ IsInjective(waiters'[f])
                           /\ waiters'[f] = waiters[f] \/ lock[f] = NoThread
                           /\ waiters[f] = <<>> => waiters'[f] = <<>>,
         signaled' \in [Events -> BOOLEAN],
         \A f \in Events : signaled'[f] => signaled[f],
         lock' = [f \in Events |-> IF lock[f] = s THEN NoThread ELSE lock[f]],
         Return(s, r), hit' = hit
  PROVE  IInv'
<1> USE EventAssumption DEF IInv
<1>1. /\ pc' = [pc EXCEPT ![s] = "idle"]
      /\ call' = [call EXCEPT ![s] = "none"]
      /\ waitables' = [waitables EXCEPT ![s] = <<>>]
      /\ pos' = [pos EXCEPT ![s] = 1]
      /\ fired' = [fired EXCEPT ![s] = FALSE]
      /\ signaling' = [signaling EXCEPT ![s] = NoEvent]
      /\ result' = [result EXCEPT ![s] = FALSE]
      /\ ret' = [ret EXCEPT ![s] = r]
  BY DEF Return
<1>2. \A x \in Threads : x # s => /\ pc'[x] = pc[x] /\ waitables'[x] = waitables[x]
                                  /\ call'[x] = call[x] /\ pos'[x] = pos[x]
                                  /\ fired'[x] = fired[x] /\ signaling'[x] = signaling[x]
                                  /\ Remaining(x)' = Remaining(x)
  BY <1>1 DEF TypeOK, Remaining
<1>3. /\ pc'[s] = "idle" /\ pos'[s] = 1 /\ ~fired'[s] /\ signaling'[s] = NoEvent
      /\ pc[s] \notin {"signal", "unlock"}
  BY <1>1 DEF TypeOK, InWait
<1>4. \A f \in Events : lock'[f] # NoThread => lock'[f] = lock[f] /\ lock[f] # s
  OBVIOUS
<1>5. \A f \in Events : pc[s] \in InWait /\ f \in Remaining(s) => lock[f] = NoThread
  OBVIOUS
<1>6. TypeOK'
  BY <1>1 DEF TypeOK, Places, Calls
<1>7. Shape'
  <2> SUFFICES ASSUME NEW x \in Threads PROVE ShapeOf(x)'
    BY DEF Shape
  <2>1. CASE x = s
    BY <1>3, <2>1 DEF ShapeOf, InWait
  <2>2. CASE x # s
    <3>1. ShapeOf(x)
      BY DEF Shape
    <3>2. pc[x] \in {"signal", "unlock"} =>
            /\ waitables[x][1] \in Events
            /\ lock'[waitables[x][1]] = lock[waitables[x][1]]
            /\ ~signaled[waitables[x][1]] => ~signaled'[waitables[x][1]]
      <4> SUFFICES ASSUME pc[x] \in {"signal", "unlock"}
                   PROVE  /\ waitables[x][1] \in Events
                          /\ lock'[waitables[x][1]] = lock[waitables[x][1]]
                          /\ ~signaled[waitables[x][1]] => ~signaled'[waitables[x][1]]
        OBVIOUS
      <4>1. waitables[x][1] \in Events /\ lock[waitables[x][1]] = x
        BY <3>1 DEF ShapeOf
      <4> QED BY <2>2, <4>1
    <3> QED BY <1>2, <2>2, <3>1, <3>2 DEF ShapeOf
  <2> QED BY <2>1, <2>2
<1>8. LockOwners'
  <2> SUFFICES ASSUME NEW f \in Events, lock'[f] # NoThread
               PROVE  \/ /\ pc'[lock'[f]] \in {"signal", "unlock"}
                         /\ waitables'[lock'[f]] = <<f>>
                      \/ /\ pc'[lock'[f]] = "lockMany" /\ ~signaled'[f]
                         /\ f \in Range(waitables'[lock'[f]])
    BY DEF LockOwners
  <2>1. lock'[f] = lock[f] /\ lock[f] \in Threads /\ lock[f] # s
    BY <1>4 DEF TypeOK
  <2>2. \/ pc[lock[f]] \in {"signal", "unlock"} /\ waitables[lock[f]] = <<f>>
        \/ pc[lock[f]] = "lockMany" /\ f \in Range(waitables[lock[f]]) /\ ~signaled[f]
    BY <2>1 DEF LockOwners
  <2> QED BY <1>2, <2>1, <2>2
<1>9. Lists'
  BY DEF Lists
<1>10. Live'
  <2> SUFFICES ASSUME NEW f \in Events, NEW x \in Range(waiters'[f])
               PROVE  /\ pc'[x] \in InWait /\ f \in Remaining(x)'
                      /\ signaling'[x] = f => Walking(f)'
    BY DEF Live
  <2>1. x \in Threads /\ x # s /\ x \in Range(waiters[f])
    BY Entries DEF TypeOK
  <2>2. Walking(f) => Walking(f)'
    <3>1. Walking(f) => lock[f] \in Threads /\ lock[f] # s
      BY <1>3 DEF Walking, TypeOK
    <3> QED BY <1>2, <3>1 DEF Walking
  <2>3. pc[x] \in InWait /\ f \in Remaining(x) /\ (signaling[x] = f => Walking(f))
    BY <2>1 DEF Live
  <2> QED BY <1>2, <2>1, <2>2, <2>3
<1>11. Enlisted'
  <2> SUFFICES ASSUME NEW x \in Threads, pc'[x] \in {"check", "blocked", "woken"},
                      ~fired'[x], NEW f \in Range(waitables'[x])
               PROVE  x \in Range(waiters'[f])
    BY DEF Enlisted
  <2>1. x # s
    BY <1>3
  <2>2. f \in Events
    BY <1>6 DEF TypeOK, Range
  <2>3. x \in Range(waiters[f])
    BY <1>2, <2>1 DEF Enlisted
  <2> QED BY <2>1, <2>2, <2>3
<1>12. Walk'
  <2> SUFFICES ASSUME NEW q \in Threads, pc'[q] = "signal", waitables'[q][1] \in Manual,
                      NEW i \in 1 .. Len(waiters'[waitables'[q][1]]), i < pos'[q]
               PROVE  fired'[waiters'[waitables'[q][1]][i]]
    BY DEF Walk
  <2> DEFINE e == waitables[q][1]
  <2>1. q # s /\ pc[q] = "signal" /\ waitables'[q][1] = e /\ pos'[q] = pos[q]
    BY <1>2, <1>3
  <2>2. lock[e] = q /\ e \in Events
    BY <2>1 DEF Shape, ShapeOf
  <2>3. waiters'[e] = waiters[e]
    BY <2>2
  <2>4. waiters[e] \in Seq(Threads)
    BY <2>2 DEF TypeOK
  <2> HIDE DEF e
  <2>5. fired[waiters[e][i]]
    BY <2>1, <2>2, <2>3 DEF Walk, e
  <2>6. waiters[e][i] \in Threads /\ waiters[e][i] \in Range(waiters[e])
    BY <2>1, <2>3, <2>4, Entries
  <2>7. waiters[e][i] # s
    BY <2>2, <2>3, <2>6
  <2> QED BY <1>2, <2>1, <2>3, <2>5, <2>6, <2>7
<1>13. HitWaits'
  <2> SUFFICES ASSUME NEW q \in Threads, NEW x \in hit[q]
               PROVE  /\ pc'[q] \in {"signal", "unlock"}
                      /\ fired'[x] /\ pc'[x] \in InWait
                      /\ waitables'[q][1] \in Remaining(x)'
    BY DEF HitWaits
  <2>1. /\ pc[q] \in {"signal", "unlock"} /\ fired[x] /\ pc[x] \in InWait
        /\ waitables[q][1] \in Remaining(x) /\ x \in Threads
    BY DEF HitWaits, TypeOK
  <2>2. lock[waitables[q][1]] = q /\ waitables[q][1] \in Events
    BY <2>1 DEF Shape, ShapeOf
  <2>3. q # s /\ x # s
    BY <1>3, <1>5, <2>1, <2>2
  <2> QED BY <1>2, <2>1, <2>3
<1>14. LockingOn'
  <2> SUFFICES ASSUME NEW x \in Threads, pc'[x] = "lockMany" PROVE ToLock(x)' # {}
    BY DEF LockingOn
  <2>1. x # s /\ pc[x] = "lockMany" /\ waitables'[x] = waitables[x]
    BY <1>2, <1>3
  <2>2. Held(x)' = Held(x)
    BY <2>1 DEF Held
  <2> QED BY <2>1, <2>2 DEF LockingOn, ToLock
<1> QED BY <1>6, <1>7, <1>8, <1>9, <1>10, <1>11, <1>12, <1>13, <1>14

LEMMA WaitReturnStep ==
  ASSUME IInv, NEW s \in Threads, WaitReturn(s)
  PROVE  IInv'
<1> DEFINE e == waitables[s][1]
           r == IF result[s] THEN e ELSE NoEvent
<1> USE EventAssumption DEF IInv
<1>1. /\ pc[s] = "dequeue" /\ lock[e] = NoThread
      /\ waiters' = [waiters EXCEPT ![e] = Dequeue(waiters[e], s)]
      /\ Return(s, r) /\ UNCHANGED <<signaled, lock, hit>>
  BY DEF WaitReturn
<1>2. Len(waitables[s]) = 1 /\ pos[s] = 1
  BY DEF WaitReturn, Shape, ShapeOf, InWait
<1>3. e \in Events /\ Remaining(s) = {e} /\ r \in Events \cup {NoEvent}
  <2>1. waitables[s] \in Seq(Events)
    BY DEF TypeOK
  <2>2. e \in Events
    BY <1>2, <2>1
  <2>3. pos[s] .. Len(waitables[s]) = {1}
    BY <1>2
  <2>4. Remaining(s) = {waitables[s][i] : i \in {1}}
    BY <2>3 DEF Remaining
  <2> QED BY <2>2, <2>4
<1>4. \A f \in Events : waiters[f] \in Seq(Threads) /\ IsInjective(waiters[f])
  BY DEF TypeOK, Lists
<1>5. \A f \in Events : f # e => s \notin Range(waiters[f])
  BY <1>3 DEF Live
<1> HIDE DEF e, r
<1>6. \A f \in Events : f # e => waiters'[f] = waiters[f]
  BY <1>1 DEF TypeOK
<1>7. /\ waiters'[e] \in Seq(Threads) /\ IsInjective(waiters'[e])
      /\ Range(waiters'[e]) = Range(waiters[e]) \ {s}
      /\ waiters[e] = <<>> => waiters'[e] = <<>>
  <2>1. waiters'[e] = Dequeue(waiters[e], s)
    BY <1>1, <1>3 DEF TypeOK
  <2>2. Dequeue(<<>>, s) = <<>>
    BY DEF Dequeue, Range
  <2> DEFINE q == waiters[e]
  <2>3. q \in Seq(Threads) /\ IsInjective(q)
    BY <1>3, <1>4
  <2> HIDE DEF q
  <2>4. /\ Dequeue(q, s) \in Seq(Threads) /\ IsInjective(Dequeue(q, s))
        /\ Range(Dequeue(q, s)) = Range(q) \ {s}
    BY <2>3, DequeueList
  <2> QED BY <2>1, <2>2, <2>4 DEF q
<1>8. waiters' \in [Events -> Seq(Threads)]
  BY <1>1, <1>3, <1>7 DEF TypeOK
<1>9. \A f \in Events : lock[f] # s
  BY <1>1 DEF LockOwners
<1>10. lock' = [f \in Events |-> IF lock[f] = s THEN NoThread ELSE lock[f]]
  BY <1>1, <1>9 DEF TypeOK
<1>11. \A f \in Events : /\ Range(waiters'[f]) = Range(waiters[f]) \ {s}
                         /\ IsInjective(waiters'[f])
                         /\ waiters'[f] = waiters[f] \/ lock[f] = NoThread
                         /\ waiters[f] = <<>> => waiters'[f] = <<>>
  BY <1>1, <1>4, <1>5, <1>6, <1>7
<1>12. /\ pc[s] \in InWait /\ signaled' = signaled /\ signaled \in [Events -> BOOLEAN]
       /\ \A f \in Remaining(s) : lock[f] = NoThread
  BY <1>1, <1>3 DEF InWait, TypeOK
<1> QED BY <1>1, <1>3, <1>8, <1>10, <1>11, <1>12, LeaveStep

LEMMA WaitManyStep ==
  ASSUME IInv, NEW s \in Threads, NEW a \in WaitArrays, WaitMany(s, a)
  PROVE  IInv'
<1> USE EventAssumption DEF IInv
<1>1. /\ pc[s] = "idle"
      /\ pc' = [pc EXCEPT ![s] = "lockMany"]
      /\ call' = [call EXCEPT ![s] = "many"]
      /\ waitables' = [waitables EXCEPT ![s] = a]
      /\ ret' = [ret EXCEPT ![s] = NoEvent]
      /\ UNCHANGED <<signaled, waiters, lock, pos, fired, signaling, result, hit>>
  BY DEF WaitMany, NoAnswer, waiter, kernel
<1>2. \A x \in Threads : x # s => /\ pc'[x] = pc[x] /\ waitables'[x] = waitables[x]
                                  /\ call'[x] = call[x]
                                  /\ Remaining(x)' = Remaining(x)
  BY <1>1 DEF TypeOK, Remaining
<1>3. pc'[s] = "lockMany" /\ waitables'[s] = a
  BY <1>1 DEF TypeOK
<1>4. TypeOK'
  BY <1>1 DEF TypeOK, Places, Calls
<1>5. Shape'
  <2> SUFFICES ASSUME NEW x \in Threads PROVE ShapeOf(x)'
    BY DEF Shape
  <2>1. CASE x = s
    <3>1. call'[s] = "many" /\ a # <<>>
      BY <1>1 DEF TypeOK
    <3> QED BY <1>1, <1>3, <2>1, <3>1 DEF Shape, ShapeOf, InWait
  <2>2. CASE x # s
    BY <1>1, <1>2, <2>2 DEF Shape, ShapeOf
  <2> QED BY <2>1, <2>2
<1>6. LockOwners'
  BY <1>1, <1>2 DEF LockOwners, TypeOK
<1>7. Lists'
  BY <1>1 DEF Lists
<1>8. Live'
  <2> SUFFICES ASSUME NEW f \in Events, NEW x \in Range(waiters[f])
               PROVE  /\ pc'[x] \in InWait /\ f \in Remaining(x)'
                      /\ signaling[x] = f => Walking(f)'
    BY <1>1 DEF Live
  <2>1. x \in Threads /\ x # s
    BY <1>1, Entries DEF TypeOK, Live, InWait
  <2>2. Walking(f) => Walking(f)'
    BY <1>1, <1>2 DEF Walking, TypeOK
  <2> QED BY <1>2, <2>1, <2>2 DEF Live
<1>9. Enlisted'
  <2> SUFFICES ASSUME NEW x \in Threads, pc'[x] \in {"check", "blocked", "woken"},
                      ~fired[x], NEW f \in Range(waitables'[x])
               PROVE  x \in Range(waiters[f])
    BY <1>1 DEF Enlisted
  <2> QED BY <1>2, <1>3 DEF Enlisted
<1>10. Walk'
  BY <1>1, <1>2, <1>3 DEF Walk
<1>11. HitWaits'
  <2> SUFFICES ASSUME NEW r \in Threads, NEW x \in hit[r]
               PROVE  /\ pc'[r] \in {"signal", "unlock"}
                      /\ fired[x] /\ pc'[x] \in InWait
                      /\ waitables'[r][1] \in Remaining(x)'
    BY <1>1 DEF HitWaits
  <2>1. r # s /\ x \in Threads /\ x # s
    BY <1>1 DEF HitWaits, InWait, TypeOK
  <2> QED BY <1>2, <2>1 DEF HitWaits
<1>12. LockingOn'
  <2> SUFFICES ASSUME NEW x \in Threads, pc'[x] = "lockMany" PROVE ToLock(x)' # {}
    BY DEF LockingOn
  <2>1. Held(x)' = Held(x)
    BY <1>1 DEF Held
  <2>2. CASE x = s
    <3>1. Held(s) = {}
      BY <1>1 DEF Held, LockOwners
    <3>2. a[1] \in Range(a)
      <4>1. a \in Seq(Events) /\ a # <<>>
        OBVIOUS
      <4>2. 1 \in DOMAIN a
        BY <4>1
      <4> QED BY <4>2 DEF Range
    <3> QED BY <1>3, <2>1, <2>2, <3>1, <3>2 DEF ToLock
  <2>3. CASE x # s
    BY <1>2, <2>1, <2>3 DEF LockingOn, ToLock
  <2> QED BY <2>2, <2>3
<1> QED BY <1>4, <1>5, <1>6, <1>7, <1>8, <1>9, <1>10, <1>11, <1>12

LEMMA EnqueueManyLockStep ==
  ASSUME IInv, NEW s \in Threads, EnqueueManyLock(s)
  PROVE  IInv'
<1> USE EventAssumption DEF IInv
<1>1. pc[s] = "lockMany"
  BY DEF EnqueueManyLock
<1>2. PICK e \in Events : /\ e = NextLock(s) /\ e \in ToLock(s)
                          /\ e \in Range(waitables[s])
  BY <1>1, NextLockLeast
<1>3. /\ lock[e] = NoThread /\ ~signaled[e] /\ ToLock(s) # {e}
      /\ lock' = [lock EXCEPT ![e] = s]
      /\ UNCHANGED <<signaled, waiters, pc, call, waitables, pos, fired, signaling,
                     result, ret, hit>>
  BY <1>2 DEF EnqueueManyLock, waiter
<1>4. \A f \in Events : lock[f] # NoThread => f # e /\ lock'[f] = lock[f]
  BY <1>3
<1>5. \A x : Remaining(x)' = Remaining(x)
  BY <1>3 DEF Remaining
<1>6. TypeOK'
  BY <1>3 DEF TypeOK
<1>7. Shape'
  <2> SUFFICES ASSUME NEW x \in Threads PROVE ShapeOf(x)'
    BY DEF Shape
  <2>1. ShapeOf(x)
    BY DEF Shape
  <2>2. pc[x] \in {"signal", "unlock"} => lock'[waitables[x][1]] = lock[waitables[x][1]]
    BY <1>4, <2>1 DEF ShapeOf
  <2> QED BY <1>3, <2>1, <2>2 DEF ShapeOf
<1>8. LockOwners'
  <2> SUFFICES ASSUME NEW f \in Events, lock'[f] # NoThread
               PROVE  \/ pc[lock'[f]] \in {"signal", "unlock"} /\ waitables[lock'[f]] = <<f>>
                      \/ /\ pc[lock'[f]] = "lockMany" /\ ~signaled[f]
                         /\ f \in Range(waitables[lock'[f]])
    BY <1>3 DEF LockOwners
  <2>1. CASE f = e
    BY <1>1, <1>2, <1>3, <2>1 DEF TypeOK
  <2>2. CASE f # e
    <3>1. lock'[f] = lock[f]
      BY <1>3, <2>2 DEF TypeOK
    <3> QED BY <3>1 DEF LockOwners
  <2> QED BY <2>1, <2>2
<1>9. Lists'
  BY <1>3 DEF Lists
<1>10. Live'
  <2>1. \A f \in Events : Walking(f) => Walking(f)'
    BY <1>3, <1>4 DEF Walking
  <2> QED BY <1>3, <1>5, <2>1 DEF Live
<1>11. Enlisted'
  BY <1>3 DEF Enlisted
<1>12. Walk'
  BY <1>3 DEF Walk
<1>13. HitWaits'
  BY <1>3, <1>5 DEF HitWaits
<1>14. LockingOn'
  <2> SUFFICES ASSUME NEW x \in Threads, pc[x] = "lockMany" PROVE ToLock(x)' # {}
    BY <1>3 DEF LockingOn
  <2>1. CASE x = s
    <3>1. Held(s)' = Held(s) \cup {e}
      BY <1>3 DEF Held, TypeOK
    <3>2. ToLock(s)' = ToLock(s) \ {e}
      BY <1>3, <3>1 DEF ToLock
    <3> QED BY <1>2, <1>3, <2>1, <3>2
  <2>2. CASE x # s
    <3>1. Held(x)' = Held(x)
      BY <1>3, <2>2 DEF Held, TypeOK
    <3> QED BY <1>3, <3>1 DEF ToLock, LockingOn
  <2> QED BY <2>1, <2>2
<1> QED BY <1>6, <1>7, <1>8, <1>9, <1>10, <1>11, <1>12, <1>13, <1>14

LEMMA EnqueueManySignaledStep ==
  ASSUME IInv, NEW s \in Threads, EnqueueManySignaled(s)
  PROVE  IInv'
<1> USE EventAssumption DEF IInv
<1>1. pc[s] = "lockMany"
  BY DEF EnqueueManySignaled
<1>2. PICK e \in Events : e = NextLock(s)
  BY <1>1, NextLockLeast
<1>3. /\ signaled' = [signaled EXCEPT ![e] = signaled[e] /\ e \in Manual]
      /\ lock' = [f \in Events |-> IF lock[f] = s THEN NoThread ELSE lock[f]]
      /\ Return(s, e) /\ UNCHANGED <<waiters, hit>>
  BY <1>2 DEF EnqueueManySignaled, TakeSignal
<1>4. /\ signaled' \in [Events -> BOOLEAN]
      /\ \A f \in Events : signaled'[f] => signaled[f]
  BY <1>3 DEF TypeOK
<1>5. \A f \in Events : s \notin Range(waiters[f])
  BY <1>1 DEF Live, InWait
<1>6. /\ waiters' \in [Events -> Seq(Threads)]
      /\ \A f \in Events : /\ Range(waiters'[f]) = Range(waiters[f]) \ {s}
                           /\ IsInjective(waiters'[f])
                           /\ waiters'[f] = waiters[f] \/ lock[f] = NoThread
                           /\ waiters[f] = <<>> => waiters'[f] = <<>>
  BY <1>3, <1>5 DEF TypeOK, Lists
<1>7. PICK r \in Events \cup {NoEvent} : Return(s, r)
  BY <1>3
<1>8. /\ hit' = hit /\ pc[s] \in InWait \cup {"lockMany"}
      /\ lock' = [f \in Events |-> IF lock[f] = s THEN NoThread ELSE lock[f]]
  BY <1>1, <1>3
<1>9. pc[s] \in InWait => \A f \in Remaining(s) : lock[f] = NoThread
  BY <1>1 DEF InWait
<1> HIDE DEF IInv
<1> QED BY <1>4, <1>6, <1>7, <1>8, <1>9, LeaveStep

LEMMA EnqueueManyLastStep ==
  ASSUME IInv, NEW s \in Threads, EnqueueManyLast(s)
  PROVE  IInv'
<1> USE EventAssumption DEF IInv
<1>1. pc[s] = "lockMany"
  BY DEF EnqueueManyLast
<1>2. PICK e \in Events : e = NextLock(s)
  BY <1>1, NextLockLeast
<1>3. PICK a \in Seq(Events) : a = waitables[s]
  BY DEF TypeOK
<1>4. /\ lock[e] = NoThread /\ ~signaled[e] /\ ToLock(s) = {e}
      /\ waiters' = [f \in Events |-> IF f \in Range(a) THEN Append(waiters[f], s)
                                      ELSE waiters[f]]
      /\ lock' = [f \in Events |-> IF lock[f] = s THEN NoThread ELSE lock[f]]
      /\ pc' = [pc EXCEPT ![s] = "check"]
      /\ UNCHANGED <<signaled, call, waitables, pos, fired, signaling, result, ret, hit>>
  BY <1>2, <1>3 DEF EnqueueManyLast, waiter
<1>5. ASSUME NEW f \in Range(a) PROVE ~signaled[f] /\ lock[f] \in {NoThread, s}
  <2>1. f \in Events
    BY DEF Range
  <2>2. CASE f = e
    BY <1>4, <2>2
  <2>3. CASE f # e
    <3>1. lock[f] = s
      BY <1>3, <1>4, <1>5, <2>1, <2>3 DEF ToLock, Held
    <3> QED BY <1>1, <2>1, <3>1 DEF LockOwners
  <2> QED BY <2>2, <2>3
<1>6. a # <<>> /\ (call[s] # "many" => Len(a) = 1)
  BY <1>1, <1>3 DEF Shape, ShapeOf, InWait
<1>7. /\ call[s] \in Calls /\ call' = [call EXCEPT ![s] = call[s]]
      /\ waitables' = [waitables EXCEPT ![s] = a]
      /\ ret' \in [Threads -> Events \cup {NoEvent}]
      /\ pc[s] \notin InWait \cup {"signal", "unlock"}
  BY <1>1, <1>3, <1>4 DEF TypeOK, InWait
<1> QED BY <1>4, <1>5, <1>6, <1>7, JoinStep

LEMMA ManyDequeueStep ==
  ASSUME IInv, NEW s \in Threads, ManyDequeue(s)
  PROVE  IInv'
<1> USE EventAssumption DEF IInv
<1> DEFINE n == Len(waitables[s])
<1>1. pc[s] = "dequeue" /\ call[s] = "many"
  BY DEF ManyDequeue
<1>2. waitables[s] \in Seq(Events) /\ pos[s] \in 1 .. n /\ n \in Nat
  BY <1>1 DEF TypeOK, Shape, ShapeOf
<1>3. PICK e \in Events : e = waitables[s][pos[s]]
  BY <1>2
<1>4. /\ lock[e] = NoThread
      /\ waiters' = IF e = signaling[s] THEN waiters
                    ELSE [waiters EXCEPT ![e] = Dequeue(waiters[e], s)]
      /\ UNCHANGED <<signaled, lock, hit>>
  BY <1>3 DEF ManyDequeue
<1>5. \A f \in Events : waiters[f] \in Seq(Threads) /\ IsInjective(waiters[f])
  BY DEF TypeOK, Lists
<1>6. e = signaling[s] => s \notin Range(waiters[e])
  BY <1>4 DEF Live, Walking
<1>7. \A f \in Events : f # e => waiters'[f] = waiters[f]
  BY <1>4 DEF TypeOK
<1>8. /\ waiters'[e] \in Seq(Threads) /\ IsInjective(waiters'[e])
      /\ Range(waiters'[e]) = Range(waiters[e]) \ {s}
      /\ waiters[e] = <<>> => waiters'[e] = <<>>
  <2> DEFINE q == waiters[e]
  <2>1. q \in Seq(Threads) /\ IsInjective(q)
    BY <1>5
  <2>2. CASE e = signaling[s]
    BY <1>4, <1>6, <2>1, <2>2
  <2>3. CASE e # signaling[s]
    <3>1. waiters'[e] = Dequeue(q, s)
      BY <1>4, <2>3 DEF TypeOK
    <3>2. Dequeue(<<>>, s) = <<>>
      BY DEF Dequeue, Range
    <3> HIDE DEF q
    <3>3. /\ Dequeue(q, s) \in Seq(Threads) /\ IsInjective(Dequeue(q, s))
          /\ Range(Dequeue(q, s)) = Range(q) \ {s}
      BY <2>1, DequeueList
    <3> QED BY <3>1, <3>2, <3>3 DEF q
  <2> QED BY <2>2, <2>3
<1>9. waiters' \in [Events -> Seq(Threads)]
  <2>1. DOMAIN waiters' = Events /\ waiters' = [f \in Events |-> waiters'[f]]
    BY <1>4 DEF TypeOK
  <2> QED BY <1>5, <1>7, <1>8, <2>1
<1>10. CASE pos[s] < n
  <2>1. /\ pos' = [pos EXCEPT ![s] = pos[s] + 1]
        /\ UNCHANGED <<pc, call, waitables, fired, signaling, result, ret>>
    BY <1>10 DEF ManyDequeue, waiter
  <2>2. \A x \in Threads : x # s => pos'[x] = pos[x] /\ Remaining(x)' = Remaining(x)
    BY <2>1 DEF TypeOK, Remaining
  <2>3. \A f \in Remaining(s) : f # e => f \in Remaining(s)'
    <3> SUFFICES ASSUME NEW i \in pos[s] .. n, waitables[s][i] # e
                 PROVE  waitables[s][i] \in Remaining(s)'
      BY DEF Remaining
    <3>1. i \in pos'[s] .. n
      BY <1>2, <1>3, <2>1 DEF TypeOK
    <3> QED BY <2>1, <3>1 DEF Remaining
  <2>4. TypeOK'
    <3>1. pos' \in [Threads -> Nat \ {0}]
      BY <2>1 DEF TypeOK
    <3> QED BY <1>4, <1>9, <2>1, <3>1 DEF TypeOK
  <2>5. Shape'
    <3> SUFFICES ASSUME NEW x \in Threads PROVE ShapeOf(x)'
      BY DEF Shape
    <3>1. CASE x = s
      <4>1. pos'[s] \in 1 .. Len(waitables[s])
        BY <1>2, <1>10, <2>1 DEF TypeOK
      <4> QED BY <1>1, <1>4, <2>1, <3>1, <4>1 DEF Shape, ShapeOf, InWait
    <3>2. CASE x # s
      BY <1>4, <2>1, <2>2, <3>2 DEF Shape, ShapeOf
    <3> QED BY <3>1, <3>2
  <2>6. LockOwners'
    BY <1>4, <2>1 DEF LockOwners
  <2>7. Lists'
    BY <1>4, <1>7, <1>8 DEF Lists
  <2>8. Live'
    <3> SUFFICES ASSUME NEW f \in Events, NEW x \in Range(waiters'[f])
                 PROVE  /\ pc[x] \in InWait /\ f \in Remaining(x)'
                        /\ signaling[x] = f => Walking(f)'
      BY <2>1 DEF Live
    <3>1. x \in Range(waiters[f]) /\ (f = e => x # s)
      BY <1>7, <1>8
    <3>2. x \in Threads
      BY <1>5, <3>1, Entries
    <3>3. pc[x] \in InWait /\ f \in Remaining(x) /\ (signaling[x] = f => Walking(f))
      BY <3>1 DEF Live
    <3>4. Walking(f)' = Walking(f)
      BY <1>4, <2>1 DEF Walking
    <3> QED BY <2>2, <2>3, <3>1, <3>2, <3>3, <3>4
  <2>9. Enlisted'
    <3> SUFFICES ASSUME NEW x \in Threads, pc[x] \in {"check", "blocked", "woken"},
                        ~fired[x], NEW f \in Range(waitables[x])
                 PROVE  x \in Range(waiters'[f])
      BY <2>1 DEF Enlisted
    <3>1. x # s /\ x \in Range(waiters[f])
      BY <1>1 DEF Enlisted
    <3>2. f \in Events
      BY DEF TypeOK, Range
    <3> QED BY <1>7, <1>8, <3>1, <3>2
  <2>10. Walk'
    <3> SUFFICES ASSUME NEW r \in Threads, pc[r] = "signal", waitables[r][1] \in Manual,
                        NEW i \in 1 .. Len(waiters'[waitables[r][1]]), i < pos'[r]
                 PROVE  fired[waiters'[waitables[r][1]][i]]
      BY <2>1 DEF Walk
    <3>1. r # s /\ lock[waitables[r][1]] = r
      BY <1>1 DEF Shape, ShapeOf
    <3>2. waiters'[waitables[r][1]] = waiters[waitables[r][1]]
      BY <1>4, <1>7, <3>1
    <3> QED BY <2>2, <3>1, <3>2 DEF Walk
  <2>11. HitWaits'
    <3> SUFFICES ASSUME NEW r \in Threads, NEW x \in hit[r]
                 PROVE  /\ pc[r] \in {"signal", "unlock"} /\ fired[x] /\ pc[x] \in InWait
                        /\ waitables[r][1] \in Remaining(x)'
      BY <1>4, <2>1 DEF HitWaits
    <3>1. /\ pc[r] \in {"signal", "unlock"} /\ fired[x] /\ pc[x] \in InWait
          /\ waitables[r][1] \in Remaining(x) /\ x \in Threads
      BY DEF HitWaits, TypeOK
    <3>2. waitables[r][1] # e
      BY <1>4, <3>1 DEF Shape, ShapeOf
    <3> QED BY <2>2, <2>3, <3>1, <3>2
  <2>12. LockingOn'
    BY <1>4, <2>1 DEF LockingOn, ToLock, Held
  <2> QED BY <2>4, <2>5, <2>6, <2>7, <2>8, <2>9, <2>10, <2>11, <2>12
<1>11. CASE ~(pos[s] < n)
  <2>1. pos[s] = n
    BY <1>2, <1>11
  <2>2. Remaining(s) = {e}
    <3>1. pos[s] .. Len(waitables[s]) = {pos[s]}
      BY <1>2, <2>1
    <3>2. Remaining(s) = {waitables[s][i] : i \in {pos[s]}}
      BY <3>1 DEF Remaining
    <3> QED BY <1>3, <3>2
  <2>3. PICK r \in Events \cup {NoEvent} : Return(s, r)
    <3>1. SignaledIndex(s) \in DOMAIN waitables[s]
      <4>1. CASE signaling[s] \in Range(waitables[s])
        <5>1. \E i \in DOMAIN waitables[s] : waitables[s][i] = signaling[s]
          BY <4>1 DEF Range
        <5> QED BY <4>1, <5>1 DEF SignaledIndex
      <4>2. CASE signaling[s] \notin Range(waitables[s])
        BY <1>2, <4>2 DEF SignaledIndex
      <4> QED BY <4>1, <4>2
    <3>2. waitables[s][SignaledIndex(s)] \in Events
      BY <1>2, <3>1
    <3> QED BY <1>11, <3>2 DEF ManyDequeue
  <2>4. \A f \in Events : f # e => s \notin Range(waiters[f])
    BY <2>2 DEF Live
  <2>5. \A f \in Events : /\ Range(waiters'[f]) = Range(waiters[f]) \ {s}
                          /\ IsInjective(waiters'[f])
                          /\ waiters'[f] = waiters[f] \/ lock[f] = NoThread
                          /\ waiters[f] = <<>> => waiters'[f] = <<>>
    BY <1>4, <1>5, <1>7, <1>8, <2>4
  <2>6. \A f \in Events : lock[f] # s
    BY <1>1 DEF LockOwners
  <2>7. lock' = [f \in Events |-> IF lock[f] = s THEN NoThread ELSE lock[f]]
    BY <1>4, <2>6 DEF TypeOK
  <2>8. /\ pc[s] \in InWait /\ signaled' = signaled /\ signaled \in [Events -> BOOLEAN]
        /\ \A f \in Remaining(s) : lock[f] = NoThread
        /\ hit' = hit
    BY <1>1, <1>4, <2>2 DEF InWait, TypeOK
  <2> QED BY <1>9, <2>3, <2>5, <2>7, <2>8, LeaveStep
<1> QED BY <1>10, <1>11

\* The steps that touch at most the bit of an event whose lock is free, and
\* stuttering steps.
LEMMA BitStep ==
  ASSUME IInv, signaled' \in [Events -> BOOLEAN],
         \A f \in Events : signaled'[f] => signaled[f],
         ret' \in [Threads -> Events \cup {NoEvent}],
         UNCHANGED <<waiters, lock, pc, call, waitables, pos, fired, signaling, result, hit>>
  PROVE  IInv'
<1> USE EventAssumption DEF IInv
<1>1. \A x : Remaining(x)' = Remaining(x) /\ ToLock(x)' = ToLock(x)
  BY DEF Remaining, ToLock, Held
<1>2. TypeOK'
  BY DEF TypeOK
<1>3. Shape'
  BY DEF Shape, ShapeOf, TypeOK
<1>4. LockOwners' /\ Lists' /\ Enlisted' /\ Walk'
  BY DEF LockOwners, Lists, Enlisted, Walk
<1>5. Live' /\ HitWaits' /\ LockingOn'
  BY <1>1 DEF Live, Walking, HitWaits, LockingOn
<1> QED BY <1>2, <1>3, <1>4, <1>5

\* The deadline of a timed wait passes.
LEMMA ExpireStep ==
  ASSUME IInv, NEW s \in Threads, Expire(s)
  PROVE  IInv'
<1> USE DEF IInv
<1>1. /\ call[s] = "timed" /\ call' = [call EXCEPT ![s] = "expired"]
      /\ UNCHANGED <<signaled, waiters, lock, pc, waitables, pos, fired, signaling,
                     result, ret, hit>>
  BY DEF Expire, kernel, waiter
<1>2. \A x : Remaining(x)' = Remaining(x) /\ ToLock(x)' = ToLock(x)
  BY <1>1 DEF Remaining, ToLock, Held
<1>3. TypeOK'
  BY <1>1 DEF TypeOK, Calls
<1>4. Shape'
  BY <1>1 DEF Shape, ShapeOf, TypeOK
<1>5. LockOwners' /\ Lists' /\ Enlisted' /\ Walk'
  BY <1>1 DEF LockOwners, Lists, Enlisted, Walk
<1>6. Live' /\ HitWaits' /\ LockingOn'
  BY <1>1, <1>2 DEF Live, Walking, HitWaits, LockingOn
<1> QED BY <1>3, <1>4, <1>5, <1>6

\* The steps of a waiting thread between its wait-lists: it moves to place p,
\* perhaps disabling its waiter.
LEMMA LocalStep ==
  ASSUME IInv, NEW s \in Threads, NEW p \in InWait,
         pc[s] \in {"check", "blocked", "woken"}, p = "blocked" => ~fired[s],
         pc' = [pc EXCEPT ![s] = p],
         fired' \in [Threads -> BOOLEAN], result' \in [Threads -> BOOLEAN],
         \A x \in Threads : fired[x] => fired'[x],
         \A x \in Threads : fired'[x] # fired[x] => x = s /\ p = "dequeue",
         UNCHANGED <<signaled, waiters, lock, call, waitables, pos, signaling, ret, hit>>
  PROVE  IInv'
<1> USE DEF IInv
<1>1. \A x : Remaining(x)' = Remaining(x) /\ ToLock(x)' = ToLock(x)
  BY DEF Remaining, ToLock, Held
<1>2. pc'[s] = p /\ \A x \in Threads : x # s => pc'[x] = pc[x] /\ fired'[x] = fired[x]
  BY DEF TypeOK
<1>3. pc[s] \in InWait
  BY DEF InWait
<1>4. TypeOK'
  BY DEF TypeOK, InWait, Places
<1>5. Shape'
  <2> SUFFICES ASSUME NEW x \in Threads PROVE ShapeOf(x)'
    BY DEF Shape
  <2>1. ShapeOf(x)
    BY DEF Shape
  <2>2. CASE x # s
    BY <1>2, <2>1, <2>2 DEF ShapeOf
  <2>3. CASE x = s
    <3>1. /\ waitables[s] \in Seq(Events) /\ waitables[s] # <<>> /\ pos[s] = 1
          /\ call[s] # "many" => Len(waitables[s]) = 1
      BY <2>1, <2>3 DEF ShapeOf, TypeOK, InWait
    <3>2. pos[s] \in 1 .. Len(waitables[s])
      BY <3>1
    <3>3. p = "blocked" => ~fired'[s]
      BY DEF TypeOK
    <3> QED BY <1>2, <2>3, <3>1, <3>2, <3>3 DEF ShapeOf, InWait
  <2> QED BY <2>2, <2>3
<1>6. LockOwners'
  BY <1>2 DEF LockOwners, TypeOK
<1>7. Lists'
  BY DEF Lists
<1>8. Live'
  <2> SUFFICES ASSUME NEW f \in Events, NEW x \in Range(waiters[f])
               PROVE  /\ pc'[x] \in InWait /\ f \in Remaining(x)'
                      /\ signaling[x] = f => Walking(f)'
    BY DEF Live
  <2>1. x \in Threads
    BY Entries DEF TypeOK
  <2>2. Walking(f) => Walking(f)'
    <3>1. Walking(f) => lock[f] \in Threads /\ lock[f] # s
      BY <1>3 DEF Walking, TypeOK, InWait
    <3> QED BY <1>2, <3>1 DEF Walking
  <2> QED BY <1>1, <1>2, <2>1, <2>2 DEF Live
<1>9. Enlisted'
  <2> SUFFICES ASSUME NEW x \in Threads, pc'[x] \in {"check", "blocked", "woken"},
                      ~fired'[x], NEW f \in Range(waitables[x])
               PROVE  x \in Range(waiters[f])
    BY DEF Enlisted
  <2>1. pc[x] \in {"check", "blocked", "woken"} /\ ~fired[x]
    BY <1>2
  <2> QED BY <2>1 DEF Enlisted
<1>10. Walk'
  <2> SUFFICES ASSUME NEW q \in Threads, pc'[q] = "signal", waitables[q][1] \in Manual,
                      NEW i \in 1 .. Len(waiters[waitables[q][1]]), i < pos[q]
               PROVE  fired'[waiters[waitables[q][1]][i]]
    BY DEF Walk
  <2>1. pc[q] = "signal"
    BY <1>2 DEF InWait
  <2>2. waiters[waitables[q][1]] \in Seq(Threads)
    BY <2>1 DEF Shape, ShapeOf, TypeOK
  <2>3. waiters[waitables[q][1]][i] \in Threads
    BY <2>2
  <2> QED BY <2>1, <2>3 DEF Walk
<1>11. HitWaits'
  <2> SUFFICES ASSUME NEW q \in Threads, NEW x \in hit[q]
               PROVE  /\ pc'[q] \in {"signal", "unlock"}
                      /\ fired'[x] /\ pc'[x] \in InWait
                      /\ waitables[q][1] \in Remaining(x)'
    BY DEF HitWaits
  <2>1. /\ pc[q] \in {"signal", "unlock"} /\ fired[x] /\ pc[x] \in InWait
        /\ waitables[q][1] \in Remaining(x) /\ x \in Threads
    BY DEF HitWaits, TypeOK
  <2>2. q # s
    BY <1>3, <2>1 DEF InWait
  <2> QED BY <1>1, <1>2, <2>1, <2>2
<1>12. LockingOn'
  BY <1>1, <1>2, <1>3 DEF LockingOn, InWait
<1> QED BY <1>4, <1>5, <1>6, <1>7, <1>8, <1>9, <1>10, <1>11, <1>12

------------------------------------------------------------------------------
(* The invariant is inductive. *)

LEMMA InitIInv == Init => IInv
<1> SUFFICES ASSUME Init PROVE IInv
  OBVIOUS
<1> USE EventAssumption DEF Init
<1>1. TypeOK
  BY DEF TypeOK, Places, Calls
<1>2. Shape /\ LockOwners /\ LockingOn
  BY DEF Shape, ShapeOf, LockOwners, LockingOn, InWait
<1>3. \A e \in Events : Range(waiters[e]) = {}
  BY DEF Range
<1>4. Lists /\ Live
  BY <1>3 DEF Lists, Live, IsInjective
<1>5. Enlisted /\ Walk /\ HitWaits
  BY DEF Enlisted, Walk, HitWaits
<1> QED BY <1>1, <1>2, <1>4, <1>5 DEF IInv

LEMMA BeginIInv ==
  ASSUME IInv, NEW s \in Threads, Begin(s)
  PROVE  IInv'
<1>1. TypeOK
  BY DEF IInv
<1>2. ASSUME NEW e \in Events, Reset(s, e) PROVE IInv'
  BY <1>1, <1>2, BitStep DEF Reset, NoAnswer, waiter, TypeOK
<1>3. ASSUME NEW e \in Events, IsSignaled(s, e) PROVE IInv'
  BY <1>1, <1>3, BitStep DEF IsSignaled, TakeSignal, waiter, TypeOK
<1>4. ASSUME NEW e \in Events, SignalAgain(s, e) PROVE IInv'
  BY <1>1, <1>4, BitStep DEF SignalAgain, NoAnswer, waiter, kernel, TypeOK
<1>5. ASSUME NEW e \in Events, WaitSignaled(s, e) PROVE IInv'
  BY <1>1, <1>5, BitStep DEF WaitSignaled, TakeSignal, waiter, TypeOK
<1>6. ASSUME NEW e \in Events, Signal(s, e) PROVE IInv'
  BY <1>6, SignalStep
<1>7. ASSUME NEW e \in Events, NEW c \in {"wait", "timed"}, WaitEnqueue(s, e, c) PROVE IInv'
  BY <1>7, WaitEnqueueStep
<1>8. ASSUME NEW a \in WaitArrays, WaitMany(s, a) PROVE IInv'
  BY <1>8, WaitManyStep
<1> QED BY <1>2, <1>3, <1>4, <1>5, <1>6, <1>7, <1>8 DEF Begin

LEMMA WaitLoopIInv ==
  ASSUME IInv, NEW s \in Threads,
         \/ Block(s) \/ TimeOut(s) \/ SpuriousWakeup(s) \/ Relock(s)
         \/ WaitDecide(s) \/ ManyDecide(s)
  PROVE  IInv'
<1>1. TypeOK
  BY DEF IInv
<1>2. {"check", "blocked", "woken", "dequeue"} \subseteq InWait
  BY DEF InWait
<1>3. CASE Block(s)
  BY <1>1, <1>2, <1>3, LocalStep DEF Block, waiter, kernel, TypeOK
<1>4. CASE TimeOut(s) \/ SpuriousWakeup(s)
  <2>1. /\ pc[s] = "blocked" /\ pc' = [pc EXCEPT ![s] = "woken"]
        /\ UNCHANGED <<signaled, waiters, lock, call, waitables, pos, fired, signaling,
                       result, ret, hit>>
    BY <1>4 DEF TimeOut, SpuriousWakeup, waiter, kernel
  <2> QED BY <1>1, <1>2, <2>1, LocalStep DEF TypeOK
<1>5. CASE Relock(s)
  BY <1>1, <1>2, <1>5, LocalStep DEF Relock, waiter, kernel, TypeOK
<1>6. CASE WaitDecide(s)
  <2>1. /\ fired' \in [Threads -> BOOLEAN] /\ result' \in [Threads -> BOOLEAN]
        /\ \A x \in Threads : fired[x] => fired'[x]
        /\ \A x \in Threads : fired'[x] # fired[x] => x = s
    BY <1>1, <1>6 DEF WaitDecide, TypeOK
  <2> QED BY <1>2, <1>6, <2>1, LocalStep DEF WaitDecide, kernel
<1>7. CASE ManyDecide(s)
  BY <1>1, <1>2, <1>7, LocalStep DEF ManyDecide, waiter, kernel, TypeOK
<1> QED BY <1>3, <1>4, <1>5, <1>6, <1>7

LEMMA NextIInv == IInv /\ [Next]_vars => IInv'
<1> SUFFICES ASSUME IInv, [Next]_vars PROVE IInv'
  OBVIOUS
<1>1. CASE UNCHANGED vars
  <2>1. signaled \in [Events -> BOOLEAN] /\ ret \in [Threads -> Events \cup {NoEvent}]
    BY DEF IInv, TypeOK
  <2> QED BY <1>1, <2>1, BitStep DEF vars
<1>2. ASSUME NEW s \in Threads, Begin(s) PROVE IInv'
  BY <1>2, BeginIInv
<1>3. ASSUME NEW s \in Threads, Progress(s) PROVE IInv'
  BY <1>3, SignalOneStep, SignalAllStep, SignalEndStep, SignalUnlockStep,
     ExpireStep, WaitLoopIInv, WaitReturnStep, EnqueueManyLockStep,
     EnqueueManySignaledStep, EnqueueManyLastStep, ManyDequeueStep DEF Progress
<1>4. ASSUME NEW s \in Threads, SpuriousWakeup(s) PROVE IInv'
  BY <1>4, WaitLoopIInv
<1> QED BY <1>1, <1>2, <1>3, <1>4 DEF Next

LEMMA Inductive == Spec => []IInv
BY InitIInv, NextIInv, PTL DEF Spec

------------------------------------------------------------------------------
(* What the invariant implies. *)

\* Every variable keeps its type, for any number of threads and events.
THEOREM TypeCorrect == Spec => []TypeOK
<1>1. IInv => TypeOK
  BY DEF IInv
<1> QED BY <1>1, Inductive, PTL

\* Wait-lists never hold a thread that has left its wait.
THEOREM ListsAreLive == Spec => []NoDanglingWaiter
<1>1. IInv => NoDanglingWaiter
  <2> SUFFICES ASSUME IInv, NEW e \in Events
               PROVE  /\ IsInjective(waiters[e])
                      /\ \A t \in Range(waiters[e]) : pc[t] \in InWait /\ e \in Range(waitables[t])
    BY DEF NoDanglingWaiter
  <2>1. IsInjective(waiters[e])
    BY DEF IInv, Lists
  <2>2. ASSUME NEW t \in Range(waiters[e]) PROVE pc[t] \in InWait /\ e \in Range(waitables[t])
    <3>1. t \in Threads /\ pc[t] \in InWait /\ e \in Remaining(t)
      BY <2>2, Entries DEF IInv, TypeOK, Live
    <3>2. waitables[t] \in Seq(Events) /\ pos[t] \in Nat \ {0}
      BY <3>1 DEF IInv, TypeOK
    <3>3. PICK i \in pos[t] .. Len(waitables[t]) : e = waitables[t][i]
      BY <3>1 DEF Remaining
    <3>4. i \in DOMAIN waitables[t]
      BY <3>2
    <3> QED BY <3>1, <3>3, <3>4 DEF Range
  <2> QED BY <2>1, <2>2
<1> QED BY <1>1, Inductive, PTL

\* No wakeup is lost, whatever the number of waiters, signalers and events.
THEOREM WakeupsAreKept == Spec => []NoLostWakeup
<1>1. IInv => NoLostWakeup
  <2> SUFFICES ASSUME IInv, NEW t \in Threads, pc[t] = "blocked"
               PROVE  /\ ~fired[t]
                      /\ \A e \in Range(waitables[t]) : ~signaled[e] /\ t \in Range(waiters[e])
    BY DEF NoLostWakeup
  <2>1. ~fired[t]
    BY DEF IInv, Shape, ShapeOf
  <2>2. ASSUME NEW e \in Range(waitables[t]) PROVE ~signaled[e] /\ t \in Range(waiters[e])
    <3>1. e \in Events
      BY DEF IInv, TypeOK, Range
    <3>2. t \in Range(waiters[e])
      BY <2>1 DEF IInv, Enlisted
    <3>3. Range(<<>>) = {}
      BY DEF Range
    <3> QED BY <3>1, <3>2, <3>3 DEF IInv, Lists
  <2> QED BY <2>1, <2>2
<1> QED BY <1>1, Inductive, PTL

\* The waiters a running Signal has fired are still in their waits when the
\* Signal completes, for any number of waiters.
THEOREM ReturnsFollowSignals == Spec => []WaitReturnsAfterSignal
<1>1. IInv => WaitReturnsAfterSignal
  BY DEF IInv, HitWaits, WaitReturnsAfterSignal
<1> QED BY <1>1, Inductive, PTL

------------------------------------------------------------------------------
(* The locks are taken in order. *)

\* What EnqueueMany has locked comes before what it has still to lock.
InOrder ==
  \A t \in Threads : pc[t] = "lockMany" => \A e \in Held(t) : \A f \in ToLock(t) : e < f

\* A step of s leaves the locks of the other threads, and what they are about.
Minds(s) ==
  \A t \in Threads \ {s} :
    /\ pc'[t] = "lockMany" => pc[t] = "lockMany"
    /\ waitables'[t] = waitables[t]
    /\ \A e \in Events : lock'[e] = t <=> lock[e] = t

LEMMA OthersStayInOrder ==
  ASSUME InOrder, NEW s \in Threads, Minds(s), NEW t \in Threads, t # s, pc'[t] = "lockMany",
         NEW e \in Held(t)', NEW f \in ToLock(t)'
  PROVE  e < f
<1>1. Held(t)' = Held(t)
  BY DEF Minds, Held
<1>2. ToLock(t)' = ToLock(t)
  BY <1>1 DEF Minds, ToLock
<1> QED BY <1>1, <1>2 DEF InOrder, Minds

\* It is enough to look at the thread that steps.
LEMMA StayInOrder ==
  ASSUME InOrder, NEW s \in Threads, Minds(s),
         pc'[s] = "lockMany" => \A e \in Held(s)' : \A f \in ToLock(s)' : e < f
  PROVE  InOrder'
<1> SUFFICES ASSUME NEW t \in Threads, pc'[t] = "lockMany", NEW e \in Held(t)', NEW f \in ToLock(t)'
             PROVE  e < f
  BY DEF InOrder
<1>1. CASE t = s
  BY <1>1
<1>2. CASE t # s
  BY <1>2, OthersStayInOrder
<1> QED BY <1>1, <1>2

LEMMA FireMinds ==
  ASSUME TypeOK, NEW s \in Threads, NEW w \in Threads, NEW e, NEW next \in Places \ {"lockMany"},
         Fire(s, w, e, next) \/ Refuses(w), UNCHANGED <<lock, waitables>>, pc[s] # "lockMany"
  PROVE  Minds(s) /\ pc'[s] # "lockMany"
BY DEF Fire, Refuses, TypeOK, Minds

LEMMA SignalMinds ==
  ASSUME IInv, NEW s \in Threads,
         SignalOne(s) \/ SignalAll(s) \/ SignalEnd(s) \/ SignalUnlock(s)
  PROVE  Minds(s) /\ pc'[s] # "lockMany"
<1>1. TypeOK /\ pc[s] \in {"signal", "unlock"} /\ waitables[s][1] \in Events
  BY DEF IInv, Shape, ShapeOf, SignalOne, SignalAll, SignalEnd, SignalUnlock
<1> DEFINE e == waitables[s][1]
<1>2. e \in Events /\ waiters[e] \in Seq(Threads)
  BY <1>1 DEF TypeOK
<1>3. CASE SignalOne(s)
  <2>1. Head(waiters[e]) \in Threads /\ pc[s] # "lockMany"
    BY <1>2, <1>3 DEF SignalOne
  <2>2. (Fire(s, Head(waiters[e]), e, "unlock") \/ Refuses(Head(waiters[e]))) /\ UNCHANGED <<lock, waitables>>
    BY <1>3 DEF SignalOne
  <2>3. "unlock" \in Places \ {"lockMany"}
    BY DEF Places
  <2> HIDE DEF e
  <2> QED BY <1>1, <2>1, <2>2, <2>3, FireMinds
<1>4. CASE SignalAll(s)
  <2> DEFINE w == waiters[e][pos[s]]
  <2>1. w \in Threads /\ pc[s] # "lockMany"
    BY <1>1, <1>2, <1>4 DEF SignalAll, TypeOK
  <2>2. (Fire(s, w, e, "signal") \/ Refuses(w)) /\ UNCHANGED <<lock, waitables>>
    BY <1>4 DEF SignalAll, kernel
  <2>3. "signal" \in Places \ {"lockMany"}
    BY DEF Places
  <2> HIDE DEF e, w
  <2> QED BY <1>1, <2>1, <2>2, <2>3, FireMinds
<1>5. CASE SignalEnd(s)
  BY <1>1, <1>5 DEF SignalEnd, TypeOK, Minds
<1>6. CASE SignalUnlock(s)
  <2>1. lock[e] = s /\ lock' = [lock EXCEPT ![e] = NoThread] /\ NoThread \notin Threads
    BY <1>1, <1>6, EventAssumption DEF SignalUnlock, IInv, Shape, ShapeOf
  <2>2. pc' = [pc EXCEPT ![s] = "idle"] /\ waitables' = [waitables EXCEPT ![s] = <<>>]
    BY <1>6 DEF SignalUnlock
  <2> HIDE DEF e
  <2> QED BY <1>1, <1>2, <2>1, <2>2 DEF TypeOK, Minds
<1> QED BY <1>3, <1>4, <1>5, <1>6

LEMMA BeginInOrder ==
  ASSUME IInv, InOrder, NEW s \in Threads, Begin(s)
  PROVE  InOrder'
<1>1. TypeOK /\ NoThread \notin Threads /\ pc[s] = "idle"
  BY EventAssumption DEF IInv, Begin, Reset, IsSignaled, SignalAgain, Signal, WaitSignaled, WaitEnqueue, WaitMany
<1>2. CASE \E e \in Events : Reset(s, e) \/ IsSignaled(s, e) \/ SignalAgain(s, e) \/ WaitSignaled(s, e)
  <2>1. UNCHANGED <<lock, pc, waitables>>
    BY <1>2 DEF Reset, IsSignaled, SignalAgain, WaitSignaled, kernel
  <2> QED BY <1>1, <2>1, StayInOrder DEF Minds
<1>3. CASE \E e \in Events : Signal(s, e)
  <2>1. PICK e \in Events : Signal(s, e)
    BY <1>3
  <2>2. /\ lock[e] = NoThread /\ lock' = [lock EXCEPT ![e] = s] /\ pc' = [pc EXCEPT ![s] = "signal"]
        /\ waitables' = [waitables EXCEPT ![s] = <<e>>]
    BY <2>1 DEF Signal
  <2>3. Minds(s) /\ pc'[s] # "lockMany"
    BY <1>1, <2>2 DEF TypeOK, Minds
  <2> QED BY <2>3, StayInOrder
<1>4. CASE \E e \in Events, c \in {"wait", "timed"} : WaitEnqueue(s, e, c)
  <2>1. PICK e \in Events : UNCHANGED lock /\ pc' = [pc EXCEPT ![s] = "check"] /\ waitables' = [waitables EXCEPT ![s] = <<e>>]
    BY <1>4 DEF WaitEnqueue
  <2>2. Minds(s) /\ pc'[s] # "lockMany"
    BY <1>1, <2>1 DEF TypeOK, Minds
  <2> QED BY <2>2, StayInOrder
<1>5. CASE \E a \in WaitArrays : WaitMany(s, a)
  <2>1. PICK a \in WaitArrays : lock' = lock /\ pc' = [pc EXCEPT ![s] = "lockMany"] /\ waitables' = [waitables EXCEPT ![s] = a]
    BY <1>5 DEF WaitMany, kernel
  <2>2. Minds(s)
    BY <1>1, <2>1 DEF TypeOK, Minds
  <2>3. Held(s)' = {}
    BY <1>1, <2>1 DEF Held, IInv, LockOwners
  <2> QED BY <2>2, <2>3, StayInOrder
<1> QED BY <1>2, <1>3, <1>4, <1>5 DEF Begin

LEMMA LeaveMinds ==
  ASSUME TypeOK, NEW s \in Threads, NEW r, Return(s, r),
         lock' = lock \/ lock' = [f \in Events |-> IF lock[f] = s THEN NoThread ELSE lock[f]]
  PROVE  Minds(s) /\ pc'[s] # "lockMany"
<1>1. pc' = [pc EXCEPT ![s] = "idle"] /\ waitables' = [waitables EXCEPT ![s] = <<>>]
  BY DEF Return
<1>2. NoThread \notin Threads
  BY EventAssumption
<1> QED BY <1>1, <1>2 DEF TypeOK, Minds

LEMMA ProgressInOrder ==
  ASSUME IInv, InOrder, NEW s \in Threads, Progress(s) \/ SpuriousWakeup(s)
  PROVE  InOrder'
<1>1. TypeOK /\ NoThread \notin Threads
  BY EventAssumption DEF IInv
<1>2. CASE SignalOne(s) \/ SignalAll(s) \/ SignalEnd(s) \/ SignalUnlock(s)
  BY <1>2, SignalMinds, StayInOrder
<1>3. CASE Expire(s) \/ Block(s) \/ TimeOut(s) \/ Relock(s) \/ WaitDecide(s) \/ ManyDecide(s) \/ SpuriousWakeup(s)
  <2>1. UNCHANGED <<lock, waitables>> /\ \E p : p # "lockMany" /\ (pc' = pc \/ pc' = [pc EXCEPT ![s] = p])
    BY <1>3 DEF Expire, Block, TimeOut, Relock, WaitDecide, ManyDecide, SpuriousWakeup, kernel
  <2>2. Minds(s) /\ (pc'[s] = "lockMany" => pc[s] = "lockMany")
    BY <1>1, <2>1 DEF TypeOK, Minds
  <2>3. Held(s)' = Held(s) /\ ToLock(s)' = ToLock(s)
    BY <2>1 DEF Held, ToLock
  <2> QED BY <2>2, <2>3, StayInOrder DEF InOrder
<1>4. CASE WaitReturn(s)
  <2>1. lock' = lock /\ \E r : Return(s, r)
    BY <1>4 DEF WaitReturn
  <2> QED BY <1>1, <2>1, LeaveMinds, StayInOrder
<1>5. CASE EnqueueManyLock(s)
  <2> DEFINE n == NextLock(s)
  <2>1. pc[s] = "lockMany" /\ lock[n] = NoThread /\ lock' = [lock EXCEPT ![n] = s] /\ UNCHANGED <<pc, waitables>>
    BY <1>5 DEF EnqueueManyLock
  <2>2. n \in ToLock(s) /\ n \in Events /\ \A f \in ToLock(s) : n <= f
    BY <1>1, <2>1, NextLockLeast DEF IInv
  <2> HIDE DEF n
  <2>3. Minds(s)
    BY <1>1, <2>1, <2>2 DEF TypeOK, Minds
  <2>4. Held(s)' = Held(s) \cup {n}
    BY <1>1, <2>1, <2>2 DEF TypeOK, Held
  <2>5. ToLock(s)' = ToLock(s) \ {n}
    BY <2>1, <2>4 DEF ToLock
  <2>6. ASSUME NEW e \in Held(s)', NEW f \in ToLock(s)' PROVE e < f
    <3>1. f \in ToLock(s) /\ f # n
      BY <2>5
    <3>2. ToLock(s) \subseteq Range(waitables[s]) /\ Range(waitables[s]) \subseteq Events
      BY <1>1 DEF ToLock, Range, TypeOK
    <3>3. f \in Nat /\ n \in Nat
      BY <2>2, <3>1, <3>2, EventAssumption
    <3>4. CASE e = n
      BY <2>2, <3>1, <3>3, <3>4
    <3>5. CASE e \in Held(s)
      BY <2>1, <3>1, <3>5 DEF InOrder
    <3> QED BY <2>4, <3>4, <3>5
  <2> QED BY <2>3, <2>6, StayInOrder
<1>6. CASE EnqueueManySignaled(s)
  <2>1. lock' = [f \in Events |-> IF lock[f] = s THEN NoThread ELSE lock[f]] /\ \E r : Return(s, r)
    BY <1>6 DEF EnqueueManySignaled
  <2> QED BY <1>1, <2>1, LeaveMinds, StayInOrder
<1>7. CASE EnqueueManyLast(s)
  <2>1. /\ lock' = [f \in Events |-> IF lock[f] = s THEN NoThread ELSE lock[f]]
        /\ pc' = [pc EXCEPT ![s] = "check"] /\ waitables' = waitables
    BY <1>7 DEF EnqueueManyLast
  <2>2. Minds(s) /\ pc'[s] # "lockMany"
    BY <1>1, <2>1 DEF TypeOK, Minds
  <2> QED BY <2>2, StayInOrder
<1>8. CASE ManyDequeue(s)
  <2>1. lock' = lock /\ pc[s] = "dequeue" /\ ((\E r : Return(s, r)) \/ UNCHANGED <<pc, waitables>>)
    BY <1>8 DEF ManyDequeue
  <2>2. CASE \E r : Return(s, r)
    BY <1>1, <2>1, <2>2, LeaveMinds, StayInOrder
  <2>3. CASE UNCHANGED <<pc, waitables>>
    <3>1. Minds(s) /\ pc'[s] # "lockMany"
      BY <2>1, <2>3 DEF Minds
    <3> QED BY <3>1, StayInOrder
  <2> QED BY <2>1, <2>2, <2>3
<1> QED BY <1>2, <1>3, <1>4, <1>5, <1>6, <1>7, <1>8 DEF Progress

LEMMA LocksInOrder == Spec => [](IInv /\ InOrder)
<1>1. Init => InOrder
  BY DEF Init, InOrder
<1>2. IInv /\ InOrder /\ [Next]_vars => InOrder'
  <2> SUFFICES ASSUME IInv, InOrder, [Next]_vars PROVE InOrder'
    OBVIOUS
  <2>1. CASE UNCHANGED vars
    <3>1. UNCHANGED <<lock, pc, waitables>>
      BY <2>1 DEF vars
    <3> QED BY <3>1 DEF InOrder, Held, ToLock
  <2>2. CASE Next
    <3>1. PICK s \in Threads : Begin(s) \/ Progress(s) \/ SpuriousWakeup(s)
      BY <2>2 DEF Next
    <3> QED BY <3>1, BeginInOrder, ProgressInOrder
  <2> QED BY <2>1, <2>2
<1> QED BY <1>1, <1>2, Inductive, PTL DEF Spec

\* Among finitely many there is one with the greatest number.
LEMMA Greatest ==
  ASSUME NEW S, IsFiniteSet(S), S # {}, NEW f \in [S -> Nat]
  PROVE  \E m \in S : \A n \in S : f[n] <= f[m]
<1> DEFINE Has(T) == \E m \in T : \A n \in T : f[n] <= f[m]
           Bad == {T \in FiniteSubsetsOf(S) : T # {} /\ ~Has(T)}
<1>1. SUFFICES ASSUME Bad # {} PROVE FALSE
  <2>1. S \in FiniteSubsetsOf(S)
    BY DEF FiniteSubsetsOf
  <2> QED BY <1>1, <2>1
<1>2. PICK T \in Bad : \A U \in Bad : <<U, T>> \notin StrictSubsetOrdering(S)
  <2>1. Bad \subseteq FiniteSubsetsOf(S)
    OBVIOUS
  <2> HIDE DEF Bad
  <2> QED BY <1>1, <2>1, FS_StrictSubsetOrderingWellFounded, WFMin
<1>3. T \subseteq S /\ IsFiniteSet(T) /\ T # {} /\ ~Has(T)
  BY DEF FiniteSubsetsOf
<1>4. PICK t \in T : TRUE
  BY <1>3
<1> DEFINE U == T \ {t}
<1>5. U # {}
  BY <1>3, <1>4
<1>6. U \subseteq S /\ IsFiniteSet(U)
  BY <1>3, FS_Subset
<1>7. <<U, T>> \in StrictSubsetOrdering(S)
  BY <1>3, <1>4, <1>6 DEF StrictSubsetOrdering
<1>8. Has(U)
  BY <1>2, <1>5, <1>6, <1>7 DEF FiniteSubsetsOf
<1>9. PICK m \in U : \A n \in U : f[n] <= f[m]
  BY <1>8
<1>10. f[m] \in Nat /\ f[t] \in Nat /\ m \in T
  BY <1>3, <1>4, <1>9
<1>11. CASE f[t] <= f[m]
  BY <1>3, <1>9, <1>10, <1>11
<1>12. CASE ~(f[t] <= f[m])
  <2>1. \A n \in U : f[n] \in Nat
    BY <1>6
  <2>2. \A n \in U : f[n] <= f[t]
    BY <1>9, <1>10, <1>12, <2>1
  <2> QED BY <1>3, <1>4, <1>10, <2>2
<1> QED BY <1>11, <1>12

\* However many threads there are, and in whatever order they name their events,
\* no set of them waits in a circle: a Signal waits for a waiter that is about to
\* look at fired_, and of those who wait for the lock of an event its owner waits
\* for a greater one (EnqueueMany).
THEOREM NobodyWaitsInACircle ==
  IsFiniteSet(Threads) => (Spec => []NoCircularWait)
<1> SUFFICES ASSUME IsFiniteSet(Threads) PROVE Spec => []NoCircularWait
  OBVIOUS
<1>1. IInv /\ InOrder => NoCircularWait
  <2> SUFFICES ASSUME IInv, InOrder, NEW S \in (SUBSET Threads) \ {{}}
               PROVE  \E t \in S : \A s \in S : ~WaitsFor(t, s)
    BY DEF NoCircularWait
  <2> SUFFICES ASSUME \A t \in S : \E s \in S : WaitsFor(t, s) PROVE FALSE
    OBVIOUS
  <2>0. TypeOK /\ Shape /\ LockOwners /\ LockingOn /\ S \subseteq Threads /\ S # {}
    <3>1. TypeOK /\ Shape /\ LockOwners /\ LockingOn
      BY DEF IInv
    <3>2. S \subseteq Threads /\ S # {}
      OBVIOUS
    <3> QED BY <3>1, <3>2
  <2>1. ASSUME NEW t \in S PROVE pc[t] \in {"lockMany", "dequeue"}
    <3>1. PICK s \in S : WaitsFor(t, s)
      OBVIOUS
    <3>2. CASE pc[t] = "signal"
      <4>1. pc[s] = "check"
        BY <3>1, <3>2 DEF WaitsFor, WaiterLockFree
      <4>2. ~\E r \in S : WaitsFor(s, r)
        BY <4>1 DEF WaitsFor
      <4> QED BY <4>2
    <3> QED BY <3>1, <3>2 DEF WaitsFor
  <2> DEFINE Wanted(t) == IF pc[t] = "lockMany" THEN NextLock(t) ELSE waitables[t][pos[t]]
  <2>2. ASSUME NEW t \in S
        PROVE  \E s \in S : pc[s] = "lockMany" /\ Wanted(t) \in Held(s)
    <3>1. PICK s \in S : WaitsFor(t, s)
      OBVIOUS
    <3>2. lock[Wanted(t)] = s
      BY <2>1, <3>1 DEF WaitsFor
    <3>3. Wanted(t) \in Events
      <4>1. CASE pc[t] = "lockMany"
        <5>1. t \in Threads
          BY <2>0
        <5>2. NextLock(t) \in Events
          BY <2>0, <4>1, <5>1, NextLockLeast
        <5> QED BY <4>1, <5>2
      <4>2. CASE pc[t] = "dequeue"
        <5>1. pos[t] \in 1 .. Len(waitables[t]) /\ waitables[t] \in Seq(Events)
          BY <2>0, <4>2 DEF Shape, ShapeOf, TypeOK
        <5> QED BY <4>2, <5>1
      <4> QED BY <2>1, <4>1, <4>2
    <3> HIDE DEF Wanted
    <3>4. s # NoThread /\ pc[s] \in {"lockMany", "dequeue"}
      BY <2>0, <2>1, EventAssumption
    <3>5. pc[s] = "lockMany"
      BY <2>0, <3>2, <3>3, <3>4 DEF LockOwners
    <3> QED BY <3>2, <3>3, <3>5 DEF Held
  <2> DEFINE L == {t \in S : pc[t] = "lockMany"}
             f == [t \in L |-> NextLock(t)]
  <2>3. L # {} /\ IsFiniteSet(L)
    <3>1. PICK t \in S : TRUE
      BY <2>0
    <3>2. \E s \in S : pc[s] = "lockMany"
      BY <2>2, <3>1
    <3>3. L \subseteq Threads
      BY <2>0
    <3> QED BY <3>2, <3>3, FS_Subset
  <2>4. ASSUME NEW t \in L PROVE NextLock(t) \in ToLock(t) /\ NextLock(t) \in Nat
    <3>1. t \in Threads /\ pc[t] = "lockMany"
      BY <2>0
    <3> QED BY <2>0, <3>1, NextLockLeast, EventAssumption
  <2>5. f \in [L -> Nat]
    BY <2>4
  <2>6. PICK m \in L : \A n \in L : f[n] <= f[m]
    <3> HIDE DEF f, L
    <3> QED BY <2>3, <2>5, Greatest
  <2>7. PICK s \in S : pc[s] = "lockMany" /\ Wanted(m) \in Held(s)
    BY <2>2, <2>6
  <2>8. s \in L /\ Wanted(m) = NextLock(m)
    BY <2>6, <2>7
  <2>9. NextLock(m) < NextLock(s)
    <3>1. NextLock(m) \in Held(s) /\ NextLock(s) \in ToLock(s) /\ s \in Threads
      BY <2>0, <2>4, <2>7, <2>8
    <3> QED BY <2>7, <3>1 DEF InOrder
  <2>10. NextLock(s) <= NextLock(m) /\ NextLock(s) \in Nat /\ NextLock(m) \in Nat
    BY <2>4, <2>6, <2>8
  <2> QED BY <2>9, <2>10
<1> QED BY <1>1, LocksInOrder, PTL

------------------------------------------------------------------------------
(* What a wait has been answered. *)

\* The event that fired a waiter is one it waits for; before the wait is decided
\* fired_ says whether there was one, and afterwards result does (WaitMany goes
\* on only when there was).
AnswerOf(t) ==
  pc[t] \in InWait =>
    /\ signaling[t] \in Range(waitables[t]) \cup {NoEvent}
    /\ pc[t] # "dequeue" => (fired[t] <=> signaling[t] # NoEvent)
    /\ pc[t] = "dequeue" =>
         /\ fired[t]
         /\ call[t] = "many" => signaling[t] # NoEvent
         /\ call[t] # "many" => (result[t] <=> signaling[t] # NoEvent)

Answers == \A t \in Threads : AnswerOf(t)

\* A step of s leaves the waits of the other threads.
LeavesWaits(s) ==
  \A t \in Threads \ {s} :
    /\ pc'[t] = pc[t] /\ signaling'[t] = signaling[t] /\ waitables'[t] = waitables[t]
    /\ fired'[t] = fired[t] /\ call'[t] = call[t] /\ result'[t] = result[t]

LEMMA StayAnswered ==
  ASSUME Answers, NEW s \in Threads, LeavesWaits(s), AnswerOf(s)'
  PROVE  Answers'
<1> SUFFICES ASSUME NEW t \in Threads PROVE AnswerOf(t)'
  BY DEF Answers
<1>1. CASE t = s
  BY <1>1
<1>2. CASE t # s
  BY <1>2 DEF Answers, AnswerOf, LeavesWaits
<1> QED BY <1>1, <1>2

LEMMA FireAnswers ==
  ASSUME TypeOK, Live, Answers, NEW s \in Threads, pc[s] = "signal", NEW e \in Events, NEW w \in Range(waiters[e]),
         NEW next \in {"signal", "unlock"}, Fire(s, w, e, next) \/ Refuses(w),
         UNCHANGED <<waitables, call, result>>
  PROVE  Answers' /\ (Fire(s, w, e, next) => signaling[w] = NoEvent)
<1>1. w \in Threads /\ pc[w] \in InWait /\ e \in Remaining(w)
  BY Entries DEF TypeOK, Live
<1>2. e \in Range(waitables[w])
  <2>1. waitables[w] \in Seq(Events) /\ pos[w] \in Nat \ {0}
    BY <1>1 DEF TypeOK
  <2>2. PICK i \in pos[w] .. Len(waitables[w]) : e = waitables[w][i]
    BY <1>1 DEF Remaining
  <2>3. i \in DOMAIN waitables[w]
    BY <2>1
  <2> QED BY <2>2, <2>3 DEF Range
<1>3. CASE Refuses(w)
  BY <1>3 DEF Refuses, Fire, Answers, AnswerOf
<1>4. CASE Fire(s, w, e, next)
  <2>1. /\ ~fired[w] /\ pc[w] # "check"
        /\ fired' = [fired EXCEPT ![w] = TRUE] /\ signaling' = [signaling EXCEPT ![w] = e]
        /\ pc' = [pc EXCEPT ![s] = next, ![w] = IF @ = "blocked" THEN "woken" ELSE @]
    BY <1>4 DEF Fire, WaiterLockFree
  <2>2. AnswerOf(w)
    BY <1>1 DEF Answers
  <2>3. pc[w] # "dequeue" /\ signaling[w] = NoEvent
    BY <1>1, <2>1, <2>2 DEF AnswerOf
  <2>4. pc[w] \in {"blocked", "woken"} /\ s # w
    BY <1>1, <2>1, <2>3 DEF InWait
  <2>5. pc'[w] = "woken" /\ pc'[s] = next /\ \A t \in Threads : t # s /\ t # w => pc'[t] = pc[t]
    BY <1>1, <2>1, <2>4 DEF TypeOK
  <2>6. /\ fired'[w] = TRUE /\ signaling'[w] = e
        /\ \A t \in Threads : t # w => fired'[t] = fired[t] /\ signaling'[t] = signaling[t]
    BY <1>1, <2>1 DEF TypeOK
  <2>7. ASSUME NEW t \in Threads PROVE AnswerOf(t)'
    <3>1. CASE t = w
      BY <1>2, <2>5, <2>6, <3>1, EventAssumption DEF AnswerOf
    <3>2. CASE t = s
      BY <2>5, <3>2 DEF AnswerOf, InWait
    <3>3. CASE t # w /\ t # s
      BY <2>5, <2>6, <3>3 DEF Answers, AnswerOf
    <3> QED BY <3>1, <3>2, <3>3
  <2> QED BY <2>3, <2>7 DEF Answers
<1> QED BY <1>3, <1>4

\* The waiter SignalOne or SignalAll is about to fire.
LEMMA SignalOneWaiter ==
  ASSUME IInv, NEW s \in Threads, SignalOne(s)
  PROVE  \E e \in Events : \E w \in Range(waiters[e]) :
           /\ pc[s] = "signal" /\ waitables[s] = <<e>> /\ lock[e] = s /\ ~signaled[e]
           /\ e \notin Manual /\ (Fire(s, w, e, "unlock") \/ Refuses(w))
           /\ UNCHANGED <<signaled, lock, waitables, call, result, ret>>
<1>1. TypeOK /\ pc[s] = "signal"
  BY DEF IInv, SignalOne
<1>2. PICK e \in Events : waitables[s] = <<e>> /\ lock[e] = s /\ ~signaled[e]
  BY <1>1 DEF IInv, Shape, ShapeOf
<1>3. waitables[s][1] = e
  BY <1>2
<1>4. waiters[e] # <<>> /\ waiters[e] \in Seq(Threads)
  BY <1>1, <1>3 DEF SignalOne, TypeOK
<1>5. Head(waiters[e]) \in Range(waiters[e])
  BY <1>4 DEF Range
<1>6. /\ e \notin Manual /\ (Fire(s, Head(waiters[e]), e, "unlock") \/ Refuses(Head(waiters[e])))
      /\ UNCHANGED <<signaled, lock, waitables, call, result, ret>>
  BY <1>3 DEF SignalOne
<1> QED BY <1>1, <1>2, <1>5, <1>6

LEMMA SignalAllWaiter ==
  ASSUME IInv, NEW s \in Threads, SignalAll(s)
  PROVE  \E e \in Events : \E w \in Range(waiters[e]) :
           /\ pc[s] = "signal" /\ waitables[s] = <<e>> /\ lock[e] = s /\ ~signaled[e]
           /\ e \in Manual /\ (Fire(s, w, e, "signal") \/ Refuses(w))
           /\ UNCHANGED <<signaled, lock, waitables, call, result, ret>>
<1>1. TypeOK /\ pc[s] = "signal"
  BY DEF IInv, SignalAll
<1>2. PICK e \in Events : waitables[s] = <<e>> /\ lock[e] = s /\ ~signaled[e]
  BY <1>1 DEF IInv, Shape, ShapeOf
<1>3. waitables[s][1] = e
  BY <1>2
<1>4. pos[s] <= Len(waiters[e]) /\ waiters[e] \in Seq(Threads) /\ pos[s] \in Nat \ {0}
  BY <1>1, <1>3 DEF SignalAll, TypeOK
<1>5. waiters[e][pos[s]] \in Range(waiters[e])
  BY <1>4, Entries
<1>6. /\ e \in Manual /\ (Fire(s, waiters[e][pos[s]], e, "signal") \/ Refuses(waiters[e][pos[s]]))
      /\ UNCHANGED <<signaled, lock, waitables, call, result, ret>>
  BY <1>3 DEF SignalAll, kernel
<1> QED BY <1>1, <1>2, <1>5, <1>6

LEMMA BeginAnswers ==
  ASSUME IInv, Answers, NEW s \in Threads, Begin(s)
  PROVE  Answers'
<1>1. /\ TypeOK /\ pc[s] = "idle" /\ ~fired[s] /\ signaling[s] = NoEvent
  <2>1. TypeOK /\ pc[s] = "idle"
    BY DEF IInv, Begin, Reset, IsSignaled, SignalAgain, Signal, WaitSignaled, WaitEnqueue, WaitMany
  <2>2. ShapeOf(s)
    BY DEF IInv, Shape
  <2> QED BY <2>1, <2>2 DEF ShapeOf, InWait
<1>2. UNCHANGED <<fired, signaling, result>>
  BY DEF Begin, Reset, IsSignaled, SignalAgain, Signal, WaitSignaled, WaitEnqueue, WaitMany, waiter
<1>3. CASE \E e \in Events : Reset(s, e) \/ IsSignaled(s, e) \/ SignalAgain(s, e) \/ WaitSignaled(s, e)
  <2>1. UNCHANGED <<pc, call, waitables>>
    BY <1>3 DEF Reset, IsSignaled, SignalAgain, WaitSignaled
  <2> QED BY <1>2, <2>1 DEF Answers, AnswerOf
<1>4. CASE \E e \in Events : Signal(s, e)
  <2>1. PICK e \in Events : Signal(s, e)
    BY <1>4
  <2>2. LeavesWaits(s) /\ pc'[s] = "signal"
    BY <1>1, <1>2, <2>1 DEF Signal, TypeOK, LeavesWaits
  <2> QED BY <2>2, StayAnswered DEF AnswerOf, InWait
<1>5. CASE \E e \in Events, c \in {"wait", "timed"} : WaitEnqueue(s, e, c)
  <2>1. PICK e \in Events, c \in {"wait", "timed"} : WaitEnqueue(s, e, c)
    BY <1>5
  <2>2. LeavesWaits(s) /\ pc'[s] = "check"
    BY <1>1, <1>2, <2>1 DEF WaitEnqueue, TypeOK, LeavesWaits
  <2> QED BY <1>1, <1>2, <2>2, StayAnswered DEF AnswerOf
<1>6. CASE \E a \in WaitArrays : WaitMany(s, a)
  <2>1. PICK a \in WaitArrays : WaitMany(s, a)
    BY <1>6
  <2>2. LeavesWaits(s) /\ pc'[s] = "lockMany"
    BY <1>1, <1>2, <2>1 DEF WaitMany, TypeOK, LeavesWaits
  <2> QED BY <2>2, StayAnswered DEF AnswerOf, InWait
<1> QED BY <1>3, <1>4, <1>5, <1>6 DEF Begin

LEMMA ReturnAnswers ==
  ASSUME TypeOK, Answers, NEW s \in Threads, NEW r, Return(s, r)
  PROVE  Answers'
<1>1. LeavesWaits(s) /\ pc'[s] = "idle"
  BY DEF Return, TypeOK, LeavesWaits
<1> QED BY <1>1, StayAnswered DEF AnswerOf, InWait

LEMMA ProgressAnswers ==
  ASSUME IInv, Answers, NEW s \in Threads, Progress(s) \/ SpuriousWakeup(s)
  PROVE  Answers'
<1>1. TypeOK /\ Live /\ ShapeOf(s) /\ AnswerOf(s)
  BY DEF IInv, Shape, Answers
<1>2. CASE SignalOne(s)
  <2>1. PICK e \in Events : \E w \in Range(waiters[e]) :
           /\ pc[s] = "signal" /\ (Fire(s, w, e, "unlock") \/ Refuses(w))
           /\ UNCHANGED <<waitables, call, result>>
    BY <1>2, SignalOneWaiter
  <2>2. PICK w \in Range(waiters[e]) :
           /\ pc[s] = "signal" /\ (Fire(s, w, e, "unlock") \/ Refuses(w))
           /\ UNCHANGED <<waitables, call, result>>
    BY <2>1
  <2>3. "unlock" \in {"signal", "unlock"}
    OBVIOUS
  <2> QED BY <1>1, <2>2, <2>3, FireAnswers
<1>3. CASE SignalAll(s)
  <2>1. PICK e \in Events : \E w \in Range(waiters[e]) :
           /\ pc[s] = "signal" /\ (Fire(s, w, e, "signal") \/ Refuses(w))
           /\ UNCHANGED <<waitables, call, result>>
    BY <1>3, SignalAllWaiter
  <2>2. PICK w \in Range(waiters[e]) :
           /\ pc[s] = "signal" /\ (Fire(s, w, e, "signal") \/ Refuses(w))
           /\ UNCHANGED <<waitables, call, result>>
    BY <2>1
  <2>3. "signal" \in {"signal", "unlock"}
    OBVIOUS
  <2> QED BY <1>1, <2>2, <2>3, FireAnswers
<1>4. CASE SignalEnd(s) \/ SignalUnlock(s)
  <2>1. LeavesWaits(s) /\ pc'[s] \in {"unlock", "idle"}
    BY <1>1, <1>4 DEF SignalEnd, SignalUnlock, waiter, TypeOK, LeavesWaits
  <2> QED BY <2>1, StayAnswered DEF AnswerOf, InWait
<1>5. CASE Expire(s)
  <2>1. /\ call[s] # "many" /\ call'[s] # "many" /\ LeavesWaits(s)
        /\ UNCHANGED <<pc, waitables, fired, signaling, result>>
    BY <1>1, <1>5 DEF Expire, waiter, TypeOK, LeavesWaits
  <2> QED BY <1>1, <2>1, StayAnswered DEF AnswerOf
<1>6. CASE Block(s) \/ TimeOut(s) \/ Relock(s) \/ SpuriousWakeup(s)
  <2>1. /\ pc[s] \in {"check", "blocked", "woken"} /\ pc'[s] \in {"check", "blocked", "woken"} /\ LeavesWaits(s)
        /\ UNCHANGED <<call, waitables, fired, signaling, result>>
    BY <1>1, <1>6 DEF Block, TimeOut, Relock, SpuriousWakeup, waiter, TypeOK, LeavesWaits
  <2> QED BY <1>1, <2>1, StayAnswered DEF AnswerOf, InWait
<1>7. CASE WaitDecide(s)
  <2>1. /\ pc[s] = "check" /\ call[s] # "many" /\ pc'[s] = "dequeue" /\ LeavesWaits(s)
        /\ fired'[s] /\ result'[s] = fired[s]
        /\ UNCHANGED <<call, waitables, signaling>>
    BY <1>1, <1>7 DEF WaitDecide, TypeOK, LeavesWaits
  <2> QED BY <1>1, <2>1, StayAnswered DEF AnswerOf, InWait
<1>8. CASE ManyDecide(s)
  <2>1. /\ pc[s] = "check" /\ call[s] = "many" /\ fired[s] /\ pc'[s] = "dequeue" /\ LeavesWaits(s)
        /\ UNCHANGED <<call, waitables, fired, signaling, result>>
    BY <1>1, <1>8 DEF ManyDecide, waiter, TypeOK, LeavesWaits
  <2> QED BY <1>1, <2>1, StayAnswered DEF AnswerOf, InWait
<1>9. CASE WaitReturn(s) \/ EnqueueManySignaled(s)
  <2>1. \E r : Return(s, r)
    BY <1>9 DEF WaitReturn, EnqueueManySignaled
  <2> QED BY <1>1, <2>1, ReturnAnswers
<1>10. CASE EnqueueManyLock(s)
  BY <1>10 DEF EnqueueManyLock, waiter, Answers, AnswerOf
<1>11. CASE EnqueueManyLast(s)
  <2>1. /\ pc[s] = "lockMany" /\ pc'[s] = "check" /\ LeavesWaits(s)
        /\ UNCHANGED <<fired, signaling>>
    BY <1>1, <1>11 DEF EnqueueManyLast, waiter, TypeOK, LeavesWaits
  <2>2. ~fired[s] /\ signaling[s] = NoEvent
    BY <1>1, <2>1 DEF ShapeOf, InWait
  <2> QED BY <2>1, <2>2, StayAnswered DEF AnswerOf
<1>12. CASE ManyDequeue(s)
  <2>1. (\E r : Return(s, r)) \/ UNCHANGED <<pc, call, waitables, fired, signaling, result>>
    BY <1>12 DEF ManyDequeue, waiter
  <2>2. CASE UNCHANGED <<pc, call, waitables, fired, signaling, result>>
    BY <2>2 DEF Answers, AnswerOf
  <2> QED BY <1>1, <2>1, <2>2, ReturnAnswers
<1> QED BY <1>2, <1>3, <1>4, <1>5, <1>6, <1>7, <1>8, <1>9, <1>10, <1>11, <1>12 DEF Progress

LEMMA Answered == Spec => [](IInv /\ Answers)
<1>1. Init => Answers
  BY DEF Init, Answers, AnswerOf, InWait
<1>2. IInv /\ Answers /\ [Next]_vars => Answers'
  <2> SUFFICES ASSUME IInv, Answers, [Next]_vars PROVE Answers'
    OBVIOUS
  <2>1. CASE UNCHANGED vars
    BY <2>1 DEF vars, Answers, AnswerOf
  <2>2. CASE Next
    <3>1. PICK s \in Threads : Begin(s) \/ Progress(s) \/ SpuriousWakeup(s)
      BY <2>2 DEF Next
    <3> QED BY <3>1, BeginAnswers, ProgressAnswers
  <2> QED BY <2>1, <2>2
<1> QED BY <1>1, <1>2, Inductive, PTL DEF Spec

------------------------------------------------------------------------------
(* The refinement. *)

\* The state of the contract.
Token == [e \in Events |-> signaled[e] \/ \E s \in Threads : pc[s] = "signal" /\ waitables[s] = <<e>>]
Wants(t) == IF pc[t] \in InWait \cup {"lockMany"} THEN Range(waitables[t]) ELSE {}
Want == [t \in Threads |-> Wants(t)]

Stutter == Token' = Token /\ Want' = Want /\ signaling' = signaling /\ ret' = ret

\* The actions of the contract in terms of these.
LEMMA ContractSignal ==
  ASSUME NEW t \in Threads, NEW e \in Events, Want[t] = {}, Token' = [Token EXCEPT ![e] = TRUE], Want' = Want,
         signaling' = signaling, ret' = [ret EXCEPT ![t] = NoEvent]
  PROVE  Contract!Next
<1>1. Contract!Signal(t, e)
  BY DEF Contract!Signal, Contract!Forget, Token, Want, Wants
<1> QED BY <1>1 DEF Contract!Next

LEMMA ContractReset ==
  ASSUME NEW t \in Threads, NEW e \in Events, Want[t] = {}, Token' = [Token EXCEPT ![e] = FALSE], Want' = Want,
         signaling' = signaling, ret' = [ret EXCEPT ![t] = NoEvent]
  PROVE  Contract!Next
<1>1. Contract!Reset(t, e)
  BY DEF Contract!Reset, Contract!Forget, Token, Want, Wants
<1> QED BY <1>1 DEF Contract!Next

LEMMA ContractTryTake ==
  ASSUME NEW t \in Threads, NEW e \in Events, Want[t] = {} \/ e \in Want[t], signaling[t] = NoEvent,
         Token[e], Token' = [Token EXCEPT ![e] = e \in Manual], Want' = [Want EXCEPT ![t] = {}],
         signaling' = signaling, ret' = [ret EXCEPT ![t] = e]
  PROVE  Contract!Next
<1>1. Contract!TryTake(t, e)
  BY DEF Contract!TryTake, Contract!Take, Token, Want, Wants
<1> QED BY <1>1 DEF Contract!Next

LEMMA ContractMiss ==
  ASSUME NEW t \in Threads, NEW e \in Events, Want[t] = {}, ~Token[e], Token' = Token, Want' = Want,
         signaling' = signaling, ret' = [ret EXCEPT ![t] = NoEvent]
  PROVE  Contract!Next
<1>1. Contract!Miss(t, e)
  BY DEF Contract!Miss, Contract!Forget, Token, Want, Wants
<1> QED BY <1>1 DEF Contract!Next

LEMMA ContractAsk ==
  ASSUME NEW t \in Threads, NEW S \in SUBSET Events, Want[t] = {}, S # {}, Token' = Token,
         Want' = [Want EXCEPT ![t] = S], signaling' = signaling, ret' = [ret EXCEPT ![t] = NoEvent]
  PROVE  Contract!Next
<1>1. Contract!Ask(t, S)
  BY DEF Contract!Ask, Contract!Forget, Token, Want, Wants
<1> QED BY <1>1 DEF Contract!Next

LEMMA ContractConsume ==
  ASSUME NEW t \in Threads, NEW e \in Events, e \in Want[t], signaling[t] = NoEvent,
         Token[e], Token' = [Token EXCEPT ![e] = e \in Manual], Want' = Want,
         signaling' = [signaling EXCEPT ![t] = e], ret' = ret
  PROVE  Contract!Next
<1>1. Contract!Consume(t, e)
  BY DEF Contract!Consume, Contract!Take, Token, Want, Wants
<1> QED BY <1>1 DEF Contract!Next

LEMMA ContractDone ==
  ASSUME NEW t \in Threads, Want[t] # {}, Token' = Token, Want' = [Want EXCEPT ![t] = {}],
         signaling' = [signaling EXCEPT ![t] = NoEvent], ret' = [ret EXCEPT ![t] = signaling[t]]
  PROVE  Contract!Next
<1>1. Contract!Done(t)
  BY DEF Contract!Done, Token, Want, Wants
<1> QED BY <1>1 DEF Contract!Next

\* An event counts as signaled from the moment a Signal owns its lock.
Signalling(e) == lock[e] # NoThread /\ pc[lock[e]] = "signal"
Given(e) == signaled[e] \/ Signalling(e)

LEMMA TokenGiven == IInv => \A f \in Events : Token[f] <=> Given(f)
<1> SUFFICES ASSUME IInv, NEW e \in Events PROVE Token[e] <=> Given(e)
  OBVIOUS
<1>1. ASSUME NEW s \in Threads, pc[s] = "signal", waitables[s] = <<e>> PROVE Signalling(e)
  <2>1. waitables[s][1] = e /\ s # NoThread
    BY <1>1, EventAssumption
  <2> QED BY <1>1, <2>1 DEF IInv, Shape, ShapeOf, Signalling
<1>2. ASSUME Signalling(e) PROVE \E s \in Threads : pc[s] = "signal" /\ waitables[s] = <<e>>
  BY <1>2 DEF IInv, TypeOK, LockOwners, Signalling
<1> QED BY <1>1, <1>2 DEF Token, Given

LEMMA TokenGivenNext == IInv' => \A f \in Events : Token'[f] <=> Given(f)'
<1>1. (IInv => \A f \in Events : Token[f] <=> Given(f))'
  BY TokenGiven, PTL
<1> QED BY <1>1

LEMMA TokenStays ==
  ASSUME IInv, IInv', \A f \in Events : Given(f)' <=> Given(f)
  PROVE  Token' = Token
<1>1. \A f \in Events : Token'[f] <=> Given(f)'
  BY TokenGivenNext
<1>2. \A f \in Events : Token'[f] <=> Token[f]
  BY <1>1, TokenGiven
<1>3. \A f \in Events : Token'[f] \in BOOLEAN /\ Token[f] \in BOOLEAN
  BY DEF Token
<1>4. DOMAIN Token = Events /\ DOMAIN Token' = Events
  BY DEF Token
<1>5. Token = [f \in Events |-> Token[f]] /\ Token' = [f \in Events |-> Token'[f]]
  BY DEF Token
<1> QED BY <1>2, <1>3, <1>5

LEMMA TokenMoves ==
  ASSUME IInv, IInv', NEW e \in Events, NEW b \in BOOLEAN, Given(e)' <=> b,
         \A f \in Events : f # e => (Given(f)' <=> Given(f))
  PROVE  Token' = [Token EXCEPT ![e] = b]
<1>1. \A f \in Events : Token'[f] <=> Given(f)'
  BY TokenGivenNext
<1>2. \A f \in Events : Token'[f] <=> IF f = e THEN b ELSE Token[f]
  BY <1>1, TokenGiven
<1>3. \A f \in Events : Token'[f] \in BOOLEAN /\ Token[f] \in BOOLEAN
  BY DEF Token
<1>4. Token = [f \in Events |-> Token[f]] /\ Token' = [f \in Events |-> Token'[f]]
  BY DEF Token
<1> QED BY <1>2, <1>3, <1>4

\* A step of s that neither begins nor ends a walk of Signal.
LEMMA NotSignalling ==
  ASSUME NEW s \in Threads, TypeOK, TypeOK', pc[s] # "signal", pc'[s] # "signal",
         \A x \in Threads \ {s} : pc'[x] = pc[x],
         \A f \in Events : lock'[f] # lock[f] => lock[f] \in {s, NoThread} /\ lock'[f] \in {s, NoThread}
  PROVE  \A f \in Events : Signalling(f)' <=> Signalling(f)
BY DEF Signalling, TypeOK

\* What s waits for.
LEMMA WantMoves ==
  ASSUME NEW s \in Threads, \A x \in Threads \ {s} : pc'[x] = pc[x] /\ waitables'[x] = waitables[x]
  PROVE  Want' = [Want EXCEPT ![s] = Wants(s)']
BY DEF Want, Wants

LEMMA WantStays ==
  ASSUME NEW s \in Threads, \A x \in Threads \ {s} : pc'[x] = pc[x] /\ waitables'[x] = waitables[x],
         Wants(s)' = Wants(s)
  PROVE  Want' = Want
BY DEF Want, Wants

\* A step of s that is no part of Signal: the bit of e becomes b.
LEMMA BitMoves ==
  ASSUME IInv, IInv', NEW s \in Threads, NEW e \in Events, NEW b \in BOOLEAN,
         pc[s] # "signal", pc'[s] # "signal", \A x \in Threads \ {s} : pc'[x] = pc[x],
         \A f \in Events : lock'[f] # lock[f] => lock[f] \in {s, NoThread} /\ lock'[f] \in {s, NoThread},
         lock[e] = NoThread, signaled' = [signaled EXCEPT ![e] = b]
  PROVE  Token' = [Token EXCEPT ![e] = b]
<1>1. TypeOK /\ TypeOK'
  BY DEF IInv
<1>2. \A f \in Events : Signalling(f)' <=> Signalling(f)
  BY <1>1, NotSignalling
<1>3. ~Signalling(e)
  BY DEF Signalling
<1>4. Given(e)' <=> b
  BY <1>1, <1>2, <1>3 DEF Given, TypeOK
<1>5. \A f \in Events : f # e => (Given(f)' <=> Given(f))
  BY <1>1, <1>2 DEF Given, TypeOK
<1> QED BY <1>4, <1>5, TokenMoves

LEMMA BitStays ==
  ASSUME IInv, IInv', NEW s \in Threads,
         pc[s] # "signal", pc'[s] # "signal", \A x \in Threads \ {s} : pc'[x] = pc[x],
         \A f \in Events : lock'[f] # lock[f] => lock[f] \in {s, NoThread} /\ lock'[f] \in {s, NoThread},
         signaled' = signaled
  PROVE  Token' = Token
<1>1. TypeOK /\ TypeOK'
  BY DEF IInv
<1>2. \A f \in Events : Signalling(f)' <=> Signalling(f)
  BY <1>1, NotSignalling
<1>3. \A f \in Events : Given(f)' <=> Given(f)
  BY <1>2 DEF Given
<1> QED BY <1>3, TokenStays

LEMMA BeginSimulates ==
  ASSUME IInv, IInv', NEW s \in Threads, Begin(s)
  PROVE  Contract!Next
<1>1. /\ TypeOK /\ pc[s] = "idle" /\ signaling[s] = NoEvent
  <2>1. TypeOK /\ pc[s] = "idle"
    BY DEF IInv, Begin, Reset, IsSignaled, SignalAgain, Signal, WaitSignaled, WaitEnqueue, WaitMany
  <2>2. ShapeOf(s)
    BY DEF IInv, Shape
  <2> QED BY <2>1, <2>2 DEF ShapeOf, InWait
<1>2. Want[s] = {} /\ signaling' = signaling
  <2>1. signaling' = signaling
    BY DEF Begin, Reset, IsSignaled, SignalAgain, Signal, WaitSignaled, WaitEnqueue, WaitMany, waiter
  <2> QED BY <1>1, <2>1 DEF Want, Wants, InWait
<1>3. ASSUME NEW e \in Events, lock[e] = NoThread, UNCHANGED <<pc, waitables>>, UNCHANGED lock
      PROVE  /\ Token[e] <=> signaled[e]
             /\ Want' = Want
             /\ \A b \in BOOLEAN : signaled' = [signaled EXCEPT ![e] = b] => Token' = [Token EXCEPT ![e] = b]
  <2>1. Token[e] <=> signaled[e]
    BY <1>3, TokenGiven DEF Given, Signalling
  <2>2. Want' = Want
    BY <1>3 DEF Want, Wants
  <2> QED BY <1>1, <1>3, <2>1, <2>2, BitMoves
<1>4. ASSUME NEW e \in Events, Reset(s, e) PROVE Contract!Next
  <2>1. /\ lock[e] = NoThread /\ signaled' = [signaled EXCEPT ![e] = FALSE] /\ ret' = [ret EXCEPT ![s] = NoEvent]
        /\ UNCHANGED <<lock, pc, waitables>>
    BY <1>4 DEF Reset, NoAnswer
  <2>2. Want' = Want /\ Token' = [Token EXCEPT ![e] = FALSE]
    BY <1>3, <2>1
  <2> QED BY <1>2, <2>1, <2>2, ContractReset
<1>5. ASSUME NEW e \in Events, IsSignaled(s, e) PROVE Contract!Next
  <2>1. /\ lock[e] = NoThread /\ signaled' = [signaled EXCEPT ![e] = signaled[e] /\ e \in Manual]
        /\ ret' = [ret EXCEPT ![s] = IF signaled[e] THEN e ELSE NoEvent]
        /\ UNCHANGED <<lock, pc, waitables>>
    BY <1>5 DEF IsSignaled, TakeSignal
  <2>2. Want' = Want /\ (Token[e] <=> signaled[e]) /\ Token' = [Token EXCEPT ![e] = signaled[e] /\ e \in Manual]
    BY <1>3, <2>1
  <2>3. CASE signaled[e]
    <3>1. Token' = [Token EXCEPT ![e] = e \in Manual]
      BY <2>2, <2>3
    <3>2. Want' = [Want EXCEPT ![s] = {}]
      BY <1>2, <2>2 DEF Want
    <3>3. ret' = [ret EXCEPT ![s] = e]
      BY <2>1, <2>3
    <3> QED BY <1>1, <1>2, <2>2, <2>3, <3>1, <3>2, <3>3, ContractTryTake
  <2>4. CASE ~signaled[e]
    <3>1. Token' = [Token EXCEPT ![e] = FALSE]
      BY <2>2, <2>4
    <3>2. Token[e] = FALSE
      BY <2>2, <2>4 DEF Token
    <3>3. Token' = Token
      BY <3>1, <3>2 DEF Token
    <3>4. ret' = [ret EXCEPT ![s] = NoEvent]
      BY <2>1, <2>4
    <3> QED BY <1>2, <2>2, <2>4, <3>3, <3>4, ContractMiss
  <2> QED BY <2>3, <2>4
<1>6. ASSUME NEW e \in Events, SignalAgain(s, e) PROVE Contract!Next
  <2>1. /\ lock[e] = NoThread /\ signaled[e] /\ ret' = [ret EXCEPT ![s] = NoEvent]
        /\ UNCHANGED <<signaled, lock, pc, waitables>>
    BY <1>6 DEF SignalAgain, NoAnswer, kernel
  <2>2. signaled[e] = TRUE /\ signaled' = [signaled EXCEPT ![e] = TRUE]
    BY <1>1, <2>1 DEF TypeOK
  <2>3. Want' = Want /\ Token' = [Token EXCEPT ![e] = TRUE]
    BY <1>3, <2>1, <2>2
  <2> QED BY <1>2, <2>1, <2>3, ContractSignal
<1>7. ASSUME NEW e \in Events, Signal(s, e) PROVE Contract!Next
  <2>1. /\ lock[e] = NoThread /\ lock' = [lock EXCEPT ![e] = s] /\ pc' = [pc EXCEPT ![s] = "signal"]
        /\ waitables' = [waitables EXCEPT ![s] = <<e>>] /\ ret' = [ret EXCEPT ![s] = NoEvent] /\ signaled' = signaled
    BY <1>7 DEF Signal, NoAnswer
  <2>2. Want' = Want
    <3>1. Wants(s)' = {} /\ Wants(s) = {}
      BY <1>1, <2>1 DEF Wants, InWait, TypeOK
    <3> QED BY <1>1, <2>1, <3>1, WantStays DEF TypeOK
  <2>3. lock'[e] = s /\ pc'[s] = "signal" /\ s # NoThread
    BY <1>1, <2>1, EventAssumption DEF TypeOK
  <2>4. Given(e)' <=> TRUE
    BY <2>3 DEF Given, Signalling
  <2>5. ASSUME NEW f \in Events, f # e PROVE Given(f)' <=> Given(f)
    <3>1. lock'[f] = lock[f] /\ lock[f] \in Threads \cup {NoThread}
      BY <1>1, <2>1, <2>5 DEF TypeOK
    <3>2. lock[f] # s
      BY <1>1, <2>3 DEF IInv, LockOwners
    <3>3. lock[f] \in Threads => pc'[lock[f]] = pc[lock[f]]
      BY <1>1, <2>1, <3>2 DEF TypeOK
    <3> QED BY <2>1, <3>1, <3>3 DEF Given, Signalling
  <2>6. Token' = [Token EXCEPT ![e] = TRUE]
    BY <2>4, <2>5, TokenMoves
  <2> QED BY <1>2, <2>1, <2>2, <2>6, ContractSignal
<1>8. ASSUME NEW e \in Events, WaitSignaled(s, e) PROVE Contract!Next
  <2>1. /\ lock[e] = NoThread /\ signaled' = [signaled EXCEPT ![e] = signaled[e] /\ e \in Manual]
        /\ signaled[e] /\ ret' = [ret EXCEPT ![s] = e]
        /\ UNCHANGED <<lock, pc, waitables>>
    BY <1>8 DEF WaitSignaled, TakeSignal
  <2>2. Want' = Want /\ (Token[e] <=> signaled[e]) /\ Token' = [Token EXCEPT ![e] = signaled[e] /\ e \in Manual]
    BY <1>3, <2>1
  <2>3. Token' = [Token EXCEPT ![e] = e \in Manual]
    BY <2>1, <2>2
  <2>4. Want' = [Want EXCEPT ![s] = {}]
    BY <1>2, <2>2 DEF Want
  <2> QED BY <1>1, <1>2, <2>1, <2>2, <2>3, <2>4, ContractTryTake
<1>9. ASSUME NEW S \in SUBSET Events, S # {}, ret' = [ret EXCEPT ![s] = NoEvent], UNCHANGED <<signaled, lock>>,
             NEW p \in {"check", "lockMany"}, pc' = [pc EXCEPT ![s] = p],
             NEW a, Range(a) = S, waitables' = [waitables EXCEPT ![s] = a]
      PROVE  Contract!Next
  <2>1. Wants(s)' = S
    BY <1>1, <1>9 DEF Wants, InWait, TypeOK
  <2>2. Want' = [Want EXCEPT ![s] = S]
    BY <1>1, <1>9, <2>1, WantMoves DEF TypeOK
  <2>3. Token' = Token
    BY <1>1, <1>9, BitStays DEF TypeOK
  <2> QED BY <1>2, <1>9, <2>2, <2>3, ContractAsk
<1>10. ASSUME NEW e \in Events, NEW c \in {"wait", "timed"}, WaitEnqueue(s, e, c) PROVE Contract!Next
  <2>1. /\ ret' = [ret EXCEPT ![s] = NoEvent] /\ UNCHANGED <<signaled, lock>>
        /\ pc' = [pc EXCEPT ![s] = "check"] /\ waitables' = [waitables EXCEPT ![s] = <<e>>]
    BY <1>10 DEF WaitEnqueue, NoAnswer
  <2>2. Range(<<e>>) = {e}
    BY DEF Range
  <2> QED BY <1>9, <2>1, <2>2
<1>11. ASSUME NEW a \in WaitArrays, WaitMany(s, a) PROVE Contract!Next
  <2>1. /\ ret' = [ret EXCEPT ![s] = NoEvent] /\ UNCHANGED <<signaled, lock>>
        /\ pc' = [pc EXCEPT ![s] = "lockMany"] /\ waitables' = [waitables EXCEPT ![s] = a]
    BY <1>11 DEF WaitMany, NoAnswer, kernel
  <2>2. Range(a) \in SUBSET Events /\ Range(a) # {}
    <3>1. a \in Seq(Events) /\ a # <<>>
      BY EventAssumption
    <3>2. 1 \in DOMAIN a
      BY <3>1
    <3> QED BY <3>1, <3>2 DEF Range
  <2> QED BY <1>9, <2>1, <2>2
<1> QED BY <1>4, <1>5, <1>6, <1>7, <1>8, <1>10, <1>11 DEF Begin

\* A turn of Signal that fires w: w's wait takes the bit Signal has brought.
LEMMA FireSimulates ==
  ASSUME IInv, IInv', Answers, NEW s \in Threads, NEW e \in Events, NEW w \in Range(waiters[e]),
         pc[s] = "signal", waitables[s] = <<e>>, lock[e] = s, ~signaled[e],
         NEW next \in {"signal", "unlock"}, next = "signal" <=> e \in Manual,
         Fire(s, w, e, next), UNCHANGED <<signaled, lock, waitables, call, result, ret>>
  PROVE  Contract!Next
<1>1. TypeOK /\ Live /\ s # NoThread
  BY EventAssumption DEF IInv
<1>2. w \in Threads /\ pc[w] \in InWait /\ e \in Remaining(w)
  BY <1>1, Entries DEF TypeOK, Live
<1>3. e \in Range(waitables[w])
  <2>1. waitables[w] \in Seq(Events) /\ pos[w] \in Nat \ {0}
    BY <1>1, <1>2 DEF TypeOK
  <2>2. PICK i \in pos[w] .. Len(waitables[w]) : e = waitables[w][i]
    BY <1>2 DEF Remaining
  <2>3. i \in DOMAIN waitables[w]
    BY <2>1
  <2> QED BY <2>2, <2>3 DEF Range
<1>4. /\ signaling' = [signaling EXCEPT ![w] = e]
      /\ pc' = [pc EXCEPT ![s] = next, ![w] = IF @ = "blocked" THEN "woken" ELSE @]
  BY DEF Fire
<1>5. s # w
  BY <1>2 DEF InWait
<1>6. /\ pc'[s] = next /\ pc'[w] = (IF pc[w] = "blocked" THEN "woken" ELSE pc[w])
      /\ \A x \in Threads : x # s /\ x # w => pc'[x] = pc[x]
  BY <1>1, <1>2, <1>4, <1>5 DEF TypeOK
<1>7. signaling[w] = NoEvent
  <2>1. Fire(s, w, e, next) \/ Refuses(w)
    OBVIOUS
  <2> QED BY <1>1, <2>1, FireAnswers
<1>8. ASSUME NEW x \in Threads PROVE Wants(x)' = Wants(x)
  <2>1. pc'[x] \in InWait \cup {"lockMany"} <=> pc[x] \in InWait \cup {"lockMany"}
    BY <1>2, <1>5, <1>6 DEF InWait
  <2> QED BY <2>1 DEF Wants
<1>9. Want' = Want
  BY <1>8 DEF Want
<1>10. e \in Want[w]
  BY <1>2, <1>3 DEF Want, Wants
<1>11. Token[e]
  BY <1>1, TokenGiven DEF Given, Signalling
<1>12. Given(e)' <=> e \in Manual
  BY <1>1, <1>6 DEF Given, Signalling
<1>13. ASSUME NEW f \in Events, f # e PROVE Given(f)' <=> Given(f)
  <2>1. lock[f] # s
    BY <1>1, <1>13, OneLock DEF IInv
  <2>2. lock[f] \in Threads => (pc'[lock[f]] = "signal" <=> pc[lock[f]] = "signal")
    BY <1>2, <1>6, <2>1 DEF InWait
  <2>3. lock[f] \in Threads \cup {NoThread}
    BY <1>1 DEF TypeOK
  <2> QED BY <2>2, <2>3 DEF Given, Signalling
<1>14. Token' = [Token EXCEPT ![e] = e \in Manual]
  <2>1. (e \in Manual) \in BOOLEAN
    OBVIOUS
  <2> QED BY <1>12, <1>13, <2>1, TokenMoves
<1> QED BY <1>2, <1>4, <1>7, <1>9, <1>10, <1>11, <1>14, ContractConsume

LEMMA RefusesStutters ==
  ASSUME NEW w, Refuses(w), UNCHANGED <<signaled, lock, waitables, call, result, ret>>
  PROVE  Stutter
BY DEF Refuses, Stutter, Token, Want, Wants, Signalling

\* The list of a Signal is exhausted: the bit it has brought stays.
LEMMA SignalEndStutters ==
  ASSUME IInv, IInv', NEW s \in Threads, SignalEnd(s)
  PROVE  Stutter
<1>1. TypeOK /\ pc[s] = "signal" /\ s # NoThread
  BY EventAssumption DEF IInv, SignalEnd
<1>2. PICK e \in Events : waitables[s] = <<e>> /\ lock[e] = s
  BY <1>1 DEF IInv, Shape, ShapeOf
<1>3. waitables[s][1] = e
  BY <1>2
<1>4. /\ signaled' = [signaled EXCEPT ![e] = TRUE] /\ pc' = [pc EXCEPT ![s] = "unlock"]
      /\ UNCHANGED <<lock, waitables, signaling, ret>>
  BY <1>3 DEF SignalEnd, waiter
<1>5. signaled'[e] /\ \A f \in Events : f # e => signaled'[f] = signaled[f]
  BY <1>1, <1>4 DEF TypeOK
<1>6. pc'[s] = "unlock" /\ \A x \in Threads : x # s => pc'[x] = pc[x]
  BY <1>1, <1>4 DEF TypeOK
<1>7. Given(e) /\ Given(e)'
  BY <1>1, <1>2, <1>5 DEF Given, Signalling
<1>8. ASSUME NEW f \in Events, f # e PROVE Given(f)' <=> Given(f)
  <2>1. lock[f] # s
    BY <1>1, <1>2, <1>8, OneLock DEF IInv
  <2>2. lock[f] \in Threads \cup {NoThread}
    BY <1>1 DEF TypeOK
  <2>3. lock[f] \in Threads => pc'[lock[f]] = pc[lock[f]]
    BY <1>6, <2>1
  <2>4. Signalling(f)' <=> Signalling(f)
    BY <1>4, <2>2, <2>3 DEF Signalling
  <2>5. signaled'[f] = signaled[f]
    BY <1>5, <1>8
  <2> QED BY <2>4, <2>5 DEF Given
<1>9. Token' = Token
  BY <1>7, <1>8, TokenStays
<1>10. Wants(s)' = Wants(s)
  BY <1>1, <1>4, <1>6 DEF Wants, InWait
<1>11. Want' = Want
  BY <1>4, <1>6, <1>10, WantStays
<1> QED BY <1>4, <1>9, <1>11 DEF Stutter

\* A step that moves s from one place of a wait to another.
LEMMA WaitingStutters ==
  ASSUME IInv, IInv', NEW s \in Threads, UNCHANGED <<signaled, waitables, signaling, ret>>,
         pc[s] \in InWait \cup {"lockMany"} <=> pc'[s] \in InWait \cup {"lockMany"},
         pc[s] # "signal", pc'[s] # "signal", \A x \in Threads \ {s} : pc'[x] = pc[x],
         \A f \in Events : lock'[f] # lock[f] => lock[f] \in {s, NoThread} /\ lock'[f] \in {s, NoThread}
  PROVE  Stutter
<1>1. Token' = Token
  BY BitStays
<1>2. Wants(s)' = Wants(s)
  BY DEF Wants
<1>3. Want' = Want
  BY <1>2, WantStays
<1> QED BY <1>1, <1>3 DEF Stutter

\* A wait returns.
LEMMA ReturnMoves ==
  ASSUME IInv, IInv', NEW s \in Threads, pc[s] \in InWait \cup {"lockMany"}, NEW r, Return(s, r)
  PROVE  /\ pc[s] # "signal" /\ pc'[s] # "signal"
         /\ \A x \in Threads \ {s} : pc'[x] = pc[x]
         /\ Want' = [Want EXCEPT ![s] = {}]
         /\ signaling' = [signaling EXCEPT ![s] = NoEvent]
         /\ ret' = [ret EXCEPT ![s] = r]
<1>1. /\ pc' = [pc EXCEPT ![s] = "idle"] /\ waitables' = [waitables EXCEPT ![s] = <<>>]
      /\ signaling' = [signaling EXCEPT ![s] = NoEvent] /\ ret' = [ret EXCEPT ![s] = r]
  BY DEF Return
<1>2. /\ pc'[s] = "idle"
      /\ \A x \in Threads \ {s} : pc'[x] = pc[x] /\ waitables'[x] = waitables[x]
  BY <1>1 DEF IInv, TypeOK
<1>3. Wants(s)' = {}
  BY <1>2 DEF Wants, InWait
<1>4. Want' = [Want EXCEPT ![s] = {}]
  BY <1>2, <1>3, WantMoves
<1> QED BY <1>1, <1>2, <1>4 DEF InWait

LEMMA WaitReturnSimulates ==
  ASSUME IInv, IInv', Answers, NEW s \in Threads, WaitReturn(s)
  PROVE  Contract!Next
<1>1. /\ pc[s] = "dequeue" /\ call[s] # "many" /\ UNCHANGED <<signaled, lock>>
      /\ Return(s, IF result[s] THEN waitables[s][1] ELSE NoEvent)
  BY DEF WaitReturn
<1>2. pc[s] \in InWait /\ TypeOK /\ ShapeOf(s) /\ AnswerOf(s)
  BY <1>1 DEF InWait, IInv, Shape, Answers
<1>3. waitables[s] # <<>> /\ Len(waitables[s]) = 1 /\ waitables[s] \in Seq(Events)
  BY <1>1, <1>2 DEF ShapeOf, TypeOK
<1>4. Range(waitables[s]) = {waitables[s][1]}
  BY <1>3 DEF Range
<1>5. signaling[s] = IF result[s] THEN waitables[s][1] ELSE NoEvent
  BY <1>1, <1>2, <1>4 DEF AnswerOf
<1>6. Return(s, signaling[s])
  BY <1>1, <1>5
<1>7. Token' = Token
  BY <1>1, <1>2, <1>6, ReturnMoves, BitStays
<1>8. Want[s] # {}
  BY <1>2, <1>4 DEF Want, Wants
<1> QED BY <1>2, <1>6, <1>7, <1>8, ReturnMoves, ContractDone

LEMMA ManyDequeueSimulates ==
  ASSUME IInv, IInv', Answers, NEW s \in Threads, ManyDequeue(s)
  PROVE  Contract!Next \/ Stutter
<1>1. /\ pc[s] = "dequeue" /\ call[s] = "many" /\ UNCHANGED <<signaled, lock>>
      /\ \/ UNCHANGED <<pc, waitables, signaling, ret>>
         \/ Return(s, waitables[s][SignaledIndex(s)])
  BY DEF ManyDequeue, waiter
<1>2. pc[s] \in InWait /\ TypeOK /\ ShapeOf(s) /\ AnswerOf(s)
  BY <1>1 DEF InWait, IInv, Shape, Answers
<1>3. signaling[s] \in Range(waitables[s])
  BY <1>1, <1>2 DEF AnswerOf
<1>4. \E i \in DOMAIN waitables[s] : waitables[s][i] = signaling[s]
  BY <1>3 DEF Range
<1>5. waitables[s][SignaledIndex(s)] = signaling[s]
  BY <1>3, <1>4 DEF SignaledIndex
<1>6. CASE UNCHANGED <<pc, waitables, signaling, ret>>
  BY <1>1, <1>6 DEF Stutter, Token, Want, Wants
<1>7. CASE Return(s, waitables[s][SignaledIndex(s)])
  <2>1. Return(s, signaling[s])
    BY <1>5, <1>7
  <2>2. Token' = Token
    BY <1>1, <1>2, <2>1, ReturnMoves, BitStays
  <2>3. Want[s] # {}
    BY <1>2, <1>3 DEF Want, Wants
  <2> QED BY <1>2, <2>1, <2>2, <2>3, ReturnMoves, ContractDone
<1> QED BY <1>1, <1>6, <1>7

\* WaitMany finds an event signaled while it takes the locks.
LEMMA EnqueueManySignaledSimulates ==
  ASSUME IInv, IInv', NEW s \in Threads, EnqueueManySignaled(s)
  PROVE  Contract!Next
<1> DEFINE e == NextLock(s)
<1>1. /\ pc[s] = "lockMany" /\ lock[e] = NoThread /\ signaled[e]
      /\ signaled' = [signaled EXCEPT ![e] = signaled[e] /\ e \in Manual]
      /\ lock' = [f \in Events |-> IF lock[f] = s THEN NoThread ELSE lock[f]]
      /\ Return(s, e)
  BY DEF EnqueueManySignaled, TakeSignal
<1>2. TypeOK /\ LockingOn /\ ShapeOf(s)
  BY DEF IInv, Shape
<1>3. e \in Events /\ e \in Range(waitables[s])
  BY <1>1, <1>2, NextLockLeast
<1> HIDE DEF e
<1>4. signaling[s] = NoEvent
  BY <1>1, <1>2 DEF ShapeOf, InWait
<1>5. e \in Want[s]
  BY <1>1, <1>3 DEF Want, Wants
<1>6. Token[e]
  BY <1>1, <1>3, TokenGiven DEF Given
<1>7. signaled' = [signaled EXCEPT ![e] = e \in Manual]
  BY <1>1
<1>8. \A f \in Events : lock'[f] # lock[f] => lock[f] \in {s, NoThread} /\ lock'[f] \in {s, NoThread}
  BY <1>1
<1>9. pc[s] \in InWait \cup {"lockMany"}
  BY <1>1
<1>10. Token' = [Token EXCEPT ![e] = e \in Manual]
  <2>1. pc[s] # "signal" /\ pc'[s] # "signal" /\ \A x \in Threads \ {s} : pc'[x] = pc[x]
    BY <1>1, <1>9, ReturnMoves
  <2> DEFINE b == e \in Manual
  <2>2. b \in BOOLEAN /\ signaled' = [signaled EXCEPT ![e] = b]
    BY <1>7
  <2> HIDE DEF b
  <2>3. Token' = [Token EXCEPT ![e] = b]
    <3>1. lock[e] = NoThread
      BY <1>1
    <3> QED BY <1>3, <1>8, <2>1, <2>2, <3>1, BitMoves
  <2> QED BY <2>3 DEF b
<1>11. Want' = [Want EXCEPT ![s] = {}] /\ signaling' = signaling /\ ret' = [ret EXCEPT ![s] = e]
  <2>1. signaling' = [signaling EXCEPT ![s] = NoEvent]
    BY <1>1, <1>9, ReturnMoves
  <2>2. signaling' = signaling
    BY <1>2, <1>4, <2>1 DEF TypeOK
  <2> QED BY <1>1, <1>9, <2>2, ReturnMoves
<1> QED BY <1>3, <1>4, <1>5, <1>6, <1>10, <1>11, ContractTryTake

LEMMA ProgressSimulates ==
  ASSUME IInv, IInv', Answers, NEW s \in Threads, Progress(s) \/ SpuriousWakeup(s)
  PROVE  Contract!Next \/ Stutter
<1>1. TypeOK
  BY DEF IInv
<1>2. CASE SignalOne(s)
  <2>1. PICK e \in Events : \E w \in Range(waiters[e]) :
           /\ pc[s] = "signal" /\ waitables[s] = <<e>> /\ lock[e] = s /\ ~signaled[e]
           /\ e \notin Manual /\ (Fire(s, w, e, "unlock") \/ Refuses(w))
           /\ UNCHANGED <<signaled, lock, waitables, call, result, ret>>
    BY <1>2, SignalOneWaiter
  <2>2. PICK w \in Range(waiters[e]) :
           /\ pc[s] = "signal" /\ waitables[s] = <<e>> /\ lock[e] = s /\ ~signaled[e]
           /\ e \notin Manual /\ (Fire(s, w, e, "unlock") \/ Refuses(w))
           /\ UNCHANGED <<signaled, lock, waitables, call, result, ret>>
    BY <2>1
  <2>3. "unlock" \in {"signal", "unlock"} /\ ("unlock" = "signal" <=> e \in Manual)
    BY <2>2
  <2> QED BY <2>2, <2>3, FireSimulates, RefusesStutters
<1>3. CASE SignalAll(s)
  <2>1. PICK e \in Events : \E w \in Range(waiters[e]) :
           /\ pc[s] = "signal" /\ waitables[s] = <<e>> /\ lock[e] = s /\ ~signaled[e]
           /\ e \in Manual /\ (Fire(s, w, e, "signal") \/ Refuses(w))
           /\ UNCHANGED <<signaled, lock, waitables, call, result, ret>>
    BY <1>3, SignalAllWaiter
  <2>2. PICK w \in Range(waiters[e]) :
           /\ pc[s] = "signal" /\ waitables[s] = <<e>> /\ lock[e] = s /\ ~signaled[e]
           /\ e \in Manual /\ (Fire(s, w, e, "signal") \/ Refuses(w))
           /\ UNCHANGED <<signaled, lock, waitables, call, result, ret>>
    BY <2>1
  <2>3. "signal" \in {"signal", "unlock"} /\ ("signal" = "signal" <=> e \in Manual)
    BY <2>2
  <2> QED BY <2>2, <2>3, FireSimulates, RefusesStutters
<1>4. CASE SignalEnd(s)
  BY <1>4, SignalEndStutters
<1>5. CASE SignalUnlock(s)
  <2>1. pc[s] = "unlock"
    BY <1>5 DEF SignalUnlock
  <2>2. PICK e \in Events : waitables[s] = <<e>> /\ lock[e] = s
    BY <2>1 DEF IInv, Shape, ShapeOf
  <2>3. waitables[s][1] = e
    BY <2>2
  <2>4. /\ lock' = [lock EXCEPT ![e] = NoThread] /\ pc' = [pc EXCEPT ![s] = "idle"]
        /\ waitables' = [waitables EXCEPT ![s] = <<>>]
        /\ UNCHANGED <<signaled, signaling, ret>>
    BY <1>5, <2>3 DEF SignalUnlock, waiter
  <2>5. /\ pc'[s] = "idle"
        /\ \A x \in Threads \ {s} : pc'[x] = pc[x] /\ waitables'[x] = waitables[x]
    BY <1>1, <2>4 DEF TypeOK
  <2>6. \A f \in Events : lock'[f] # lock[f] => lock[f] \in {s, NoThread} /\ lock'[f] \in {s, NoThread}
    BY <1>1, <2>2, <2>4 DEF TypeOK
  <2>7. Token' = Token
    BY <2>1, <2>4, <2>5, <2>6, BitStays
  <2>8. Wants(s)' = Wants(s)
    BY <2>1, <2>5 DEF Wants, InWait
  <2>9. Want' = Want
    BY <2>5, <2>8, WantStays
  <2> QED BY <2>4, <2>7, <2>9 DEF Stutter
<1>6. CASE Expire(s)
  BY <1>6 DEF Expire, kernel, waiter, Stutter, Token, Want, Wants
<1>7. CASE \/ Block(s) \/ TimeOut(s) \/ Relock(s) \/ WaitDecide(s) \/ ManyDecide(s) \/ SpuriousWakeup(s)
  <2>1. /\ pc[s] \in InWait /\ \E p \in InWait : pc' = [pc EXCEPT ![s] = p]
        /\ UNCHANGED <<signaled, lock, waitables, signaling, ret>>
    BY <1>7 DEF Block, TimeOut, Relock, WaitDecide, ManyDecide, SpuriousWakeup, kernel, waiter, InWait
  <2>2. pc'[s] \in InWait /\ \A x \in Threads \ {s} : pc'[x] = pc[x]
    BY <1>1, <2>1 DEF TypeOK
  <2> QED BY <2>1, <2>2, WaitingStutters DEF InWait
<1>8. CASE WaitReturn(s)
  BY <1>8, WaitReturnSimulates
<1>9. CASE EnqueueManyLock(s)
  <2> DEFINE e == NextLock(s)
  <2>1. /\ pc[s] = "lockMany" /\ lock[e] = NoThread /\ lock' = [lock EXCEPT ![e] = s]
        /\ UNCHANGED <<signaled, pc, waitables, signaling, ret>>
    BY <1>9 DEF EnqueueManyLock, waiter
  <2> HIDE DEF e
  <2>2. \A f \in Events : lock'[f] # lock[f] => lock[f] \in {s, NoThread} /\ lock'[f] \in {s, NoThread}
    BY <1>1, <2>1 DEF TypeOK
  <2> QED BY <2>1, <2>2, WaitingStutters
<1>10. CASE EnqueueManySignaled(s)
  BY <1>10, EnqueueManySignaledSimulates
<1>11. CASE EnqueueManyLast(s)
  <2>1. /\ pc[s] = "lockMany" /\ pc' = [pc EXCEPT ![s] = "check"]
        /\ lock' = [f \in Events |-> IF lock[f] = s THEN NoThread ELSE lock[f]]
        /\ UNCHANGED <<signaled, waitables, signaling, ret>>
    BY <1>11 DEF EnqueueManyLast, waiter
  <2>2. pc'[s] = "check" /\ \A x \in Threads \ {s} : pc'[x] = pc[x]
    BY <1>1, <2>1 DEF TypeOK
  <2>3. \A f \in Events : lock'[f] # lock[f] => lock[f] \in {s, NoThread} /\ lock'[f] \in {s, NoThread}
    BY <2>1
  <2> QED BY <2>1, <2>2, <2>3, WaitingStutters DEF InWait
<1>12. CASE ManyDequeue(s)
  BY <1>12, ManyDequeueSimulates
<1> QED BY <1>2, <1>3, <1>4, <1>5, <1>6, <1>7, <1>8, <1>9, <1>10, <1>11, <1>12 DEF Progress

\* The locks, wait-lists and condition variables keep the promise of one bit per
\* event, for any number of threads and events: a signal of an automatic event
\* answers one wait or stays, and a call reports the event that released it.
THEOREM KeepsContract == Spec => ImplementsContract
<1>1. Init => Contract!Init
  <2> SUFFICES ASSUME Init PROVE Contract!Init
    OBVIOUS
  <2>1. \A t \in Threads : pc[t] = "idle"
    BY DEF Init
  <2>2. Want = [t \in Threads |-> {}]
    BY <2>1 DEF Want, Wants, InWait
  <2>3. Token \in [Events -> BOOLEAN]
    BY DEF Token
  <2>4. signaling = [t \in Threads |-> NoEvent] /\ ret = [t \in Threads |-> NoEvent]
    BY DEF Init
  <2> QED BY <2>2, <2>3, <2>4 DEF Contract!Init, Token, Want, Wants
<1>2. IInv /\ IInv' /\ Answers /\ [Next]_vars => [Contract!Next]_<<Token, Want, signaling, ret>>
  <2> SUFFICES ASSUME IInv, IInv', Answers, [Next]_vars PROVE Contract!Next \/ Stutter
    BY DEF Stutter
  <2>1. CASE UNCHANGED vars
    BY <2>1 DEF vars, Stutter, Token, Want, Wants
  <2>2. CASE Next
    <3>1. PICK s \in Threads : Begin(s) \/ Progress(s) \/ SpuriousWakeup(s)
      BY <2>2 DEF Next
    <3> QED BY <3>1, BeginSimulates, ProgressSimulates
  <2> QED BY <2>1, <2>2
<1>3. [Contract!Next]_<<Token, Want, signaling, ret>>
        => [Contract!Next]_<<[e \in Events |->
                                signaled[e] \/ \E s \in Threads : pc[s] = "signal" /\ waitables[s] = <<e>>],
                             [t \in Threads |-> IF pc[t] \in InWait \cup {"lockMany"}
                                                THEN Range(waitables[t]) ELSE {}],
                             signaling, ret>>
  BY DEF Token, Want, Wants
<1> QED BY <1>1, <1>2, <1>3, Answered, PTL DEF Spec, ImplementsContract, Contract!Spec, Contract!vars
==============================================================================
