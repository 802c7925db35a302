------------------------------- MODULE WeakPtr -------------------------------
(***************************************************************************)
(* WeakPtr and WeakPtrFactory (src/Stp/Base/Memory/WeakPtr.h), with the    *)
(* thread-safe counter of their flags (RefCountedThreadSafe.h) and the     *)
(* ThreadChecker that binds a flag to the first thread that dereferences   *)
(* or invalidates it.                                                      *)
(*                                                                         *)
(* One object with its factory, weak pointers that threads pass around.    *)
(* The caller's part of the contract: a WeakPtr variable, and the factory, *)
(* is used by one thread at a time; nothing orders the threads otherwise.  *)
(* A thread that has dereferenced a pointer keeps it while it is inside    *)
(* the object.                                                             *)
(***************************************************************************)
EXTENDS Integers, FiniteSets, TLC

CONSTANTS
  Threads, Pointers,
  Flags,        \* memory for flags: a deleted one is used again
  Null,         \* the sentinel WeakReference::Flag::Null
  nullptr,      \* no flag at all, no thread, no pointer
  Asserts       \* ASSERT_IS_ON

ASSUME WeakPtrAssumption ==
  /\ Null \notin Flags /\ nullptr \notin Flags \cup Threads \cup Pointers \cup {Null}
  /\ IsFiniteSet(Threads) /\ IsFiniteSet(Pointers)
  /\ Asserts \in BOOLEAN

VARIABLES
  alive,        \* the object and its factory exist
  owner,        \* flag_ of the factory's WeakReferenceOwner
  weak,         \* per pointer: flag_ of its WeakReference, whether ptr_ is set
  count,        \* per flag: ref_count_, zero when it is deleted
  valid,        \* valid_
  bound,        \* valid_thread_ of its thread_checker_
  call,         \* per thread: where it is and what it works on
  panicked,     \* "no", or the ASSERT that has failed
  users         \* history, per flag: the threads that have checked it, since
                \* there was a pointer with it

vars == <<alive, owner, weak, count, valid, bound, call, panicked, users>>

Place(pc, ptr, old, destroys) == [pc |-> pc, ptr |-> ptr, old |-> old, destroys |-> destroys]
Nowhere == Place("idle", nullptr, nullptr, FALSE)

Init ==
  /\ alive = TRUE /\ owner = Null
  /\ weak = [p \in Pointers |-> [flag |-> nullptr, set |-> FALSE]]
  /\ count = [f \in Flags |-> 0]
  /\ valid = [f \in Flags |-> FALSE]
  /\ bound = [f \in Flags |-> nullptr]
  /\ call = [t \in Threads |-> Nowhere]
  /\ panicked = "no" /\ users = [f \in Flags |-> {}]

Running == panicked = "no"
Idle(t) == Running /\ call[t].pc = "idle"
At(t, pc) == Running /\ call[t].pc = pc

\* What no thread is using.
FreePointer(p) == \A t \in Threads : call[t].ptr # p
OnFactory(t) == call[t].pc = "issue" \/ (call[t].pc # "idle" /\ call[t].ptr = nullptr)
FreeFactory == alive /\ \A t \in Threads : ~OnFactory(t)

\* The flag a call is about.
Flag(t) == IF call[t].ptr = nullptr THEN owner ELSE weak[call[t].ptr].flag

Goto(t, pc) == call' = [call EXCEPT ![t].pc = pc]
Return(t) == call' = [call EXCEPT ![t] = Nowhere]

\* incRef; nullptr has no count and the sentinel's is never looked at.
Counted(f) == IF f \in Flags THEN [count EXCEPT ![f] = @ + 1] ELSE count

\* The thread goes on to decRef what it has replaced.
Releasing(t, p, f) ==
  call' = [call EXCEPT ![t] = Place("release", p, f, FALSE)]

------------------------------------------------------------------------------
(* The factory makes a pointer. *)

hasRefs == owner # Null /\ count[owner] # 1

\* Mutation: a flag that only the factory refers to is used again.
GetRefKeeping(t, p) ==
  /\ Idle(t) /\ FreeFactory /\ FreePointer(p)
  /\ IF owner # Null
     THEN UNCHANGED <<owner, count, valid, bound, users>>
     ELSE \E f \in Flags :
            /\ count[f] = 0
            /\ owner' = f /\ count' = [count EXCEPT ![f] = 1]
            /\ valid' = [valid EXCEPT ![f] = TRUE]
            /\ bound' = [bound EXCEPT ![f] = nullptr]
            /\ users' = [users EXCEPT ![f] = {}]
  /\ call' = [call EXCEPT ![t] = Place("issue", p, nullptr, FALSE)]
  /\ UNCHANGED <<alive, weak, panicked>>

\* Mutation: every pointer gets a flag of its own.
GetRefFresh(t, p) ==
  /\ Idle(t) /\ FreeFactory /\ FreePointer(p)
  /\ \E f \in Flags :
       /\ count[f] = 0
       /\ owner' = f
       /\ count' = [g \in Flags |-> IF g = f THEN 1 ELSE IF g = owner THEN count[g] - 1 ELSE count[g]]
       /\ valid' = [valid EXCEPT ![f] = TRUE]
       /\ bound' = [bound EXCEPT ![f] = nullptr]
       /\ users' = [users EXCEPT ![f] = {}]
  /\ call' = [call EXCEPT ![t] = Place("issue", p, nullptr, FALSE)]
  /\ UNCHANGED <<alive, weak, panicked>>

\* GetRef: a flag nobody else refers to is replaced by a new one, unbound.  (The
\* load of the count and the replacement are one step: no other thread can reach
\* such a flag.)
GetRef(t, p) ==
  /\ Idle(t) /\ FreeFactory /\ FreePointer(p)
  /\ IF hasRefs
     THEN UNCHANGED <<owner, count, valid, bound, users>>
     ELSE \E f \in Flags :
            /\ count[f] = 0
            /\ owner' = f
            /\ count' = [g \in Flags |-> IF g = f THEN 1 ELSE IF g = owner THEN 0 ELSE count[g]]
            /\ valid' = [valid EXCEPT ![f] = TRUE]
            /\ bound' = [bound EXCEPT ![f] = nullptr]
            /\ users' = [users EXCEPT ![f] = {}]
  /\ call' = [call EXCEPT ![t] = Place("issue", p, nullptr, FALSE)]
  /\ UNCHANGED <<alive, weak, panicked>>

\* getWeakPtr: the new pointer is assigned to p.
Issue(t) ==
  /\ At(t, "issue")
  /\ LET p == call[t].ptr
     IN /\ weak' = [weak EXCEPT ![p] = [flag |-> owner, set |-> TRUE]]
        /\ Releasing(t, p, weak[p].flag)
  /\ count' = Counted(owner)
  /\ UNCHANGED <<alive, owner, valid, bound, panicked, users>>

------------------------------------------------------------------------------
(* Copies and moves, by any thread. *)

\* Mutation: the copy does not count.
CopyUncounted(t, p, q) ==
  /\ Idle(t) /\ p # q /\ FreePointer(p) /\ FreePointer(q)
  /\ weak' = [weak EXCEPT ![p] = weak[q]]
  /\ Releasing(t, p, weak[p].flag)
  /\ UNCHANGED <<alive, owner, count, valid, bound, panicked, users>>

\* p = q
Copy(t, p, q) ==
  /\ Idle(t) /\ p # q /\ FreePointer(p) /\ FreePointer(q)
  /\ count' = Counted(weak[q].flag)
  /\ weak' = [weak EXCEPT ![p] = weak[q]]
  /\ Releasing(t, p, weak[p].flag)
  /\ UNCHANGED <<alive, owner, valid, bound, panicked, users>>

\* p = move(q): q is left with the sentinel.
Move(t, p, q) ==
  /\ Idle(t) /\ p # q /\ FreePointer(p) /\ FreePointer(q)
  /\ weak' = [weak EXCEPT ![p] = weak[q], ![q].flag = Null]
  /\ Releasing(t, p, weak[p].flag)
  /\ UNCHANGED <<alive, owner, count, valid, bound, panicked, users>>

\* reset(), and the destruction of a pointer with the construction of another.
Reset(t, p) ==
  /\ Idle(t) /\ FreePointer(p)
  /\ weak' = [weak EXCEPT ![p] = [flag |-> nullptr, set |-> FALSE]]
  /\ Releasing(t, p, weak[p].flag)
  /\ UNCHANGED <<alive, owner, count, valid, bound, panicked, users>>

\* decRef; the last one deletes the flag.  For the factory this is the end of
\* Invalidate.
Release(t) ==
  /\ At(t, "release")
  /\ LET f == call[t].old
     IN IF f \in Flags
        THEN /\ count' = [count EXCEPT ![f] = @ - 1]
             /\ users' = IF count[f] = 2 /\ f = owner /\ ~\E u \in Threads : call[u].pc = "issue"
                         THEN [users EXCEPT ![f] = {}] ELSE users
        ELSE UNCHANGED <<count, users>>
  /\ IF call[t].destroys THEN Goto(t, "destroy") ELSE Return(t)
  /\ UNCHANGED <<alive, owner, weak, valid, bound, panicked>>

------------------------------------------------------------------------------
(* get() and Invalidate(): both check the thread. *)

\* get() of a pointer without a flag trips over the RcPtr, the sentinel is
\* never valid.
Get(t, p) ==
  /\ Idle(t) /\ FreePointer(p)
  /\ LET f == weak[p].flag
     IN IF f = nullptr
        THEN panicked' = "null" /\ UNCHANGED call
        ELSE /\ IF f = Null THEN UNCHANGED call
                ELSE call' = [call EXCEPT ![t] =
                       Place(IF Asserts THEN "ensure" ELSE "read", p, nullptr, FALSE)]
             /\ UNCHANGED panicked
  /\ UNCHANGED <<alive, owner, weak, count, valid, bound, users>>

\* invalidateWeakPtrs(), or the destruction of the object and its factory.
Invalidate(t, destroys) ==
  /\ Idle(t) /\ FreeFactory
  /\ owner # Null \/ destroys
  /\ call' = [call EXCEPT ![t] = Place(
                IF owner = Null THEN "destroy" ELSE IF Asserts THEN "ensure" ELSE "invalidate",
                nullptr, nullptr, destroys)]
  /\ UNCHANGED <<alive, owner, weak, count, valid, bound, panicked, users>>

\* ThreadChecker::EnsureThreadIdAssigned, under its lock.
EnsureThreadIdAssigned(t) ==
  /\ At(t, "ensure")
  /\ bound' = IF bound[Flag(t)] = nullptr THEN [bound EXCEPT ![Flag(t)] = t] ELSE bound
  /\ users' = [users EXCEPT ![Flag(t)] = @ \cup {t}]
  /\ Goto(t, "compare")
  /\ UNCHANGED <<alive, owner, weak, count, valid, panicked>>

\* Mutation: the ASSERT of getValidMask is gone.
CompareUnasserted(t) ==
  /\ At(t, "compare")
  /\ Goto(t, IF call[t].ptr # nullptr THEN "read"
             ELSE IF bound[Flag(t)] = t THEN "invalidate" ELSE "alone")
  /\ UNCHANGED <<alive, owner, weak, count, valid, bound, panicked, users>>

\* The rest of calledOnValidThread, under the lock again.
Compare(t) ==
  /\ At(t, "compare")
  /\ IF bound[Flag(t)] = t
     THEN Goto(t, IF call[t].ptr = nullptr THEN "invalidate" ELSE "read") /\ UNCHANGED panicked
     ELSE IF call[t].ptr = nullptr
     THEN Goto(t, "alone") /\ UNCHANGED panicked
     ELSE Goto(t, "failed") /\ panicked' = "thread"
  /\ UNCHANGED <<alive, owner, weak, count, valid, bound, users>>

\* hasOneRef: the wrong thread may invalidate a flag without pointers.
HasOneRef(t) ==
  /\ At(t, "alone")
  /\ IF count[owner] = 1 THEN Goto(t, "invalidate") /\ UNCHANGED panicked
                         ELSE Goto(t, "failed") /\ panicked' = "thread"
  /\ UNCHANGED <<alive, owner, weak, count, valid, bound, users>>

\* valid_ is read: the thread goes into the object, or finds nothing.
GetValidMask(t) ==
  /\ At(t, "read")
  /\ IF valid[Flag(t)] /\ weak[call[t].ptr].set THEN Goto(t, "using") ELSE Return(t)
  /\ UNCHANGED <<alive, owner, weak, count, valid, bound, panicked, users>>

Leave(t) ==
  /\ At(t, "using")
  /\ Return(t)
  /\ UNCHANGED <<alive, owner, weak, count, valid, bound, panicked, users>>

\* valid_ = 0 and flag_ = Null.
InvalidateFlag(t) ==
  /\ At(t, "invalidate")
  /\ valid' = [valid EXCEPT ![owner] = FALSE]
  /\ owner' = Null
  /\ call' = [call EXCEPT ![t] = Place("release", nullptr, owner, call[t].destroys)]
  /\ UNCHANGED <<alive, weak, count, bound, panicked, users>>

\* The members of the object are destroyed after its factory.
Destroy(t) ==
  /\ At(t, "destroy")
  /\ alive' = FALSE
  /\ Return(t)
  /\ UNCHANGED <<owner, weak, count, valid, bound, panicked, users>>

Next ==
  \E t \in Threads :
    \/ \E p \in Pointers : GetRef(t, p) \/ Reset(t, p) \/ Get(t, p)
    \/ \E p, q \in Pointers : Copy(t, p, q) \/ Move(t, p, q)
    \/ Issue(t) \/ Release(t)
    \/ \E destroys \in BOOLEAN : Invalidate(t, destroys)
    \/ EnsureThreadIdAssigned(t) \/ Compare(t) \/ HasOneRef(t)
    \/ GetValidMask(t) \/ Leave(t) \/ InvalidateFlag(t) \/ Destroy(t)

Spec == Init /\ [][Next]_vars

\* For model checking: threads, pointers and flags are interchangeable.
Symmetry == Permutations(Threads) \cup Permutations(Pointers) \cup Permutations(Flags)

------------------------------------------------------------------------------
(* Correctness. *)

TypeOK ==
  /\ alive \in BOOLEAN
  /\ owner \in Flags \cup {Null}
  /\ weak \in [Pointers -> [flag : Flags \cup {Null, nullptr}, set : BOOLEAN]]
  /\ count \in [Flags -> Nat] /\ valid \in [Flags -> BOOLEAN]
  /\ bound \in [Flags -> Threads \cup {nullptr}]
  /\ call \in [Threads ->
       [pc : {"idle", "issue", "release", "ensure", "compare", "alone", "read",
              "using", "invalidate", "destroy", "failed"},
        ptr : Pointers \cup {nullptr}, old : Flags \cup {Null, nullptr}, destroys : BOOLEAN]]
  /\ panicked \in {"no", "null", "thread"}
  /\ users \in [Flags -> SUBSET Threads]

\* Nobody is inside an object that has been destroyed: in a debug build, every
\* schedule of the threads that could do that fails a check before.
UsesLiveObject == \A t \in Threads : call[t].pc = "using" => alive

\* A flag is deleted with its last reference and not before; and every variable
\* has its type.
References(f) ==
  [pointers |-> {p \in Pointers : weak[p].flag = f},
   releasing |-> {t \in Threads : call[t].pc = "release" /\ call[t].old = f}]
CountsReferences ==
  /\ TypeOK
  /\ \A f \in Flags :
       count[f] = Cardinality(References(f).pointers) + Cardinality(References(f).releasing)
                  + IF owner = f THEN 1 ELSE 0

\* "If all WeakPtr objects are destroyed or invalidated then the factory is
\* unbound from the thread": a thread fails the check only of a flag that
\* another thread has checked since there were pointers to it.
FailsDeservedly ==
  panicked = "thread" => \E t \in Threads : call[t].pc = "failed" /\ users[Flag(t)] \ {t} # {}

\* The WeakPtrs are what WeakPtrSpec promises: one store into the flag takes the
\* object from all of them.
Contract == INSTANCE WeakPtrSpec WITH
  target <- [p \in Pointers |->
    IF weak[p].flag \in Flags /\ valid[weak[p].flag] THEN "object" ELSE "null"],
  using <- {t \in Threads : call[t].pc = "using"}

ImplementsContract == Contract!Spec

\* A WeakPtr that points to nothing, a default constructed one too, gives nullptr.
NullGivesNull == panicked # "null"
==============================================================================
