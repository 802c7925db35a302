-------------------------------- MODULE Lock --------------------------------
(***************************************************************************)
(* src/Stp/Base/Thread/Lock.cpp with ConditionVariablePosix.cpp in a debug *)
(* build: the owner that a Lock remembers beside the native lock, which is *)
(* marked and unmarked in steps of their own, also around the native wait. *)
(***************************************************************************)
EXTENDS Naturals

CONSTANTS Threads, NONE

VARIABLES
  holder,   \* of the native lock
  owner,    \* owning_thread_
  at,       \* where a thread is
  sleeping  \* the threads in the native wait, which have given up the lock

vars == <<holder, owner, at, sleeping>>

Init == holder = NONE /\ owner = NONE /\ at = [t \in Threads |-> "outside"] /\ sleeping = {}

To(t, place) == at' = [at EXCEPT ![t] = place]

\* acquire, or a tryAcquire that succeeds: the native part.
NativeAcquire(t) ==
  /\ at[t] = "outside" /\ holder = NONE
  /\ holder' = t /\ To(t, "marking")
  /\ UNCHANGED <<owner, sleeping>>

\* checkUnheldAndMark, at the end of acquire and of Wait.
Mark(t) ==
  /\ at[t] = "marking"
  /\ IF owner = NONE THEN owner' = t /\ To(t, "inside") ELSE UNCHANGED owner /\ To(t, "failed")
  /\ UNCHANGED <<holder, sleeping>>

\* Mutation: Wait leaves the lock marked.
UnmarkReleases(t, next) ==
  /\ at[t] = "inside"
  /\ owner' = (IF next = "waiting" THEN owner ELSE NONE) /\ To(t, next)
  /\ UNCHANGED <<holder, sleeping>>

\* checkHeldAndUnmark, at the beginning of release and of Wait.
Unmark(t, next) ==
  /\ at[t] = "inside"
  /\ IF owner = t THEN owner' = NONE /\ To(t, next) ELSE UNCHANGED owner /\ To(t, "failed")
  /\ UNCHANGED <<holder, sleeping>>

NativeRelease(t) ==
  /\ at[t] = "releasing"
  /\ holder' = NONE /\ To(t, "outside")
  /\ UNCHANGED <<owner, sleeping>>

\* pthread_cond_wait gives up the native lock and sleeps in one step.
Sleep(t) ==
  /\ at[t] = "waiting"
  /\ holder' = NONE /\ sleeping' = sleeping \cup {t} /\ To(t, "asleep")
  /\ UNCHANGED owner

\* Broadcast, a Signal, the deadline, or nothing at all: any of the sleepers.
Wake(some) == some # {} /\ some \subseteq sleeping /\ sleeping' = sleeping \ some /\ UNCHANGED <<holder, owner, at>>

\* The native wait returns with the native lock.
WakeUp(t) ==
  /\ at[t] = "asleep" /\ t \notin sleeping /\ holder = NONE
  /\ holder' = t /\ To(t, "marking")
  /\ UNCHANGED <<owner, sleeping>>

Next ==
  \/ \E t \in Threads : NativeAcquire(t) \/ Mark(t) \/ NativeRelease(t) \/ Sleep(t) \/ WakeUp(t)
  \/ \E t \in Threads, next \in {"releasing", "waiting"} : Unmark(t, next)
  \/ \E some \in SUBSET Threads : Wake(some)

Spec == Init /\ [][Next]_vars

(* Properties *)

\* No ASSERT fails for threads that release what they hold: inside, whatever has
\* waited and been woken meanwhile, assertAcquired holds for the holder, for
\* nobody else, and one thread at a time is there.
OwnerIsHolder ==
  /\ \A t \in Threads : at[t] # "failed" /\ (at[t] = "inside" <=> owner = t)
  /\ owner \in {NONE, holder}
  /\ \A t, u \in Threads :
       {at[t], at[u]} \subseteq {"marking", "inside", "releasing", "waiting"} => t = u
==============================================================================
