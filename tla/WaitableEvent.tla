---------------------------- MODULE WaitableEvent ----------------------------
(***************************************************************************)
(* The POSIX WaitableEvent (src/Stp/Base/Thread/WaitableEventPosix.cpp): a *)
(* bit and a list of waiters per event, protected by the event's lock, and *)
(* one SyncWaiter (fired_, signaling_event_, lock_, cv_) on the stack of   *)
(* each waiting thread.                                                    *)
(*                                                                         *)
(* A thread is in at most one call.  What a thread does under one lock,    *)
(* without waiting for another, is one action.  The SyncWaiter of thread t *)
(* is named t; its lock is held by t exactly while pc[t] = "check", since  *)
(* Fire takes and releases it in one go.                                   *)
(***************************************************************************)
EXTENDS Integers, Sequences, Functions, TLC

CONSTANTS Threads,     \* the calling threads
          Events,      \* the events; an event is named by its address
          Manual,      \* the events created with ResetPolicy::Manual
          WaitArrays,  \* the arrays of events WaitMany is called with
          NoEvent,     \* nullptr, and the answer "not signaled"
          NoThread     \* a lock that is free

\* WaitMany asserts that its array is not empty and its elements distinct.
ASSUME EventAssumption ==
  /\ Events \subseteq Nat
  /\ Manual \subseteq Events
  /\ NoEvent \notin Events
  /\ NoThread \notin Threads
  /\ \A a \in WaitArrays : a \in Seq(Events) /\ a # <<>> /\ IsInjective(a)

VARIABLES
  signaled,   \* kernel_->signaled_
  waiters,    \* kernel_->waiters_
  lock,       \* the owner of kernel_->lock_
  pc,         \* where the thread is
  call,       \* the thread's call; a timed wait past its deadline is "expired"
  waitables,  \* the events the call is about, in the caller's order
  pos,        \* the loop index of the call
  fired,      \* sw.fired_
  signaling,  \* sw.signaling_event_
  result,     \* return_value of TimedWaitUntilInternal
  ret,        \* the event the thread's last call reported, or NoEvent
  hit         \* history: the waiters the thread's running Signal has fired

vars == <<signaled, waiters, lock, pc, call, waitables, pos, fired, signaling,
          result, ret, hit>>

kernel == <<signaled, waiters, lock>>
waiter == <<fired, signaling, result>>

Places == {"idle", "lockMany", "check", "blocked", "woken", "dequeue",
           "signal", "unlock"}
Calls == {"none", "wait", "timed", "expired", "many", "signal"}

Init ==
  /\ signaled \in [Events -> BOOLEAN]
  /\ waiters = [e \in Events |-> <<>>]
  /\ lock = [e \in Events |-> NoThread]
  /\ pc = [t \in Threads |-> "idle"]
  /\ call = [t \in Threads |-> "none"]
  /\ waitables = [t \in Threads |-> <<>>]
  /\ pos = [t \in Threads |-> 1]
  /\ fired = [t \in Threads |-> FALSE]
  /\ signaling = [t \in Threads |-> NoEvent]
  /\ result = [t \in Threads |-> FALSE]
  /\ ret = [t \in Threads |-> NoEvent]
  /\ hit = [t \in Threads |-> {}]

------------------------------------------------------------------------------
(* Reset and IsSignaled: one critical section each. *)

\* A call that returns nothing, or nothing yet.
NoAnswer(t) == ret' = [ret EXCEPT ![t] = NoEvent]

Reset(t, e) ==
  /\ pc[t] = "idle" /\ lock[e] = NoThread
  /\ signaled' = [signaled EXCEPT ![e] = FALSE]
  /\ NoAnswer(t)
  /\ UNCHANGED <<waiters, lock, pc, call, waitables, pos, waiter, hit>>

\* Consuming the bit: an automatic event is reset by whoever sees it.
TakeSignal(e) == signaled' = [signaled EXCEPT ![e] = @ /\ e \in Manual]

IsSignaled(t, e) ==
  /\ pc[t] = "idle" /\ lock[e] = NoThread
  /\ TakeSignal(e)
  /\ ret' = [ret EXCEPT ![t] = IF signaled[e] THEN e ELSE NoEvent]
  /\ UNCHANGED <<waiters, lock, pc, call, waitables, pos, waiter, hit>>

------------------------------------------------------------------------------
(* Signal.  It returns at once if the bit is set; otherwise it walks the   *)
(* wait-list with the event's lock held, and takes each waiter's lock.     *)

SignalAgain(t, e) ==
  /\ pc[t] = "idle" /\ lock[e] = NoThread /\ signaled[e]
  /\ NoAnswer(t)
  /\ UNCHANGED <<kernel, pc, call, waitables, pos, waiter, hit>>

Signal(t, e) ==
  /\ pc[t] = "idle" /\ lock[e] = NoThread /\ ~signaled[e]
  /\ lock' = [lock EXCEPT ![e] = t]
  /\ pc' = [pc EXCEPT ![t] = "signal"]
  /\ call' = [call EXCEPT ![t] = "signal"]
  /\ waitables' = [waitables EXCEPT ![t] = <<e>>]
  /\ NoAnswer(t)
  /\ UNCHANGED <<signaled, waiters, pos, waiter, hit>>

\* The owner of the waiter holds its lock while it examines fired_.
WaiterLockFree(w) == pc[w] # "check"

\* Mutation: the Broadcast is forgotten.
FireWithoutBroadcast(s, w, e, next) ==
  /\ WaiterLockFree(w) /\ ~fired[w]
  /\ fired' = [fired EXCEPT ![w] = TRUE]
  /\ signaling' = [signaling EXCEPT ![w] = e]
  /\ pc' = [pc EXCEPT ![s] = next]
  /\ hit' = [hit EXCEPT ![s] = @ \cup {w}]

\* Fire and its Broadcast: a waiter that has fired, or is disabled, refuses.
Fire(s, w, e, next) ==
  /\ WaiterLockFree(w) /\ ~fired[w]
  /\ fired' = [fired EXCEPT ![w] = TRUE]
  /\ signaling' = [signaling EXCEPT ![w] = e]
  /\ pc' = [pc EXCEPT ![s] = next, ![w] = IF @ = "blocked" THEN "woken" ELSE @]
  /\ hit' = [hit EXCEPT ![s] = @ \cup {w}]

Refuses(w) == WaiterLockFree(w) /\ fired[w] /\ UNCHANGED <<fired, signaling, pc, hit>>

\* SignalOne: one turn of the loop; a waiter is removed whatever it answers.
SignalOne(s) ==
  LET e == waitables[s][1]
      w == Head(waiters[e])
  IN /\ pc[s] = "signal" /\ e \notin Manual /\ waiters[e] # <<>>
     /\ Fire(s, w, e, "unlock") \/ Refuses(w)
     /\ waiters' = [waiters EXCEPT ![e] = Tail(@)]
     /\ UNCHANGED <<signaled, lock, call, waitables, pos, result, ret>>

\* SignalAll: one turn of the loop.
SignalAll(s) ==
  LET e == waitables[s][1]
      w == waiters[e][pos[s]]
  IN /\ pc[s] = "signal" /\ e \in Manual /\ pos[s] <= Len(waiters[e])
     /\ Fire(s, w, e, "signal") \/ Refuses(w)
     /\ pos' = [pos EXCEPT ![s] = @ + 1]
     /\ UNCHANGED <<kernel, call, waitables, result, ret>>

\* The list is exhausted: a manual event stays signaled, and so does an
\* automatic one that found no taker.
SignalEnd(s) ==
  LET e == waitables[s][1]
  IN /\ pc[s] = "signal"
     /\ IF e \in Manual THEN pos[s] > Len(waiters[e]) ELSE waiters[e] = <<>>
     /\ waiters' = [waiters EXCEPT ![e] = <<>>]
     /\ signaled' = [signaled EXCEPT ![e] = TRUE]
     /\ pc' = [pc EXCEPT ![s] = "unlock"]
     /\ UNCHANGED <<lock, call, waitables, pos, waiter, ret, hit>>

SignalUnlock(s) ==
  /\ pc[s] = "unlock"
  /\ lock' = [lock EXCEPT ![waitables[s][1]] = NoThread]
  /\ pc' = [pc EXCEPT ![s] = "idle"]
  /\ call' = [call EXCEPT ![s] = "none"]
  /\ waitables' = [waitables EXCEPT ![s] = <<>>]
  /\ pos' = [pos EXCEPT ![s] = 1]
  /\ hit' = [hit EXCEPT ![s] = {}]
  /\ UNCHANGED <<signaled, waiters, waiter, ret>>

------------------------------------------------------------------------------
(* Wait, TimedWait and TimedWaitUntil.                                     *)

\* The event is signaled: the call returns without a SyncWaiter.
WaitSignaled(t, e) ==
  /\ pc[t] = "idle" /\ lock[e] = NoThread /\ signaled[e]
  /\ TakeSignal(e)
  /\ ret' = [ret EXCEPT ![t] = e]
  /\ UNCHANGED <<waiters, lock, pc, call, waitables, pos, waiter, hit>>

\* Mutation: the bit is examined before the lock is taken, not under it.
WaitEnqueueUnchecked(t, e, c) ==
  /\ pc[t] = "idle" /\ lock[e] = NoThread
  /\ waiters' = [waiters EXCEPT ![e] = Append(@, t)]
  /\ pc' = [pc EXCEPT ![t] = "check"]
  /\ call' = [call EXCEPT ![t] = c]
  /\ waitables' = [waitables EXCEPT ![t] = <<e>>]
  /\ NoAnswer(t)
  /\ UNCHANGED <<signaled, lock, pos, waiter, hit>>

\* The SyncWaiter's lock is taken and it is enqueued under the event's lock.
WaitEnqueue(t, e, c) ==
  /\ pc[t] = "idle" /\ lock[e] = NoThread /\ ~signaled[e]
  /\ waiters' = [waiters EXCEPT ![e] = Append(@, t)]
  /\ pc' = [pc EXCEPT ![t] = "check"]
  /\ call' = [call EXCEPT ![t] = c]
  /\ waitables' = [waitables EXCEPT ![t] = <<e>>]
  /\ NoAnswer(t)
  /\ UNCHANGED <<signaled, lock, pos, waiter, hit>>

\* The deadline of a timed wait passes.
Expire(t) ==
  /\ call[t] = "timed"
  /\ call' = [call EXCEPT ![t] = "expired"]
  /\ UNCHANGED <<kernel, pc, waitables, pos, waiter, ret, hit>>

\* Nothing yet: cv.Wait or cv.TimedWait releases the waiter's lock.
Block(t) ==
  /\ pc[t] = "check" /\ ~fired[t] /\ call[t] # "expired"
  /\ pc' = [pc EXCEPT ![t] = "blocked"]
  /\ UNCHANGED <<kernel, call, waitables, pos, waiter, ret, hit>>

\* cv.TimedWait returns at its deadline ...
TimeOut(t) ==
  /\ pc[t] = "blocked" /\ call[t] = "expired"
  /\ pc' = [pc EXCEPT ![t] = "woken"]
  /\ UNCHANGED <<kernel, call, waitables, pos, waiter, ret, hit>>

\* ... and either wait may return for no reason.
SpuriousWakeup(t) ==
  /\ pc[t] = "blocked"
  /\ pc' = [pc EXCEPT ![t] = "woken"]
  /\ UNCHANGED <<kernel, call, waitables, pos, waiter, ret, hit>>

\* A woken thread gets the waiter's lock back and goes round the loop.
Relock(t) ==
  /\ pc[t] = "woken"
  /\ pc' = [pc EXCEPT ![t] = "check"]
  /\ UNCHANGED <<kernel, call, waitables, pos, waiter, ret, hit>>

\* Mutation: Disable is not called, so a late Signal still finds a taker.
WaitDecideWithoutDisable(t) ==
  /\ pc[t] = "check"
  /\ call[t] \in {"wait", "timed", "expired"}
  /\ fired[t] \/ call[t] = "expired"
  /\ result' = [result EXCEPT ![t] = fired[t]]
  /\ pc' = [pc EXCEPT ![t] = "dequeue"]
  /\ UNCHANGED <<kernel, call, waitables, pos, fired, signaling, ret, hit>>

\* Fired or past the deadline: Disable the waiter and release its lock.
WaitDecide(t) ==
  /\ pc[t] = "check"
  /\ call[t] \in {"wait", "timed", "expired"}
  /\ fired[t] \/ call[t] = "expired"
  /\ result' = [result EXCEPT ![t] = fired[t]]
  /\ fired' = [fired EXCEPT ![t] = TRUE]
  /\ pc' = [pc EXCEPT ![t] = "dequeue"]
  /\ UNCHANGED <<kernel, call, waitables, pos, signaling, ret, hit>>

\* Dequeue: the first occurrence of w leaves the list, if there is one.
Dequeue(q, w) ==
  IF w \notin Range(q) THEN q
  ELSE LET first == CHOOSE i \in DOMAIN q :
                      q[i] = w /\ \A j \in 1 .. (i - 1) : q[j] # w
       IN [i \in 1 .. (Len(q) - 1) |-> IF i < first THEN q[i] ELSE q[i + 1]]

\* The call returns r and its SyncWaiter goes out of scope.
Return(t, r) ==
  /\ pc' = [pc EXCEPT ![t] = "idle"]
  /\ call' = [call EXCEPT ![t] = "none"]
  /\ waitables' = [waitables EXCEPT ![t] = <<>>]
  /\ pos' = [pos EXCEPT ![t] = 1]
  /\ fired' = [fired EXCEPT ![t] = FALSE]
  /\ signaling' = [signaling EXCEPT ![t] = NoEvent]
  /\ result' = [result EXCEPT ![t] = FALSE]
  /\ ret' = [ret EXCEPT ![t] = r]

\* Mutation: "Dequeue always returns false", so it is left out.
WaitReturnWithoutDequeue(t) ==
  LET e == waitables[t][1]
  IN /\ pc[t] = "dequeue" /\ call[t] # "many" /\ lock[e] = NoThread
     /\ Return(t, IF result[t] THEN e ELSE NoEvent)
     /\ UNCHANGED <<signaled, waiters, lock, hit>>

\* Mutation: a fired waiter, no longer in the list, skips the event's lock.
WaitReturnWithoutLock(t) ==
  LET e == waitables[t][1]
  IN /\ pc[t] = "dequeue" /\ call[t] # "many" /\ (result[t] \/ lock[e] = NoThread)
     /\ waiters' = IF result[t] THEN waiters ELSE [waiters EXCEPT ![e] = Dequeue(@, t)]
     /\ Return(t, IF result[t] THEN e ELSE NoEvent)
     /\ UNCHANGED <<signaled, lock, hit>>

\* The event's lock is taken once more, fired or not.
WaitReturn(t) ==
  LET e == waitables[t][1]
  IN /\ pc[t] = "dequeue" /\ call[t] # "many" /\ lock[e] = NoThread
     /\ waiters' = [waiters EXCEPT ![e] = Dequeue(@, t)]
     /\ Return(t, IF result[t] THEN e ELSE NoEvent)
     /\ UNCHANGED <<signaled, lock, hit>>

------------------------------------------------------------------------------
(* WaitMany.  EnqueueMany takes the locks in the order of the addresses.   *)

Held(t) == {e \in Events : lock[e] = t}
ToLock(t) == Range(waitables[t]) \ Held(t)

\* Mutation: the array is not sorted.
NextLockUnsorted(t) ==
  waitables[t][CHOOSE i \in DOMAIN waitables[t] :
                 /\ waitables[t][i] \in ToLock(t)
                 /\ \A j \in 1 .. (i - 1) : waitables[t][j] \notin ToLock(t)]

NextLock(t) == CHOOSE e \in ToLock(t) : \A f \in ToLock(t) : e <= f

WaitMany(t, a) ==
  /\ pc[t] = "idle"
  /\ pc' = [pc EXCEPT ![t] = "lockMany"]
  /\ call' = [call EXCEPT ![t] = "many"]
  /\ waitables' = [waitables EXCEPT ![t] = a]
  /\ NoAnswer(t)
  /\ UNCHANGED <<kernel, pos, waiter, hit>>

\* One level of EnqueueMany's recursion, with more events to lock.
EnqueueManyLock(t) ==
  LET e == NextLock(t)
  IN /\ pc[t] = "lockMany" /\ lock[e] = NoThread /\ ~signaled[e]
     /\ ToLock(t) # {e}
     /\ lock' = [lock EXCEPT ![e] = t]
     /\ UNCHANGED <<signaled, waiters, pc, call, waitables, pos, waiter, ret, hit>>

\* An event is signaled: it is consumed, every lock released, and the call
\* reports it without having enqueued its waiter.
EnqueueManySignaled(t) ==
  LET e == NextLock(t)
  IN /\ pc[t] = "lockMany" /\ lock[e] = NoThread /\ signaled[e]
     /\ TakeSignal(e)
     /\ lock' = [f \in Events |-> IF lock[f] = t THEN NoThread ELSE lock[f]]
     /\ Return(t, e)
     /\ UNCHANGED <<waiters, hit>>

\* The last lock, and nothing signaled: the waiter joins every list, its own
\* lock is taken and the events' locks are released.
EnqueueManyLast(t) ==
  LET e == NextLock(t)
  IN /\ pc[t] = "lockMany" /\ lock[e] = NoThread /\ ~signaled[e]
     /\ ToLock(t) = {e}
     /\ waiters' = [f \in Events |-> IF f \in Range(waitables[t])
                                     THEN Append(waiters[f], t) ELSE waiters[f]]
     /\ lock' = [f \in Events |-> IF lock[f] = t THEN NoThread ELSE lock[f]]
     /\ pc' = [pc EXCEPT ![t] = "check"]
     /\ UNCHANGED <<signaled, call, waitables, pos, waiter, ret, hit>>

ManyDecide(t) ==
  /\ pc[t] = "check" /\ call[t] = "many" /\ fired[t]
  /\ pc' = [pc EXCEPT ![t] = "dequeue"]
  /\ UNCHANGED <<kernel, call, waitables, pos, waiter, ret, hit>>

\* signaled_index is 0 until the loop meets the signaling event.
SignaledIndex(t) ==
  IF signaling[t] \in Range(waitables[t])
  THEN CHOOSE i \in DOMAIN waitables[t] : waitables[t][i] = signaling[t]
  ELSE 1

\* Mutation: the place in the array is taken for the event.
ManyDequeueConfused(t) ==
  LET e == waitables[t][pos[t]]
  IN /\ pc[t] = "dequeue" /\ call[t] = "many" /\ lock[e] = NoThread
     /\ waiters' = IF e = signaling[t] THEN waiters
                   ELSE [waiters EXCEPT ![e] = Dequeue(@, t)]
     /\ IF pos[t] < Len(waitables[t])
        THEN /\ pos' = [pos EXCEPT ![t] = @ + 1]
             /\ UNCHANGED <<pc, call, waitables, waiter, ret>>
        ELSE Return(t, SignaledIndex(t))
     /\ UNCHANGED <<signaled, lock, hit>>

\* One turn of the final loop: the waiter leaves the list of every event but
\* the signaling one, whose lock is taken and released all the same.
ManyDequeue(t) ==
  LET e == waitables[t][pos[t]]
  IN /\ pc[t] = "dequeue" /\ call[t] = "many" /\ lock[e] = NoThread
     /\ waiters' = IF e = signaling[t] THEN waiters
                   ELSE [waiters EXCEPT ![e] = Dequeue(@, t)]
     /\ IF pos[t] < Len(waitables[t])
        THEN /\ pos' = [pos EXCEPT ![t] = @ + 1]
             /\ UNCHANGED <<pc, call, waitables, waiter, ret>>
        ELSE Return(t, waitables[t][SignaledIndex(t)])
     /\ UNCHANGED <<signaled, lock, hit>>

------------------------------------------------------------------------------
\* The steps a thread takes inside a call it has begun.
Progress(t) ==
  \/ SignalOne(t) \/ SignalAll(t) \/ SignalEnd(t) \/ SignalUnlock(t)
  \/ Expire(t) \/ Block(t) \/ TimeOut(t) \/ Relock(t)
  \/ WaitDecide(t) \/ WaitReturn(t)
  \/ EnqueueManyLock(t) \/ EnqueueManySignaled(t) \/ EnqueueManyLast(t)
  \/ ManyDecide(t) \/ ManyDequeue(t)

Begin(t) ==
  \/ \E e \in Events :
       \/ Reset(t, e) \/ IsSignaled(t, e)
       \/ SignalAgain(t, e) \/ Signal(t, e) \/ WaitSignaled(t, e)
  \/ \E e \in Events, c \in {"wait", "timed"} : WaitEnqueue(t, e, c)
  \/ \E a \in WaitArrays : WaitMany(t, a)

Next == \E t \in Threads : Begin(t) \/ Progress(t) \/ SpuriousWakeup(t)

Spec == Init /\ [][Next]_vars

\* The scheduler runs a thread that can run, and clocks advance: the deadline
\* has a fairness condition of its own because a thread may be busy meanwhile.
\* Nobody has to call anything, and a wakeup need not be spurious.
FairSpec ==
  /\ Spec
  /\ \A t \in Threads : WF_vars(Progress(t)) /\ WF_vars(Expire(t))

------------------------------------------------------------------------------
(* Correctness. *)

InWait == {"check", "blocked", "woken", "dequeue"}

\* Every variable has its type.
TypeOK ==
  /\ signaled \in [Events -> BOOLEAN]
  /\ waiters \in [Events -> Seq(Threads)]
  /\ lock \in [Events -> Threads \cup {NoThread}]
  /\ pc \in [Threads -> Places]
  /\ call \in [Threads -> Calls]
  /\ waitables \in [Threads -> Seq(Events)]
  /\ pos \in [Threads -> Nat \ {0}]
  /\ fired \in [Threads -> BOOLEAN]
  /\ signaling \in [Threads -> Events \cup {NoEvent}]
  /\ result \in [Threads -> BOOLEAN]
  /\ ret \in [Threads -> Events \cup {NoEvent}]
  /\ hit \in [Threads -> SUBSET Threads]

\* A wait-list holds pointers into the stacks of other threads: each of them
\* must belong to a thread still inside a wait for that very event, once.
\* (Dequeue is called on every path out of a wait.)
NoDanglingWaiter ==
  \A e \in Events :
    /\ IsInjective(waiters[e])
    /\ \A t \in Range(waiters[e]) : pc[t] \in InWait /\ e \in Range(waitables[t])

\* A thread asleep on its condition variable has not been fired, sits in the
\* wait-list of each of its events, and none of them is signaled: the check
\* of the bit, the enqueueing and the walk of Signal leave no gap in which a
\* wakeup is lost.
NoLostWakeup ==
  \A t \in Threads : pc[t] = "blocked" =>
    /\ ~fired[t]
    /\ \A e \in Range(waitables[t]) : ~signaled[e] /\ t \in Range(waiters[e])

\* Which thread's lock a thread is waiting for.
WaitsFor(t, s) ==
  \/ pc[t] = "lockMany" /\ lock[NextLock(t)] = s
  \/ pc[t] = "dequeue" /\ lock[waitables[t][pos[t]]] = s
  \/ /\ pc[t] = "signal" /\ pos[t] <= Len(waiters[waitables[t][1]])
     /\ s = waiters[waitables[t][1]][pos[t]] /\ ~WaiterLockFree(s)

\* However Signal, Wait and WaitMany nest the events' and the waiters' locks,
\* and in whatever order the callers list their events, no set of threads
\* waits for one another's locks ("acquire the locks in a globally consistent
\* order").
NoCircularWait ==
  \A S \in (SUBSET Threads) \ {{}} : \E t \in S : \A s \in S : ~WaitsFor(t, s)

\* "Wait's return happens after Signal has completed", so that the waiter may
\* delete the event: a waiter that a running Signal has fired is still in
\* its wait.
WaitReturnsAfterSignal ==
  \A s \in Threads : \A w \in hit[s] : fired[w] /\ pc[w] \in InWait

\* The locks and lists implement one bit per event: a signal of an automatic
\* event answers exactly one wait or stays in the bit, whatever races with
\* time-outs and WaitMany, and a call reports the event that released it.
Contract == INSTANCE WaitableEventSpec WITH
  token <- [e \in Events |->
              signaled[e] \/ \E s \in Threads : pc[s] = "signal" /\ waitables[s] = <<e>>],
  want <- [t \in Threads |-> IF pc[t] \in InWait \cup {"lockMany"}
                             THEN Range(waitables[t]) ELSE {}],
  got <- signaling,
  answer <- ret

ImplementsContract == Contract!Spec

\* Under weak fairness of the threads' own steps, a waiter that is fired gets
\* out of its wait loop, without the help of a spurious wakeup, and a timed wait
\* does so even if nobody ever signals.
WaitsEnd ==
  \A t \in Threads :
    /\ pc[t] \in {"check", "blocked", "woken"} /\ fired[t] ~> pc[t] = "dequeue"
    /\ call[t] = "timed" ~> pc[t] \in {"dequeue", "idle"}

(* For TLC. *)

\* Both orders of two events: the callers disagree with the addresses.
BothOrders == {<<11, 12>>, <<12, 11>>}

ThreadSymmetry == Permutations(Threads)
==============================================================================
