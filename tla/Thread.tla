------------------------------- MODULE Thread -------------------------------
(***************************************************************************)
(* src/Stp/Base/Thread/Thread.cpp with NativeThreadPosix.cpp: the life of  *)
(* threads, of the Thread objects that start them, and of the ThreadData   *)
(* that holds their at-exit callbacks.                                     *)
(*                                                                         *)
(* A ThreadData is named after the Thread object it is a member of, or     *)
(* after the thread that adopted itself.  The main thread handles all the  *)
(* Thread objects (access to one has to be serialised, Thread.rst).        *)
(* A callback is named by the thread that registers it and its number      *)
(* there.                                                                  *)
(***************************************************************************)
EXTENDS Integers, Sequences, SequencesExt, FiniteSetsExt

CONSTANTS
  Workers,     \* the threads that Start creates
  Externals,   \* the threads that something else has created
  Main,        \* the main thread
  Objects,
  Iterations,  \* PTHREAD_DESTRUCTOR_ITERATIONS
  MaxCallbacks,
  NONE,
  Careful      \* users keep a detached thread's object until the thread ends, and
               \* ClassFini comes when all other threads have ended

VARIABLES
  stage,    \* of a thread
  starter,  \* the Thread object whose ThreadMain a thread runs
  current,  \* g_tls_for_current, per thread
  key,      \* whether g_tls_for_current has been allocated, and deallocated
  at_exit,  \* of every ThreadData
  task,     \* Dispose, per thread: the ThreadData, the callbacks to call, whether one has been
  rounds,   \* the calls of OnDestroy by the exit of a thread
  handle,   \* native_handle_ of a Thread object
  alive,    \* whether the object is there
  joining,  \* the object that the main thread joins
  history   \* per thread: the rounds in which its callbacks were accepted, in order, and
            \* the callbacks called

vars == <<stage, starter, current, key, at_exit, task, rounds, handle, alive, joining, history>>

Threads == Workers \cup Externals \cup {Main}
NoTask == [that |-> NONE, left |-> <<>>, called |-> FALSE]

Init ==
  /\ stage = [t \in Threads |-> IF t \in Workers THEN "unborn" ELSE "body"]
  /\ starter = [t \in Threads |-> NONE]
  /\ current = [t \in Threads |-> NONE]
  /\ key = "none"
  /\ at_exit = [d \in Threads \cup Objects |-> <<>>]
  /\ task = [t \in Threads |-> NoTask]
  /\ rounds = [t \in Threads |-> 0]
  /\ handle = [o \in Objects |-> NONE]
  /\ alive = [o \in Objects |-> TRUE]
  /\ joining = NONE
  /\ history = [t \in Threads |-> [accepted |-> <<>>, called |-> <<>>]]

\* Where a thread runs code of its user: Main(), or a callback.
InUserCode(t) == /\ key = "valid"
                 /\ t = Main => joining = NONE
                 /\ stage[t] = "body" \/ (stage[t] = "disposing" /\ task[t].called)

Runs(t, o) == starter[t] = o /\ stage[t] \notin {"unborn", "ended"}

\* Nobody runs on the object, not even detached.
Settled(o) == \A t \in Workers : ~Runs(t, o)

ClassInit ==
  /\ key = "none"
  /\ key' = "valid"
  /\ current' = [current EXCEPT ![Main] = Main]
  /\ UNCHANGED <<stage, starter, at_exit, task, rounds, handle, alive, joining, history>>

\* Mutation: a Thread may be started again while its thread runs.
StartAgain(o, t) ==
  /\ InUserCode(Main) /\ alive[o] /\ stage[t] = "unborn"
  /\ handle' = [handle EXCEPT ![o] = t]
  /\ starter' = [starter EXCEPT ![t] = o]
  /\ stage' = [stage EXCEPT ![t] = "starting"]
  /\ UNCHANGED <<current, key, at_exit, task, rounds, alive, joining, history>>

Start(o, t) ==
  /\ InUserCode(Main) /\ alive[o] /\ stage[t] = "unborn"
  /\ handle[o] = NONE
  /\ Careful => Settled(o)
  /\ handle' = [handle EXCEPT ![o] = t]
  /\ starter' = [starter EXCEPT ![t] = o]
  /\ stage' = [stage EXCEPT ![t] = "starting"]
  /\ UNCHANGED <<current, key, at_exit, task, rounds, alive, joining, history>>

\* ThreadMain registers the ThreadData of the object and calls Main().
ThreadMain(t) ==
  /\ stage[t] = "starting"
  /\ stage' = [stage EXCEPT ![t] = "body"]
  /\ current' = [current EXCEPT ![t] = starter[t]]
  /\ UNCHANGED <<starter, key, at_exit, task, rounds, handle, alive, joining, history>>

\* A thread that has a ThreadData already is left alone.  When a callback of
\* an adopted thread adopts it again, that is a second ThreadData; at_exit is
\* then the new one's, because Dispose has emptied the old one.
Adopt(t) ==
  /\ InUserCode(t) /\ current[t] = NONE
  /\ current' = [current EXCEPT ![t] = t]
  /\ UNCHANGED <<stage, starter, key, at_exit, task, rounds, handle, alive, joining, history>>

Accepted(t) == Len(history[t].accepted)

\* The ThreadData of the main thread is still its current one while ClassFini
\* disposes of it: what a callback adds there is forgotten.
AtExit(t) ==
  /\ InUserCode(t) /\ current[t] # NONE
  /\ Careful /\ t = Main => stage[t] = "body"
  /\ MapThenSumSet(Accepted, Threads) < MaxCallbacks
  /\ at_exit' = [at_exit EXCEPT ![current[t]] = Append(@, <<t, Accepted(t) + 1>>)]
  /\ history' = [history EXCEPT ![t].accepted = Append(@, rounds[t])]
  /\ UNCHANGED <<stage, starter, current, key, task, rounds, handle, alive, joining>>

\* Main() returns, or the external thread does.
Return(t) ==
  /\ t # Main /\ key = "valid" /\ stage[t] = "body"
  /\ stage' = [stage EXCEPT ![t] = "exiting"]
  /\ UNCHANGED <<starter, current, key, at_exit, task, rounds, handle, alive, joining, history>>

\* Dispose of the current ThreadData: at_exit is moved out.
Dispose(t) ==
  /\ stage' = [stage EXCEPT ![t] = "disposing"]
  /\ task' = [task EXCEPT ![t] = [that |-> current[t], left |-> at_exit[current[t]], called |-> FALSE]]
  /\ at_exit' = [at_exit EXCEPT ![current[t]] = <<>>]
  /\ UNCHANGED <<starter, key, handle, alive, joining, history>>

\* The exit of a thread calls OnDestroy for the value of the key, which it has
\* reset; it does so again while there is a value, but not for ever.
OnDestroy(t) ==
  /\ stage[t] = "exiting" /\ key = "valid" /\ current[t] # NONE /\ rounds[t] < Iterations
  /\ current' = [current EXCEPT ![t] = NONE]
  /\ rounds' = [rounds EXCEPT ![t] = @ + 1]
  /\ Dispose(t)

ClassFini ==
  /\ InUserCode(Main) /\ stage[Main] = "body"
  /\ Dispose(Main)
  /\ UNCHANGED <<current, rounds>>

\* Mutation: in the order of their registration.
CallFirst(t) ==
  /\ stage[t] = "disposing" /\ task[t].left # <<>>
  /\ t = Main => joining = NONE
  /\ task' = [task EXCEPT ![t].left = Tail(@), ![t].called = TRUE]
  /\ history' = [history EXCEPT ![t].called = Append(@, Head(task[t].left))]
  /\ UNCHANGED <<stage, starter, current, key, at_exit, rounds, handle, alive, joining>>

\* The callback before has returned; the last one is called next.
Call(t) ==
  /\ stage[t] = "disposing" /\ task[t].left # <<>>
  /\ t = Main => joining = NONE
  /\ task' = [task EXCEPT ![t].left = Front(@), ![t].called = TRUE]
  /\ history' = [history EXCEPT ![t].called = Append(@, Last(task[t].left))]
  /\ UNCHANGED <<stage, starter, current, key, at_exit, rounds, handle, alive, joining>>

\* Dispose returns, for the main thread to ClassFini, which deallocates the key.
Disposed(t) ==
  /\ stage[t] = "disposing" /\ task[t].left = <<>>
  /\ t = Main => /\ joining = NONE
                 /\ Careful => \A u \in Threads \ {Main} : stage[u] \in {"unborn", "ended"}
  /\ stage' = [stage EXCEPT ![t] = IF t = Main THEN "ended" ELSE "exiting"]
  /\ task' = [task EXCEPT ![t] = NoTask]
  /\ key' = IF t = Main THEN "deleted" ELSE key
  /\ UNCHANGED <<starter, current, at_exit, rounds, handle, alive, joining, history>>

End(t) ==
  /\ stage[t] = "exiting"
  /\ key # "valid" \/ current[t] = NONE \/ rounds[t] = Iterations
  /\ stage' = [stage EXCEPT ![t] = "ended"]
  /\ UNCHANGED <<starter, current, key, at_exit, task, rounds, handle, alive, joining, history>>

Join(o) ==
  /\ InUserCode(Main) /\ alive[o] /\ handle[o] # NONE
  /\ joining' = o
  /\ UNCHANGED <<stage, starter, current, key, at_exit, task, rounds, handle, alive, history>>

JoinReturns ==
  /\ joining # NONE /\ stage[handle[joining]] = "ended"
  /\ handle' = [handle EXCEPT ![joining] = NONE]
  /\ joining' = NONE
  /\ UNCHANGED <<stage, starter, current, key, at_exit, task, rounds, alive, history>>

Detach(o) ==
  /\ InUserCode(Main) /\ alive[o] /\ handle[o] # NONE
  /\ handle' = [handle EXCEPT ![o] = NONE]
  /\ UNCHANGED <<stage, starter, current, key, at_exit, task, rounds, alive, joining, history>>

\* ~Thread.
Destroy(o) ==
  /\ InUserCode(Main) /\ alive[o]
  /\ handle[o] = NONE
  /\ Careful => Settled(o)
  /\ alive' = [alive EXCEPT ![o] = FALSE]
  /\ UNCHANGED <<stage, starter, current, key, at_exit, task, rounds, handle, joining, history>>

Next ==
  \/ ClassInit
  \/ ClassFini
  \/ \E o \in Objects : Join(o) \/ Detach(o) \/ Destroy(o) \/ (\E t \in Workers : Start(o, t))
  \/ JoinReturns
  \/ \E t \in Threads : ThreadMain(t) \/ Adopt(t) \/ AtExit(t) \/ Return(t)
  \/ \E t \in Threads : OnDestroy(t) \/ Call(t) \/ Disposed(t) \/ End(t)

Spec == Init /\ [][Next]_vars

\* What a thread does by itself, when Main() returns and so does every callback.
Proceed(t) == ThreadMain(t) \/ Return(t) \/ OnDestroy(t) \/ Call(t) \/ Disposed(t) \/ End(t)

(* Properties *)

\* A Thread object is there while a thread runs its Main(), or uses its
\* ThreadData to register or to dispose, and no two threads do so together.
DataIsLive ==
  /\ \A t \in Workers, o \in Objects :
       o \in {current[t], task[t].that} \/ (starter[t] = o /\ stage[t] \in {"starting", "body"}) => alive[o]
  /\ \A t, u \in Workers : t # u /\ stage[t] # "unborn" /\ starter[t] = starter[u] => "ended" \in {stage[t], stage[u]}

\* Whether callback k of a thread has to run before its callback l.
Before(t, k, l) ==
  LET round == history[t].accepted
  IN round[k] < round[l] \/ (round[k] = round[l] /\ k > l)

\* When a thread has ended, and not only when Join has returned, every callback
\* that it passed to AtExit has been called once and in reverse order, those
\* passed by callbacks after all before; but for those of the last round that
\* the system grants.
CallbacksRun ==
  \A t \in Threads : stage[t] = "ended" =>
    LET round == history[t].accepted
        called == history[t].called
    IN /\ Range(called) = {<<t, k>> : k \in {i \in DOMAIN round : round[i] < Iterations}}
       /\ \A i, j \in DOMAIN called : i < j => Before(t, called[i][2], called[j][2])

\* Join returns, however often the callbacks of the thread adopt it again.
JoinEnds == joining # NONE ~> joining = NONE
==============================================================================
