------------------------------- MODULE AtExit -------------------------------
(***************************************************************************)
(* AtExitManager (src/Stp/Base/App/AtExit.cpp): the callbacks run at the   *)
(* exit of the program, last registered first.  Managers form a stack;     *)
(* all static functions operate on the top one, g_top_manager_.            *)
(*                                                                         *)
(* registerCallback may be called by any thread and is one step, made      *)
(* under the manager's lock.  One thread creates, processes and destroys   *)
(* managers; it runs the callbacks without the lock, so a callback may     *)
(* call anything here, even processCallbacksNow again.  A callback that    *)
(* creates a manager destroys it before it returns; that is left out.      *)
(***************************************************************************)
EXTENDS Integers, Sequences, FiniteSets, TLC

CONSTANTS
  Callbacks,    \* a member stands for one registration with a manager
  MaxManagers,  \* bound on the depth of the stack of managers
  MaxRuns,      \* bound on the nesting of processCallbacksNow
  Asserts       \* ASSERT_IS_ON: a debug build

ASSUME AtExitAssumption ==
  /\ MaxManagers \in Nat /\ MaxRuns \in Nat
  /\ Asserts \in BOOLEAN

VARIABLES
  managers,     \* the managers, g_top_manager_ last: stack_, processing_callbacks_
  runs,         \* the calls of processCallbacksNow, innermost last: their tasks,
                \* and whether ~AtExitManager is the caller
  panicked,     \* "no", or the ASSERT that has failed
  history       \* per manager, the callbacks registered in time, those of them
                \* that have started, and the callbacks registered too late

vars == <<managers, runs, panicked, history>>

Depth == Len(managers)
Inner == Len(runs)
Front(q) == SubSeq(q, 1, Len(q) - 1)

Init == managers = <<>> /\ runs = <<>> /\ panicked = "no" /\ history = <<>>

Running == panicked = "no"

\* AtExitManager(), and AtExitManager(shadow) which may hide another one.
Create(shadow) ==
  /\ Running /\ Depth < MaxManagers /\ runs = <<>>
  /\ managers = <<>> \/ shadow
  /\ managers' = Append(managers, [stack |-> <<>>, processing |-> FALSE])
  /\ history' = Append(history, [registered |-> <<>>, started |-> <<>>, late |-> {}])
  /\ UNCHANGED <<runs, panicked>>

Known(c) == \E i \in DOMAIN history[Depth].registered : history[Depth].registered[i] = c

\* Mutation: the ASSERT of registerCallback is gone.
RegisterUnasserted(c) ==
  /\ Running /\ managers # <<>> /\ ~Known(c) /\ c \notin history[Depth].late
  /\ managers' = [managers EXCEPT ![Depth].stack = Append(@, c)]
  /\ history' = [history EXCEPT ![Depth].registered = Append(@, c)]
  /\ UNCHANGED <<runs, panicked>>

\* registerCallback.  Too late, it fails in a debug build and is gracefully
\* accepted in a release build.
Register(c) ==
  /\ Running /\ managers # <<>> /\ ~Known(c) /\ c \notin history[Depth].late
  /\ managers[Depth].processing => ~Asserts
  /\ managers' = [managers EXCEPT ![Depth].stack = Append(@, c)]
  /\ history' = IF managers[Depth].processing
                THEN [history EXCEPT ![Depth].late = @ \cup {c}]
                ELSE [history EXCEPT ![Depth].registered = Append(@, c)]
  /\ UNCHANGED <<runs, panicked>>

RegisterFails(c) ==
  /\ Running /\ (managers # <<>> => Asserts /\ managers[Depth].processing)
  /\ panicked' = IF managers = <<>> THEN "no manager" ELSE "too late"
  /\ UNCHANGED <<managers, runs, history>>

\* processCallbacksNow, called by anyone or by ~AtExitManager: the locked part.
Process(dtor) ==
  /\ Running /\ managers # <<>> /\ Inner < MaxRuns
  /\ dtor => runs = <<>>
  /\ runs' = Append(runs, [tasks |-> managers[Depth].stack, dtor |-> dtor])
  /\ managers' = [managers EXCEPT ![Depth] = [stack |-> <<>>, processing |-> TRUE]]
  /\ UNCHANGED <<panicked, history>>

\* Mutation: first in, first out.
RunTaskFifo(c) ==
  /\ Running /\ runs # <<>> /\ runs[Inner].tasks # <<>>
  /\ c = Head(runs[Inner].tasks)
  /\ runs' = [runs EXCEPT ![Inner].tasks = Tail(@)]
  /\ history' = IF Known(c) THEN [history EXCEPT ![Depth].started = Append(@, c)] ELSE history
  /\ UNCHANGED <<managers, panicked>>

\* The loop pops the task c and calls it.
RunTask(c) ==
  /\ Running /\ runs # <<>> /\ runs[Inner].tasks # <<>>
  /\ c = runs[Inner].tasks[Len(runs[Inner].tasks)]
  /\ runs' = [runs EXCEPT ![Inner].tasks = Front(@)]
  /\ history' = IF Known(c) THEN [history EXCEPT ![Depth].started = Append(@, c)] ELSE history
  /\ UNCHANGED <<managers, panicked>>

\* Mutation: the loop stops after any task.
FinishEarly ==
  /\ Running /\ runs # <<>>
  /\ runs' = Front(runs)
  /\ managers' = IF runs[Inner].dtor THEN Front(managers) ELSE managers
  /\ history' = IF runs[Inner].dtor THEN Front(history) ELSE history
  /\ UNCHANGED panicked

\* The loop is over; ~AtExitManager uncovers the next manager.  The ASSERT that
\* the stack is empty here cannot fail (StackStaysEmpty).
Finish ==
  /\ Running /\ runs # <<>> /\ runs[Inner].tasks = <<>>
  /\ Asserts => managers[Depth].stack = <<>>
  /\ runs' = Front(runs)
  /\ managers' = IF runs[Inner].dtor THEN Front(managers) ELSE managers
  /\ history' = IF runs[Inner].dtor THEN Front(history) ELSE history
  /\ UNCHANGED panicked

Next ==
  \/ \E shadow \in BOOLEAN : Create(shadow)
  \/ \E c \in Callbacks : Register(c) \/ RegisterFails(c) \/ RunTask(c)
  \/ \E dtor \in BOOLEAN : Process(dtor)
  \/ Finish

Spec == Init /\ [][Next]_vars

\* For model checking: callbacks are interchangeable.
CallbackSymmetry == Permutations(Callbacks)

------------------------------------------------------------------------------
(* Correctness. *)

\* Every variable has its type; callbacks run for the top manager only.
TypeOK ==
  /\ managers \in Seq([stack : Seq(Callbacks), processing : BOOLEAN])
  /\ runs \in Seq([tasks : Seq(Callbacks), dtor : BOOLEAN])
  /\ panicked \in {"no", "no manager", "too late"}
  /\ history \in Seq([registered : Seq(Callbacks), started : Seq(Callbacks),
                      late : SUBSET Callbacks])
  /\ Len(history) = Depth
  /\ runs # <<>> => managers # <<>> /\ managers[Depth].processing

\* The ASSERT at the end of processCallbacksNow cannot fail: the one of
\* registerCallback stops whoever would refill the stack, also from another
\* thread while the tasks run without the lock.
StackStaysEmpty ==
  Asserts => \A d \in 1 .. Depth : managers[d].processing => managers[d].stack = <<>>

\* The callbacks of a manager start in the reverse order of their registration,
\* each once, whatever is hidden by shadows or processed by a nested call.
RunsInReverse ==
  \A d \in 1 .. Depth :
    LET h == history[d]
    IN /\ Len(h.started) <= Len(h.registered)
       /\ \A i \in 1 .. Len(h.started) :
            h.started[i] = h.registered[Len(h.registered) + 1 - i]

\* No manager goes before every callback registered with it in time has run.
NothingTimelyIsLost ==
  [][Len(managers') < Len(managers) =>
       Len(history[Depth].started) = Len(history[Depth].registered)]_vars
==============================================================================
