----------------------------- MODULE Application -----------------------------
(***************************************************************************)
(* src/Stp/Base/App/Application.cpp: the parts of a program, registered    *)
(* behind their dependencies, initialised in that order and finalised in   *)
(* reverse, before the AtExitManager of the application runs its tasks.    *)
(*                                                                         *)
(* The parts are a linked list as in the code.  An addPart that meets a    *)
(* dependency calls addPart, so the calls in progress form a stack.  Parts *)
(* and main() may register callbacks at any time; AtExit is instantiated   *)
(* over its own variables, and the application is its only user here.      *)
(***************************************************************************)
EXTENDS Integers, Sequences, SequencesExt, FiniteSets

CONSTANTS
  Parts, Base,    \* BaseApplicationPart::Instance, a member of Parts
  Graphs,         \* the dependencies that the parts may have, per part a sequence;
                  \* Base is not one (its status is Unregistered, it would be in the list twice)
  Callbacks, Asserts,
  NONE

VARIABLES
  phase,
  deps, status, next, prev,  \* of every part: info_->deps, status_, next_, prev_
  tail,                      \* parts_tail_; parts_head_ is always Base
  calls,                     \* of addPart: the part, and its dependencies to come
  cursor,                    \* the part whose turn is next in init or fini
  initialized, finalized,    \* the parts, in this order
  managers, runs, panicked, history  \* of AtExit

registry == <<deps, status, next, prev, tail, calls>>
atExitVars == <<managers, runs, panicked, history>>
vars == <<phase, registry, cursor, initialized, finalized, atExitVars>>

Manager == INSTANCE AtExit WITH MaxManagers <- 1, MaxRuns <- 1

\* With the constructor, which creates the manager.
Init ==
  /\ phase = "Born"
  /\ deps \in Graphs
  /\ status = [p \in Parts |-> "Unregistered"]
  /\ next = [p \in Parts |-> NONE] /\ prev = [p \in Parts |-> NONE]
  /\ tail = Base
  /\ calls = <<>> /\ cursor = NONE
  /\ initialized = <<>> /\ finalized = <<>>
  /\ managers = <<[stack |-> <<>>, processing |-> FALSE]>>
  /\ runs = <<>> /\ panicked = "no"
  /\ history = <<[registered |-> <<>>, started |-> <<>>, late |-> {}]>>

Running == panicked = "no"

\* Mutation: a part counts as registered before its dependencies are.
CallAddPartEagerly(p, outer) ==
  /\ status' = IF status[p] = "Unregistered" THEN [status EXCEPT ![p] = "Registered"] ELSE status
  /\ calls' = IF status[p] = "Unregistered" THEN Append(outer, [part |-> p, todo |-> deps[p]]) ELSE outer
  /\ UNCHANGED panicked

\* addPart(p), called by the program or, for a dependency, from an addPart.
\* Only an ASSERT finds a circle.
CallAddPart(p, outer) ==
  /\ status' = IF status[p] = "Unregistered" THEN [status EXCEPT ![p] = "Registering"] ELSE status
  /\ calls' = IF status[p] = "Unregistered" THEN Append(outer, [part |-> p, todo |-> deps[p]]) ELSE outer
  /\ panicked' = IF Asserts /\ status[p] = "Registering" THEN "circle" ELSE panicked

\* Steps of addPart that leave everything else alone.
Registration == UNCHANGED <<phase, deps, cursor, initialized, finalized, managers, runs, history>>

addPart(p) ==
  /\ Running /\ phase = "Born" /\ calls = <<>>
  /\ CallAddPart(p, calls)
  /\ Registration /\ UNCHANGED <<next, prev, tail>>

AddDependency ==
  /\ Running /\ calls # <<>> /\ Last(calls).todo # <<>>
  /\ LET call == Last(calls)
     IN CallAddPart(Head(call.todo), Append(Front(calls), [call EXCEPT !.todo = Tail(@)]))
  /\ Registration /\ UNCHANGED <<next, prev, tail>>

\* appendPartToList, when the dependencies are there.
AppendPart ==
  /\ Running /\ calls # <<>> /\ Last(calls).todo = <<>>
  /\ LET p == Last(calls).part
     IN /\ status' = [status EXCEPT ![p] = "Registered"]
        /\ next' = [next EXCEPT ![tail] = p]
        /\ prev' = [prev EXCEPT ![p] = tail]
        /\ tail' = p
  /\ calls' = Front(calls)
  /\ Registration /\ UNCHANGED panicked

init ==
  /\ Running /\ phase = "Born" /\ calls = <<>>
  /\ phase' = "Initializing"
  /\ cursor' = Base
  /\ UNCHANGED <<registry, initialized, finalized, atExitVars>>

InitPart ==
  /\ Running /\ phase = "Initializing" /\ cursor # NONE
  /\ initialized' = Append(initialized, cursor)
  /\ cursor' = next[cursor]
  /\ UNCHANGED <<phase, registry, finalized, atExitVars>>

\* The init of a part, or main(), throws: run is over, and fini is not for this
\* phase; nothing of what was initialised is finalised, no task runs.
Throw ==
  /\ Running /\ phase \in {"Initializing", "Running"}
  /\ panicked' = "exception"
  /\ UNCHANGED <<phase, registry, cursor, initialized, finalized, managers, runs, history>>

DidInit ==
  /\ Running /\ phase = "Initializing" /\ cursor = NONE
  /\ phase' = "Running"
  /\ UNCHANGED <<registry, cursor, initialized, finalized, atExitVars>>

fini ==
  /\ Running /\ phase = "Running"
  /\ phase' = "Finalizing"
  /\ cursor' = tail
  /\ UNCHANGED <<registry, initialized, finalized, atExitVars>>

FiniPart ==
  /\ Running /\ phase = "Finalizing" /\ cursor # NONE
  /\ finalized' = Append(finalized, cursor)
  /\ cursor' = prev[cursor]
  /\ UNCHANGED <<phase, registry, initialized, atExitVars>>

\* delete at_exit_manager_, in three steps.
ProcessTasks ==
  /\ phase = "Finalizing" /\ cursor = NONE
  /\ Manager!Process(TRUE)
  /\ UNCHANGED <<phase, registry, cursor, initialized, finalized>>

RunTask(c) == Manager!RunTask(c) /\ UNCHANGED <<phase, registry, cursor, initialized, finalized>>

FinishTasks ==
  /\ Manager!Finish
  /\ phase' = "Dead"
  /\ UNCHANGED <<registry, cursor, initialized, finalized>>

registerCallback(c) ==
  /\ phase # "Born"
  /\ Manager!Register(c)
  /\ UNCHANGED <<phase, registry, cursor, initialized, finalized>>

Next ==
  \/ \E p \in Parts \ {Base} : addPart(p)
  \/ AddDependency
  \/ AppendPart
  \/ init
  \/ InitPart
  \/ Throw
  \/ DidInit
  \/ fini
  \/ FiniPart
  \/ ProcessTasks
  \/ \E c \in Callbacks : RunTask(c) \/ registerCallback(c)
  \/ FinishTasks

Spec == Init /\ [][Next]_vars

(* Properties *)

Once(q) == \A i, j \in DOMAIN q : q[i] = q[j] => i = j

\* Every part is initialised once, behind Base and all its dependencies, and
\* finalised once, in reverse; in main() all that were added, with what they
\* depend on, are initialised; the tasks at exit run when all are finalised.
PartsInOrder ==
  /\ Once(initialized)
  /\ IsPrefix(finalized, Reverse(initialized))
  /\ \A i \in DOMAIN initialized :
       ToSet(deps[initialized[i]]) \cup {Base} \subseteq ToSet(SubSeq(initialized, 1, i - 1)) \cup {Base}
  /\ initialized # <<>> => Head(initialized) = Base
  /\ phase = "Running" => {p \in Parts : status[p] # "Unregistered"} \subseteq ToSet(initialized)
  /\ runs # <<>> => Len(finalized) = Len(initialized)
==============================================================================
