------------------------------ MODULE CallOnce ------------------------------
(***************************************************************************)
(* src/Stp/Base/Util/CallOnce.h, CallOnce.cpp: threads that race to call a *)
(* function.  Each access to state_ is a step.  The function may throw.    *)
(***************************************************************************)
EXTENDS Naturals

CONSTANT Threads

VARIABLES
  state,  \* state_
  at,     \* where a thread is in operator()
  calls   \* of the function, "Done" or not

vars == <<state, at, calls>>

Init == state = "NotStarted" /\ at = [t \in Threads |-> "outside"] /\ calls = 0

To(t, place) == at' = [at EXCEPT ![t] = place]

\* Only who finds the call not started goes to needsCall, which would wait;
\* who finds it claimed is told nothing, and returns.
Enter(t) ==
  /\ at[t] = "outside"
  /\ To(t, IF state = "NotStarted" THEN "claiming" ELSE "returned")
  /\ UNCHANGED <<state, calls>>

\* needsCall: the compare-and-swap.
Claim(t) ==
  /\ at[t] = "claiming"
  /\ IF state = "NotStarted" THEN state' = "Claimed" /\ To(t, "calling") /\ calls' = calls + 1
     ELSE To(t, "waiting") /\ UNCHANGED <<state, calls>>

\* needsCall: the loop ends.
Waited(t) == at[t] = "waiting" /\ state # "Claimed" /\ To(t, "returned") /\ UNCHANGED <<state, calls>>

\* Mutation: the other callers are not released.
FinishSilently(t) == at[t] = "calling" /\ To(t, "returned") /\ UNCHANGED <<state, calls>>

\* The function has returned.
Finish(t) == at[t] = "calling" /\ state' = "Done" /\ To(t, "returned") /\ UNCHANGED calls

\* The function throws: state_ stays Claimed.
Throw(t) == at[t] = "calling" /\ To(t, "thrown") /\ UNCHANGED <<state, calls>>

\* The same call site again.  (Who threw stays where it is, for the properties;
\* a thread that comes later stands for it.)
Again(t) == at[t] = "returned" /\ To(t, "outside") /\ UNCHANGED <<state, calls>>

Next == \E t \in Threads : Enter(t) \/ Claim(t) \/ Waited(t) \/ Finish(t) \/ Throw(t) \/ Again(t)

Spec == Init /\ [][Next]_vars

(* Properties *)

\* The function is called once: by nobody else after it was called, even when
\* it threw.
CalledOnce == calls <= 1 /\ (calls = 1 => \A t \in Threads : at[t] = "calling" => state = "Claimed")

\* What operator() is for: when it returns, the function has been called, and is
\* not still running.  (Util.rst: CallOnce is similar to LazyInstance.)
ReturnsAfterCall == \A t \in Threads : at[t] = "returned" => state = "Done"

\* Every caller that waits in needsCall returns, unless the function threw.
WaitersReturn == \A t \in Threads : at[t] = "waiting" ~> (at[t] = "returned" \/ \E u \in Threads : at[u] = "thrown")
==============================================================================
