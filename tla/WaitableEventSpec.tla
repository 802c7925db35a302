-------------------------- MODULE WaitableEventSpec --------------------------
(***************************************************************************)
(* What a WaitableEvent promises its callers                               *)
(* (src/Stp/Base/Thread/WaitableEvent.h), without locks, wait-lists or     *)
(* condition variables.  An event is one bit.  A wait takes the bit of one *)
(* of the events it asked for; taking the bit of an automatic event clears *)
(* it, so one signal is worth at most one successful wait.                 *)
(***************************************************************************)

CONSTANTS Threads,   \* the calling threads
          Events,    \* the events
          Manual,    \* the events whose ResetPolicy is Manual
          NoEvent    \* "not signaled" / "timed out"

VARIABLES token,     \* token[e]: event e is signaled
          want,      \* want[t]: the events thread t is waiting for
          got,       \* got[t]: the event that released t's wait, if any did
          answer     \* answer[t]: what t's last call returned

vars == <<token, want, got, answer>>

Init ==
  /\ token \in [Events -> BOOLEAN]
  /\ want = [t \in Threads |-> {}]
  /\ got = [t \in Threads |-> NoEvent]
  /\ answer = [t \in Threads |-> NoEvent]

\* A call that has no answer, or none yet, forgets the previous one.
Forget(t) == answer' = [answer EXCEPT ![t] = NoEvent]

Signal(t, e) ==
  /\ want[t] = {}
  /\ token' = [token EXCEPT ![e] = TRUE]
  /\ Forget(t)
  /\ UNCHANGED <<want, got>>

Reset(t, e) ==
  /\ want[t] = {}
  /\ token' = [token EXCEPT ![e] = FALSE]
  /\ Forget(t)
  /\ UNCHANGED <<want, got>>

Take(e) == token[e] /\ token' = [token EXCEPT ![e] = e \in Manual]

\* A poll, or a wait that finds its event signaled, answers at once.
TryTake(t, e) ==
  /\ want[t] = {} \/ e \in want[t]
  /\ got[t] = NoEvent
  /\ Take(e)
  /\ want' = [want EXCEPT ![t] = {}]
  /\ answer' = [answer EXCEPT ![t] = e]
  /\ UNCHANGED got

\* A poll of an event that is not signaled.
Miss(t, e) ==
  /\ want[t] = {} /\ ~token[e]
  /\ Forget(t)
  /\ UNCHANGED <<token, want, got>>

Ask(t, S) ==
  /\ want[t] = {} /\ S # {}
  /\ want' = [want EXCEPT ![t] = S]
  /\ Forget(t)
  /\ UNCHANGED <<token, got>>

Consume(t, e) ==
  /\ e \in want[t] /\ got[t] = NoEvent
  /\ Take(e)
  /\ got' = [got EXCEPT ![t] = e]
  /\ UNCHANGED <<want, answer>>

\* The wait returns the event it consumed, or times out empty-handed.
Done(t) ==
  /\ want[t] # {}
  /\ want' = [want EXCEPT ![t] = {}]
  /\ got' = [got EXCEPT ![t] = NoEvent]
  /\ answer' = [answer EXCEPT ![t] = got[t]]
  /\ UNCHANGED token

Next ==
  \/ \E t \in Threads, e \in Events :
       Signal(t, e) \/ Reset(t, e) \/ TryTake(t, e) \/ Miss(t, e) \/ Consume(t, e)
  \/ \E t \in Threads, S \in SUBSET Events : Ask(t, S)
  \/ \E t \in Threads : Done(t)

Spec == Init /\ [][Next]_vars
==============================================================================
