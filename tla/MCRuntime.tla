------------------------------ MODULE MCRuntime ------------------------------
(* What a program runs on: its threads and what is between them, the locks, the
   once-calls and the lock of sequence numbers, the parts it starts with, and an
   allocator: one run for six components that share no state, one of which it
   follows at a time. *)
EXTENDS OneWriterSeqLock, Sequences

CONSTANTS
  NONE,
  Workers, Externals, Main, Objects, Iterations, MaxCallbacks, Careful,        \* Thread
  Parts, Base, Graphs, Callbacks, Asserts,                                      \* Application
  Sizes, Alignments, MinBlockSize, MaxBlockSize, MaxAlign, Address, MaxBlocks   \* LinearAllocator

\* The threads and the objects are different, and the exit of a thread calls the
\* destructor of its key at least once.
ASSUME ThreadsAssumption ==
  /\ NONE \notin Workers \cup Externals \cup {Main} \cup Objects
  /\ Main \notin Workers \cup Externals /\ Workers \cap Externals = {}
  /\ Objects \cap (Workers \cup Externals \cup {Main}) = {}
  /\ Iterations \in Nat \ {0}

\* A part depends on other parts; BaseApplicationPart is behind none.
ASSUME PartsAssumption ==
  /\ Base \in Parts /\ NONE \notin Parts
  /\ \A g \in Graphs :
       /\ DOMAIN g = Parts /\ g[Base] = <<>>
       /\ \A p \in Parts : g[p] \in Seq(Parts \ {Base})

ASSUME MemoryAssumption ==
  /\ Sizes \subseteq Nat /\ Alignments \subseteq Nat \ {0}
  /\ MinBlockSize \in Nat /\ MaxBlockSize \in Nat /\ MaxAlign \in Nat \ {0} /\ Address \in Nat

VARIABLES
  part,
  stage, starter, current, key, at_exit, task, rounds, handle, alive, joining, history,  \* Thread
  state, place, calls,            \* CallOnce
  holder, owner, where, sleeping, \* Lock
  phase, deps, status, next_part, prev_part, parts_tail, adding, turn, initialized, finalized,
  managers, runs, panicked, registered,                           \* Application
  blocks, chunk_size, total_capacity, total_used, total_lost, live  \* LinearAllocator

Life == INSTANCE Thread
Once == INSTANCE CallOnce WITH Threads <- Workers \cup {Main}, at <- place
Locks == INSTANCE Lock WITH Threads <- Workers \cup {Main}, at <- where
App == INSTANCE Application WITH
  next <- next_part, prev <- prev_part, tail <- parts_tail, calls <- adding, cursor <- turn, history <- registered
Memory == INSTANCE LinearAllocator WITH Base <- Address

\* For TLC.
SomeGraphs == {g \in [Parts -> {<<>>, <<"a">>, <<"b">>, <<"b", "c">>, <<"c", "a">>}] : g[Base] = <<>>}

lifeVars == <<stage, starter, current, key, at_exit, task, rounds, handle, alive, joining, history>>
onceVars == <<state, place, calls>>
lockVars == <<holder, owner, where, sleeping>>
appVars == <<phase, deps, status, next_part, prev_part, parts_tail, adding, turn, initialized, finalized,
             managers, runs, panicked, registered>>
memoryVars == <<blocks, chunk_size, total_capacity, total_used, total_lost, live>>

all == <<part, lifeVars, onceVars, lockVars, vars, appVars, memoryVars>>

MCInit ==
  /\ part \in {"life", "once", "locks", "copies", "parts", "memory"}
  /\ Life!Init /\ Once!Init /\ Locks!Init /\ Init /\ Memory!Init
  /\ App!Init /\ (part # "parts" => \A p \in Parts : deps[p] = <<>>)

LifeOnly == part = "life" /\ UNCHANGED <<part, onceVars, lockVars, vars, appVars, memoryVars>>
OnceOnly == part = "once" /\ UNCHANGED <<part, lifeVars, lockVars, vars, appVars, memoryVars>>
LocksOnly == part = "locks" /\ UNCHANGED <<part, lifeVars, onceVars, vars, appVars, memoryVars>>
CopiesOnly == part = "copies" /\ UNCHANGED <<part, lifeVars, onceVars, lockVars, appVars, memoryVars>>
PartsOnly == part = "parts" /\ UNCHANGED <<part, lifeVars, onceVars, lockVars, vars, memoryVars>>
MemoryOnly == part = "memory" /\ UNCHANGED <<part, lifeVars, onceVars, lockVars, vars, appVars>>

MCNext ==
  \/ Life!Next /\ LifeOnly
  \/ Once!Next /\ OnceOnly
  \/ Locks!Next /\ LocksOnly
  \/ Next /\ CopiesOnly
  \/ App!Next /\ PartsOnly
  \/ Memory!Next /\ MemoryOnly

\* Every thread that can run does, and the functions of users return or throw.
Fairness ==
  /\ WF_all(Life!JoinReturns /\ LifeOnly)
  /\ \A t \in Workers \cup Externals \cup {Main} : WF_all(Life!Proceed(t) /\ LifeOnly)
  /\ \A t \in Workers \cup {Main} :
       WF_all((Once!Claim(t) \/ Once!Waited(t) \/ Once!Finish(t) \/ Once!Throw(t)) /\ OnceOnly)
  /\ WF_all(Writer /\ CopiesOnly)
  /\ \A r \in Readers : WF_all(Reader(r) /\ CopiesOnly)

MCSpec == MCInit /\ [][MCNext]_all /\ Fairness

\* The ThreadData and Thread objects in use are there, and used by one thread.
DataIsLive == Life!DataIsLive

\* The callbacks a thread has registered run, once and in reverse, before it ends.
CallbacksRun == Life!CallbacksRun

\* The owner a lock remembers is its holder, and a function is called once.
ExclusionHolds == Locks!OwnerIsHolder /\ Once!CalledOnce

\* Join and needsCall return.
WaitsEnd == Life!JoinEnds /\ Once!WaitersReturn

\* What the allocator hands out is aligned and apart, and its totals are right.
AllocationsAreSafe == Memory!TotalsAgree /\ Memory!AllocationsAreSafe

\* Parts are initialised behind what they depend on, and finalised in reverse.
PartsInOrder == App!PartsInOrder
==============================================================================
