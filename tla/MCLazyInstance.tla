--------------------------- MODULE MCLazyInstance ---------------------------
(* LazyInstance for TLC: a logger that everything uses, a pool that uses the *)
(* logger from its constructor and destructor, and a leaky cache.            *)
EXTENDS LazyInstance

CONSTANTS logger, pool, cache

MCCtorUses == [i \in Instances |-> CASE i = logger -> {} [] i = pool -> {logger} [] i = cache -> {pool}]
MCDtorUses == [i \in Instances |-> IF i = pool THEN {logger} ELSE {}]
==============================================================================
