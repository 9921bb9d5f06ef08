--------------------------- MODULE MCRuntimeParts ---------------------------
(***************************************************************************)
(* Parts of the runtime that share nothing, each on its own: a behaviour   *)
(* uses the worker pool, a mutex or semaphore of one to three permits, a   *)
(* wait group, or a generator.                                             *)
(***************************************************************************)
EXTENDS BlockingPool, TaskPermits, TaskWaitGroup, Generators

SomePermits == 1..3
SomeDeltas == {-1, 1, 2}

VARIABLE uses

PartsInit ==
    /\ uses \in {"pool", "permits", "group", "generator"}
    /\ PInit /\ PermitInit /\ GroupInit /\ GenInit
    /\ uses # "permits" => kind = "mutex"
    /\ uses # "generator" => ~isAsync
PartsNext ==
    /\ UNCHANGED uses
    /\ \/ uses = "pool" /\ PNext /\ UNCHANGED <<pvars, gvars, genVars>>
       \/ uses = "permits" /\ PermitNext /\ UNCHANGED <<poolVars, gvars, genVars>>
       \/ uses = "group" /\ GroupNext /\ UNCHANGED <<poolVars, pvars, genVars>>
       \/ uses = "generator" /\ GenNext /\ UNCHANGED <<poolVars, pvars, gvars>>

\* A part that is not used has no step that must be taken.
PartsSpec ==
    /\ PartsInit /\ [][PartsNext]_<<uses, poolVars, pvars, gvars, genVars>>
    /\ PoolFairness /\ PermitFairness /\ GenFairness
=============================================================================
