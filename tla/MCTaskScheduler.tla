-------------------------- MODULE MCTaskScheduler --------------------------
EXTENDS TaskSchedulerRefinement, TLC

Symmetry == Permutations(Cells)
=============================================================================
