----------------------------- MODULE MCChannel -----------------------------
EXTENDS Channel, TLC

\* Calls are interchangeable among themselves, and so are the isolates.
Symmetry == Permutations(Sends) \cup Permutations(Receives) \cup Permutations(Isolates)
=============================================================================
