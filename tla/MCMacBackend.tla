---------------------------- MODULE MCMacBackend -----------------------------
EXTENDS MacBackend, TLC

\* Calls and SSIDs are interchangeable: no definition names one.
Symmetry == Permutations(Calls) \cup Permutations(Ssids)
=============================================================================
