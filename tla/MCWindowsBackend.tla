-------------------------- MODULE MCWindowsBackend ---------------------------
EXTENDS WindowsBackend, TLC

\* All SSIDs of the instance have one profile name, as SSIDs do that differ in
\* bytes that are not UTF-8.
OneName == [s \in Ssids |-> CHOOSE n \in Names : TRUE]

\* Calls and SSIDs are interchangeable: no definition names one.
Symmetry == Permutations(Calls) \cup Permutations(Ssids)
=============================================================================
