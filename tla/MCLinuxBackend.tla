--------------------------- MODULE MCLinuxBackend ----------------------------
EXTENDS LinuxBackend, TLC

\* Calls, devices and SSIDs are interchangeable: no definition names one.
Symmetry == Permutations(Calls) \cup Permutations(Devices) \cup Permutations(Ssids)
=============================================================================
