-------------------------- MODULE MCAndroidBackend ---------------------------
(***************************************************************************)
(* AndroidBackend with a history variable for TLC: the connects that were  *)
(* not alone.  A connect is not alone when, between its snapshot and the   *)
(* end of its guard, another guard is alive or a Wi-Fi network the process *)
(* did not ask for appears.                                                *)
(***************************************************************************)
EXTENDS AndroidBackend, TLC

VARIABLE disturbed

hvars == <<vars, disturbed>>

Trying(c) == job[c] \in {"request", "poll", "deadline"} \/ Alive(c)

HInit == Init /\ disturbed = {}

HNext ==
    /\ Next
    /\ disturbed' =
           {c \in Calls : /\ Trying(c)'
                          /\ \/ c \in disturbed
                             \/ \E d \in Calls \ {c} : Alive(d) \/ Alive(d)'
                             \/ \E n \in Others : nets[n] = "absent"
                                                  /\ nets'[n] # "absent"}

HSpec == HInit /\ [][HNext]_hvars

\* No definition names a call, or a network, apart from the others.
Symmetry == Permutations(Calls) \cup Permutations(Others)

\* A connection nobody disturbed is what the docs promise: the process is bound
\* to the network its own request brought up, and stays bound while the
\* connection is held (backend.rs, "binds this process to it").
AloneIsBound ==
    \A c \in Calls :
        guard[c] \in {"output", "held"} /\ c \notin disturbed /\ faults = 0 =>
            binding = c
=============================================================================
