---------------------------- MODULE AdapterLocks -----------------------------
(***************************************************************************)
(* What every backend promises about concurrent calls: two operations on   *)
(* one adapter never overlap, operations on different adapters may.  A     *)
(* call is queued from the moment it asks for its adapter's mutex, inside  *)
(* from the moment it holds it, and done when its future has completed or  *)
(* was dropped.  The backends implement this specification; see status in  *)
(* their modules for the mapping.                                          *)
(***************************************************************************)
CONSTANTS
    Calls,
    Adapters

VARIABLES
    on,         \* per call, the adapter it is for
    status      \* per call, where it is

vars == <<on, status>>

Init ==
    /\ on \in [Calls -> Adapters]
    /\ status = [c \in Calls |-> "idle"]

\* The call is polled and asks for the mutex.
Ask(c) ==
    /\ status[c] = "idle"
    /\ status' = [status EXCEPT ![c] = "queued"]
    /\ UNCHANGED on

\* The mutex of the adapter is free, and the call takes it.
Enter(c) ==
    /\ status[c] = "queued"
    /\ \A d \in Calls : status[d] = "inside" => on[d] # on[c]
    /\ status' = [status EXCEPT ![c] = "inside"]
    /\ UNCHANGED on

\* The call returns, fails before it is queued, or is dropped.
Finish(c) ==
    /\ status[c] # "done"
    /\ status' = [status EXCEPT ![c] = "done"]
    /\ UNCHANGED on

Next == \E c \in Calls : Ask(c) \/ Enter(c) \/ Finish(c)

Spec == Init /\ [][Next]_vars
=============================================================================
