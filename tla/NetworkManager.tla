--------------------------- MODULE NetworkManager ----------------------------
(***************************************************************************)
(* NetworkManager, as the crate uses it over D-Bus.  Nothing here is code  *)
(* of the repository: each operator is a method that platform/linux calls, *)
(* or something the daemon, the radio or another client does by itself.    *)
(*                                                                         *)
(* An activation has the name of the call that asked for it, or one of     *)
(* Autos when the daemon (or a person at the desktop) started it.  A       *)
(* profile has the name of the connect that added it, or one of Stored.    *)
(***************************************************************************)
EXTENDS Naturals

CONSTANTS
    Calls,      \* calls on the public API
    Devices,    \* Wi-Fi devices (adapters)
    Ssids,      \* network names
    Autos,      \* bound on the activations nobody here asked for
    Stored,     \* profiles saved before the crate was loaded
    None        \* absence

Acts == Calls \cup Autos
Profiles == Calls \cup Stored
Links == [dev : Devices, ssid : Ssids, prof : Profiles]
ActStates == {"none", "activating", "activated", "deactivated", "gone"}
Live == {"activating", "activated"}

ASSUME NoneAssumption == None \notin Ssids \cup Links
ASSUME NamesAssumption ==
    Calls \cap Autos = {} /\ Calls \cap Stored = {}

VARIABLES
    saved,      \* per profile, the SSID it is for, or None
    link,       \* per activation, what it connects, or None
    state,      \* ActiveConnection.State; "gone" once the object is removed
    apKnown,    \* whether SpecificObject names an access point
    up          \* whether it ever reached ACTIVATED (history)

nmVars == <<saved, link, state, apKnown, up>>

NetworkTypeOK ==
    /\ saved \in [Profiles -> Ssids \cup {None}]
    /\ link \in [Acts -> Links \cup {None}]
    /\ state \in [Acts -> ActStates]
    /\ apKnown \in [Acts -> BOOLEAN]
    /\ up \in [Acts -> BOOLEAN]

NetworkInit ==
    /\ saved \in [Profiles -> Ssids \cup {None}]
    /\ \A c \in Calls : saved[c] = None
    /\ link = [a \in Acts |-> None]
    /\ state = [a \in Acts |-> "none"]
    /\ apKnown = [a \in Acts |-> FALSE]
    /\ up = [a \in Acts |-> FALSE]

-----------------------------------------------------------------------------
\* The activation that device d is busy with.
LiveOn(d) == {a \in Acts : state[a] \in Live /\ link[a].dev = d}

\* The activations of S end.
End(S) ==
    /\ state' = [a \in Acts |-> IF a \in S THEN "deactivated" ELSE state[a]]
    /\ UNCHANGED <<link, apKnown, up>>

\* Activation a, of profile p on device d, replaces the one the device has.
Begin(a, d, s, p) ==
    LET old == LiveOn(d) IN
    /\ link[a] = None
    /\ link' = [link EXCEPT ![a] = [dev |-> d, ssid |-> s, prof |-> p]]
    /\ state' = [[b \in Acts |-> IF b \in old THEN "deactivated" ELSE state[b]]
                     EXCEPT ![a] = "activating"]
    /\ UNCHANGED <<apKnown, up>>

\* AddAndActivateConnection: the profile is saved, and stays if it fails.
AddAndActivate(c, d, s) ==
    /\ saved' = [saved EXCEPT ![c] = s]
    /\ Begin(c, d, s, c)

\* ActivateConnection.
Activate(c, d, p) ==
    /\ saved[p] # None
    /\ Begin(c, d, saved[p], p)
    /\ UNCHANGED saved

\* DeactivateConnection.
Deactivate(a) ==
    /\ state[a] \in Live
    /\ End({a})
    /\ UNCHANGED saved

\* Settings.Connection.Delete: activations of the profile end with it.
Delete(p) ==
    /\ saved[p] # None
    /\ saved' = [saved EXCEPT ![p] = None]
    /\ End({a \in Acts : state[a] \in Live /\ link[a].prof = p})

-----------------------------------------------------------------------------
(* What happens by itself.                                                 *)

\* The access point is chosen while the activation goes on.
FindsAp(a) ==
    /\ state[a] = "activating" /\ ~apKnown[a]
    /\ apKnown' = [apKnown EXCEPT ![a] = TRUE]
    /\ UNCHANGED <<saved, link, state, up>>

Succeeds(a) ==
    /\ state[a] = "activating" /\ apKnown[a]
    /\ state' = [state EXCEPT ![a] = "activated"]
    /\ up' = [up EXCEPT ![a] = TRUE]
    /\ UNCHANGED <<saved, link, apKnown>>

\* Wrong key, a timeout of the daemon, out of range, another client.
Fails(a) ==
    /\ state[a] \in Live
    /\ End({a})
    /\ UNCHANGED saved

\* The object of a finished activation leaves the bus.
Vanishes(a) ==
    /\ state[a] = "deactivated"
    /\ state' = [state EXCEPT ![a] = "gone"]
    /\ UNCHANGED <<saved, link, apKnown, up>>

\* The daemon, or a person, activates a saved profile.
ActivatesByItself(a) ==
    \E d \in Devices, p \in Profiles : a \in Autos /\ Activate(a, d, p)
=============================================================================
