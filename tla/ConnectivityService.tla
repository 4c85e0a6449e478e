------------------------- MODULE ConnectivityService -------------------------
(***************************************************************************)
(* Android's ConnectivityManager and WifiManager, external, as far as      *)
(* wifi_specifier.rs and scan_receiver.rs use them.  A network a call asks *)
(* for exists only while the framework holds that call's request; other    *)
(* Wi-Fi networks come and go by themselves.  A handle is never used       *)
(* twice.  The process is bound to at most one network, whoever binds it.  *)
(***************************************************************************)
CONSTANTS
    Calls,      \* calls; the network requested by a call has its identity
    Others,     \* Wi-Fi networks this process did not ask for
    None

Networks == Calls \cup Others

\* android.net.wifi.SCAN_RESULTS is WifiManager.SCAN_RESULTS_AVAILABLE_ACTION,
\* what the system broadcasts; the other one it does not know.
Actions == {"SCAN_RESULTS", "SCAN_RESULTS_AVAILABLE"}

VARIABLES
    nets,       \* per network: absent, up, ip (it has an IPv4 address), gone
    registered, \* calls whose NetworkCallback is registered
    binding,    \* the network bindProcessToNetwork bound the process to
    scanning,   \* calls whose startScan has not been answered by a broadcast
    receivers,  \* per call, the action its BroadcastReceiver is registered for
    news        \* calls whose receiver got a broadcast

osVars == <<nets, registered, binding, scanning, receivers, news>>
linkVars == <<nets, registered, binding>>
scanVars == <<scanning, receivers, news>>

ServiceTypeOK ==
    /\ nets \in [Networks -> {"absent", "up", "ip", "gone"}]
    /\ registered \in SUBSET Calls
    /\ binding \in Networks \cup {None}
    /\ scanning \in SUBSET Calls
    /\ receivers \in [Calls -> Actions \cup {"none"}]
    /\ news \in SUBSET Calls

ServiceInit ==
    /\ nets \in {f \in [Networks -> {"absent", "ip"}] :
                    \A c \in Calls : f[c] = "absent"}
    /\ registered = {}
    /\ binding = None
    /\ scanning = {}
    /\ receivers = [c \in Calls |-> "none"]
    /\ news = {}

Live == {n \in Networks : nets[n] \in {"up", "ip"}}

\* requestNetwork: the request is held until its callback is unregistered.
RequestNetwork(c) == registered' = registered \cup {c}

\* unregisterNetworkCallback: the framework disconnects the access point.
UnregisterCallback(c) ==
    /\ registered' = registered \ {c}
    /\ nets' = IF c \in Live THEN [nets EXCEPT ![c] = "gone"] ELSE nets

\* The user approves a request and the access point comes up, or the system
\* joins another Wi-Fi network.
Appears(n) ==
    /\ nets[n] = "absent"
    /\ n \in Calls => n \in registered
    /\ nets' = [nets EXCEPT ![n] = "up"]
    /\ UNCHANGED <<registered, binding, scanVars>>

\* DHCP completes.
GetsAddress(n) ==
    /\ nets[n] = "up"
    /\ nets' = [nets EXCEPT ![n] = "ip"]
    /\ UNCHANGED <<registered, binding, scanVars>>

\* The network is lost.  A process bound to it stays bound to it.
Vanishes(n) ==
    /\ n \in Live
    /\ nets' = [nets EXCEPT ![n] = "gone"]
    /\ UNCHANGED <<registered, binding, scanVars>>

\* A scan ends, fresh or throttled: the receivers registered for the action
\* that is broadcast are told.
ScanEnds ==
    /\ scanning # {}
    /\ scanning' = {}
    /\ news' = news \cup {c \in Calls : receivers[c] = "SCAN_RESULTS"}
    /\ UNCHANGED <<linkVars, receivers>>

Environment ==
    \/ \E n \in Networks : Appears(n) \/ GetsAddress(n) \/ Vanishes(n)
    \/ ScanEnds
=============================================================================
