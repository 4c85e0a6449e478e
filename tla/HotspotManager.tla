--------------------------- MODULE HotspotManager ----------------------------
(***************************************************************************)
(* Apple's NEHotspotConfigurationManager, external, as far as platform/ios *)
(* uses it: the configurations this app installed, the applies it asked    *)
(* for and the queries for what is configured.  An apply asks the user, so *)
(* it may take any time or never be answered; it is installed before its   *)
(* completion block runs.  It cannot be withdrawn.                         *)
(***************************************************************************)
CONSTANTS
    Calls,
    Ssids,
    Before,     \* the installer of a configuration older than the calls
    None

VARIABLES
    installed,  \* per SSID, the call whose apply installed it, Before, or None
    apply,      \* per call, its applyConfiguration: none, asked, installed
    asking,     \* calls whose getConfiguredSSIDs is not answered
    foreground  \* the app is the active one

managerVars == <<installed, apply, asking, foreground>>

ManagerTypeOK ==
    /\ installed \in [Ssids -> Calls \cup {Before, None}]
    /\ apply \in [Calls -> {"none", "asked", "installed"}]
    /\ asking \in SUBSET Calls
    /\ foreground \in BOOLEAN

ManagerInit ==
    /\ installed \in [Ssids -> {Before, None}]
    /\ apply = [c \in Calls |-> "none"]
    /\ asking = {}
    /\ foreground \in BOOLEAN

Configured == {s \in Ssids : installed[s] # None}

\* applyConfiguration:completionHandler: returns at once.
Apply(c) == apply' = [apply EXCEPT ![c] = "asked"]

\* removeConfigurationForSSID: is synchronous and idempotent.
Remove(s) == installed' = [installed EXCEPT ![s] = None]

\* The user agrees: the configuration is there, the join goes on.
Installs(c, s) ==
    /\ apply[c] = "asked"
    /\ apply' = [apply EXCEPT ![c] = "installed"]
    /\ installed' = [installed EXCEPT ![s] = c]
    /\ UNCHANGED <<asking, foreground>>

\* What the completion block of an apply may say: nil once it is installed,
\* an error before or after, and that it needs the foreground.
ApplyAnswers(c) ==
    (IF apply[c] = "installed" THEN {"nil"} ELSE {})
    \cup (IF foreground THEN {} ELSE {"applicationIsNotInForeground"})
    \cup {"invalidPassphrase", "userDenied", "alreadyAssociated",
          "systemDenied", "internal"}

\* The user forgets a network, or moves the app to or from the background.
UserForgets(s) ==
    /\ installed[s] # None
    /\ Remove(s)
    /\ UNCHANGED <<apply, asking, foreground>>

SwitchApp ==
    /\ foreground' = ~foreground
    /\ UNCHANGED <<installed, apply, asking>>
=============================================================================
