----------------------------- MODULE WlanService -----------------------------
(***************************************************************************)
(* The Windows Native Wi-Fi service, as the crate uses it.  Nothing here   *)
(* is code of the repository: each operator is one Wlan* entry point that  *)
(* src/src/platform/windows calls, or one thing the service does by itself *)
(* that the crate observes through ACM notifications.                      *)
(*                                                                         *)
(* A connection attempt carries the call that issued WlanConnect.  The     *)
(* real service knows no such identity (a notification names only the      *)
(* interface); it is history, used to say whose attempt an outcome is.     *)
(***************************************************************************)
EXTENDS Naturals, FiniteSets

CONSTANTS
    Calls,      \* calls on the public API; each runs one operation
    Ifaces,     \* WLAN interfaces (GUIDs)
    Ssids,      \* network names, as bytes
    Names,      \* profile names, which are text
    ProfileName,\* the profile name the crate derives from an SSID
    Reasons,    \* the WLAN_REASON_CODE values the service reports
    MaxScans,   \* bound on the pre-flight scans of one call
    MaxReports, \* bound on the ATTEMPT_FAILs of one attempt not yet delivered
    MaxPending, \* bound on the scans whose SCAN_* is not yet delivered
    None        \* absence of a call, an SSID, a message

ASSUME NoneAssumption ==
    /\ None \notin Calls
    /\ None \notin Ssids
\* Not injective: every byte that is not UTF-8 becomes the same character.
ASSUME ProfileNameAssumption == ProfileName \in [Ssids -> Names]
ASSUME ReasonsAssumption == "SUCCESS" \in Reasons
ASSUME MaxScansAssumption == MaxScans \in Nat \ {0}
ASSUME MaxReportsAssumption == MaxReports \in Nat \ {0}
ASSUME MaxPendingAssumption == MaxPending \in Nat \ {0}

VARIABLES
    assoc,      \* per interface, the SSID it is associated with, or None
    attempt,    \* per interface, the call whose attempt is in progress, or None
    profiles,   \* per interface, the names of the installed profiles
    connNotes,  \* CONNECTION_* notifications not yet delivered
    scanning    \* accepted WlanScans whose SCAN_* is not yet delivered

svcVars == <<assoc, attempt, profiles, connNotes, scanning>>

ScanIds == [call : Calls, n : 0..MaxScans]

ASSUME NoneIsNoScan == None \notin ScanIds

\* The notifications of one WlanConnect: any number of ATTEMPT_FAIL while the
\* service goes on trying, then one COMPLETE.  Either carries a reason code;
\* only a COMPLETE with code 0 ("SUCCESS") means that the interface is connected.
ConnCodes == {"COMPLETE", "ATTEMPT_FAIL"}
ConnNotes == [iface : Ifaces, call : Calls, code : ConnCodes, reason : Reasons]
ScanNotes == [iface : Ifaces, id : ScanIds]

ServiceTypeOK ==
    /\ assoc \in [Ifaces -> Ssids \cup {None}]
    /\ attempt \in [Ifaces -> Calls \cup {None}]
    /\ profiles \in [Ifaces -> SUBSET Names]
    /\ connNotes \subseteq ConnNotes
    /\ scanning \subseteq ScanNotes

ServiceInit ==
    /\ assoc \in [Ifaces -> Ssids \cup {None}]
    /\ attempt = [i \in Ifaces |-> None]
    /\ profiles \in [Ifaces -> SUBSET Names]
    /\ connNotes = {}
    /\ scanning = {}

-----------------------------------------------------------------------------
(* Entry points the crate calls from its blocking threads.                 *)

Report(i, code, r) ==
    connNotes' = connNotes \cup
        {[iface |-> i, call |-> attempt[i], code |-> code, reason |-> r]}

\* An attempt cut short by another request completes with a failure.
Abort(i) ==
    IF attempt[i] = None
    THEN UNCHANGED connNotes
    ELSE \E r \in Reasons \ {"SUCCESS"} : Report(i, "COMPLETE", r)

WlanConnect(i, c) ==
    /\ Abort(i)
    /\ assoc' = [assoc EXCEPT ![i] = None]
    /\ attempt' = [attempt EXCEPT ![i] = c]
    /\ UNCHANGED <<profiles, scanning>>

WlanDisconnect(i) ==
    /\ Abort(i)
    /\ assoc' = [assoc EXCEPT ![i] = None]
    /\ attempt' = [attempt EXCEPT ![i] = None]
    /\ UNCHANGED <<profiles, scanning>>

WlanSetProfile(i, name) ==
    /\ profiles' = [profiles EXCEPT ![i] = @ \cup {name}]
    /\ UNCHANGED <<assoc, attempt, connNotes, scanning>>

WlanDeleteProfile(i, name) ==
    /\ name \in profiles[i]
    /\ profiles' = [profiles EXCEPT ![i] = @ \ {name}]
    /\ UNCHANGED <<assoc, attempt, connNotes, scanning>>

WlanScan(i, id) ==
    /\ Cardinality(scanning) < MaxPending
    /\ scanning' = scanning \cup {[iface |-> i, id |-> id]}
    /\ UNCHANGED <<assoc, attempt, profiles, connNotes>>

-----------------------------------------------------------------------------
(* What the service and the radio do by themselves.                        *)

\* The service tells of a failure and goes on with the attempt.
AttemptFails(i) ==
    /\ attempt[i] # None
    /\ Cardinality({m \in connNotes : m.call = attempt[i]}) < MaxReports
    /\ \E r \in Reasons : Report(i, "ATTEMPT_FAIL", r)
    /\ UNCHANGED <<assoc, attempt, profiles, scanning>>

\* The attempt in progress ends: associated with a network whose profile has
\* this name, or with none.
AttemptEnds(i, name) ==
    /\ attempt[i] # None
    /\ \/ /\ Report(i, "COMPLETE", "SUCCESS")
          /\ \E s \in Ssids : /\ ProfileName[s] = name
                              /\ assoc' = [assoc EXCEPT ![i] = s]
       \/ /\ \E r \in Reasons \ {"SUCCESS"} : Report(i, "COMPLETE", r)
          /\ assoc' = [assoc EXCEPT ![i] = None]
    /\ attempt' = [attempt EXCEPT ![i] = None]
    /\ UNCHANGED <<profiles, scanning>>

\* The link goes down (out of range, radio off).
LinkLost(i) ==
    /\ assoc[i] # None
    /\ assoc' = [assoc EXCEPT ![i] = None]
    /\ UNCHANGED <<attempt, profiles, connNotes, scanning>>
=============================================================================
