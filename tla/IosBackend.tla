----------------------------- MODULE IosBackend ------------------------------
(***************************************************************************)
(* platform/ios: concurrent calls on one IosBackend.  A call asks the      *)
(* configuration manager and awaits, under a timeout, the oneshot its      *)
(* completion block sends to; the block goes on when the future is gone,   *)
(* and what it sends is then discarded.  Hops to the main queue are part   *)
(* of the step that makes them: the main queue is taken to be served.      *)
(* Time is abstract: a timeout may fire whenever nothing was received.     *)
(***************************************************************************)
EXTENDS HotspotManager

CONSTANTS
    Raw         \* SSIDs that are not UTF-8

ASSUME RawAssumption == Raw \subseteq Ssids
ASSUME NamesAssumption == Before # None /\ {Before, None} \cap Calls = {}

VARIABLES
    req,        \* per call, what it asks for
    pc,         \* per call, the await its future is suspended at
    holder,     \* op_lock: the call that holds it
    result,     \* per call, what it returned, or how it ended
    rx,         \* per call, what its oneshot received
    configured  \* per call, the SSIDs its query was answered with

callVars == <<req, pc, holder, result>>
rxVars == <<rx, configured>>
vars == <<managerVars, callVars, rxVars>>

Kinds == {"connect", "stored", "disconnect", "remove", "list", "adapters"}
ApplyErrors == {"AuthenticationFailed", "UserCancelled", "Unsupported",
                "PermissionDenied", "Os"}
Results == ApplyErrors \cup
    {"Ok", "True", "False", "Timeout", "NoStoredCredentials",
     "AdapterNotFound", "Cancelled"}
Received == {"none", "nil", "ssids", "RecvError", "invalidPassphrase",
             "userDenied", "alreadyAssociated", "systemDenied", "internal",
             "applicationIsNotInForeground"}

\* Every variable has the type of its Rust or NetworkExtension counterpart.
TypeOK ==
    /\ ManagerTypeOK
    /\ req \in [Calls -> [kind : Kinds, ssid : Ssids]]
    /\ pc \in [Calls -> {"idle", "locking", "probe", "apply", "done"}]
    /\ holder \in Calls \cup {None}
    /\ result \in [Calls -> Results \cup {"none"}]
    /\ rx \in [Calls -> Received]
    /\ configured \in [Calls -> SUBSET Ssids]

Init ==
    /\ ManagerInit
    /\ \A s \in Raw : installed[s] = None
    /\ req \in [Calls -> [kind : Kinds, ssid : Ssids]]
    /\ pc = [c \in Calls |-> "idle"]
    /\ holder = None
    /\ result = [c \in Calls |-> "none"]
    /\ rx = [c \in Calls |-> "none"]
    /\ configured = [c \in Calls |-> {}]

Ssid(c) == req[c].ssid

-----------------------------------------------------------------------------
(* Steps of a future.                                                      *)

\* The receiver of a new oneshot, or none.
FreshReceiver(c) ==
    /\ rx' = [rx EXCEPT ![c] = "none"]
    /\ configured' = [configured EXCEPT ![c] = {}]

\* The future ends: its receiver and the lock guard are dropped.
Return(c, r) ==
    /\ pc' = [pc EXCEPT ![c] = "done"]
    /\ result' = [result EXCEPT ![c] = r]
    /\ holder' = IF holder = c THEN None ELSE holder
    /\ FreshReceiver(c)
    /\ UNCHANGED req

\* The future, which holds the lock, awaits a completion block.
Await(c, p) ==
    /\ pc' = [pc EXCEPT ![c] = p]
    /\ holder' = c
    /\ FreshReceiver(c)
    /\ UNCHANGED <<req, result>>

\* ensure_foreground.
ensure_foreground == foreground

\* The caller polls the future: only en0 exists, a list is not supported, and
\* a connect needs the foreground, looked at before it waits for the lock.
Start(c) ==
    /\ pc[c] = "idle"
    /\ \/ req[c].kind # "adapters" /\ Return(c, "AdapterNotFound")
       \/ req[c].kind = "list" /\ Return(c, "Unsupported")
       \/ req[c].kind \in {"connect", "stored"} /\ ~ensure_foreground
              /\ Return(c, "Unsupported")
       \/ /\ req[c].kind # "list"
          /\ req[c].kind \in {"connect", "stored"} => ensure_foreground
          /\ pc' = [pc EXCEPT ![c] = "locking"]
          /\ UNCHANGED <<req, holder, result, rxVars>>
    /\ UNCHANGED managerVars

\* MUTANT: the call does not take op_lock.
LockIgnored == TRUE

LockFree == holder = None

\* connect, once it holds the lock: apply_configuration_kickoff.
StartApply(c) ==
    /\ pc[c] = "locking" /\ req[c].kind = "connect" /\ LockFree
    /\ IF Ssid(c) \in Raw
       THEN Return(c, "Unsupported") /\ UNCHANGED apply
       ELSE Await(c, "apply") /\ Apply(c)
    /\ UNCHANGED <<installed, asking, foreground>>

\* stored connects and remove_profile: get_configured_ssids_kickoff.
StartProbe(c) ==
    /\ pc[c] = "locking" /\ req[c].kind \in {"stored", "remove"} /\ LockFree
    /\ Await(c, "probe")
    /\ asking' = asking \cup {c}
    /\ UNCHANGED <<installed, apply, foreground>>

\* disconnect: remove_configuration_for_ssid, and nothing to wait for.
Disconnect(c) ==
    /\ pc[c] = "locking" /\ req[c].kind = "disconnect" /\ LockFree
    /\ IF Ssid(c) \in Raw
       THEN Return(c, "Unsupported") /\ UNCHANGED installed
       ELSE Return(c, "Ok") /\ Remove(Ssid(c))
    /\ UNCHANGED <<apply, asking, foreground>>

\* list_adapters takes the lock and returns the constant list.
ListAdapters(c) ==
    /\ pc[c] = "locking" /\ req[c].kind = "adapters" /\ LockFree
    /\ Return(c, "Ok")
    /\ UNCHANGED managerVars

\* The query is answered.  The encoding of the SSID is looked at only now.
ProbeReturns(c) ==
    /\ pc[c] = "probe" /\ rx[c] # "none"
    /\ \/ rx[c] = "RecvError" /\ Return(c, "Os") /\ UNCHANGED <<installed, apply>>
       \/ rx[c] = "ssids" /\ Ssid(c) \in Raw
              /\ Return(c, "Unsupported") /\ UNCHANGED <<installed, apply>>
       \/ /\ rx[c] = "ssids" /\ Ssid(c) \notin Raw /\ req[c].kind = "stored"
          /\ IF Ssid(c) \in configured[c]
             THEN Await(c, "apply") /\ Apply(c)
             ELSE Return(c, "NoStoredCredentials") /\ UNCHANGED apply
          /\ UNCHANGED installed
       \/ /\ rx[c] = "ssids" /\ Ssid(c) \notin Raw /\ req[c].kind = "remove"
          /\ Return(c, IF Ssid(c) \in configured[c] THEN "True" ELSE "False")
          /\ Remove(Ssid(c))
          /\ UNCHANGED apply
    /\ UNCHANGED <<asking, foreground>>

\* MUTANT: the query is awaited without PROBE_TIMEOUT.
ProbeWaits(c) ==
    /\ pc[c] = "probe" /\ rx[c] = "RecvError"
    /\ Return(c, "Timeout")
    /\ UNCHANGED managerVars

\* PROBE_TIMEOUT passes.
ProbeTimesOut(c) ==
    /\ pc[c] = "probe" /\ rx[c] = "none"
    /\ Return(c, "Timeout")
    /\ UNCHANGED managerVars

\* MUTANT: an error of the system that has no variant reaches the caller raw.
RawError(answer) ==
    CASE answer \in {"nil", "alreadyAssociated"} -> "Ok"
      [] answer = "invalidPassphrase" -> "AuthenticationFailed"
      [] answer = "userDenied" -> "UserCancelled"
      [] answer = "applicationIsNotInForeground" -> "Unsupported"
      [] answer = "systemDenied" -> "PermissionDenied"
      [] OTHER -> answer

\* map_apply_received and map_ne_error: being associated already is no error.
map_apply_received(answer) ==
    CASE answer \in {"nil", "alreadyAssociated"} -> "Ok"
      [] answer = "invalidPassphrase" -> "AuthenticationFailed"
      [] answer = "userDenied" -> "UserCancelled"
      [] answer = "applicationIsNotInForeground" -> "Unsupported"
      [] answer = "systemDenied" -> "PermissionDenied"
      [] answer \in {"internal", "RecvError"} -> "Os"

\* MUTANT: whatever fails is cleaned up after.
CleanUpOnError(c) ==
    /\ pc[c] = "apply" /\ rx[c] # "none"
    /\ Return(c, map_apply_received(rx[c]))
    /\ installed' = IF map_apply_received(rx[c]) = "Ok" THEN installed
                    ELSE [installed EXCEPT ![Ssid(c)] = None]
    /\ UNCHANGED <<apply, asking, foreground>>

\* The completion block of the apply has run.
ApplyReturns(c) ==
    /\ pc[c] = "apply" /\ rx[c] # "none"
    /\ Return(c, map_apply_received(rx[c]))
    /\ UNCHANGED managerVars

\* The timeout passes: the configuration is removed, whoever installed it;
\* the apply cannot be withdrawn.
ApplyTimesOut(c) ==
    /\ pc[c] = "apply" /\ rx[c] = "none"
    /\ Return(c, "Timeout")
    /\ Remove(Ssid(c))
    /\ UNCHANGED <<apply, asking, foreground>>

\* The caller drops the future at an await; what it asked for goes on.
Cancel(c) ==
    /\ pc[c] \in {"locking", "probe", "apply"}
    /\ Return(c, "Cancelled")
    /\ UNCHANGED managerVars

-----------------------------------------------------------------------------
(* Completion blocks, on the main queue.                                   *)

\* The block sends to its oneshot, or is dropped unrun; without a receiver
\* what it sends is discarded.
Sends(c, waiting, message) ==
    rx' = [rx EXCEPT ![c] = IF pc[c] = waiting THEN message ELSE rx[c]]

InstallConfiguration(c) ==
    Installs(c, Ssid(c)) /\ UNCHANGED <<callVars, rxVars>>

ApplyCompletes(c) ==
    /\ apply[c] # "none"
    /\ \E answer \in ApplyAnswers(c) \cup {"RecvError"} : Sends(c, "apply", answer)
    /\ apply' = [apply EXCEPT ![c] = "none"]
    /\ UNCHANGED <<installed, asking, foreground, callVars, configured>>

QueryCompletes(c) ==
    /\ c \in asking
    /\ asking' = asking \ {c}
    /\ \/ /\ Sends(c, "probe", "ssids")
          /\ configured' = [configured EXCEPT ![c] =
                 IF pc[c] = "probe" THEN Configured ELSE {}]
       \/ Sends(c, "probe", "RecvError") /\ UNCHANGED configured
    /\ UNCHANGED <<installed, apply, foreground, callVars>>

-----------------------------------------------------------------------------
\* The steps of the futures the runtime owes them, timers included.
Task(c) ==
    \/ StartApply(c) \/ StartProbe(c) \/ Disconnect(c) \/ ListAdapters(c)
    \/ ProbeReturns(c) \/ ProbeTimesOut(c) \/ ApplyReturns(c) \/ ApplyTimesOut(c)

Block(c) == InstallConfiguration(c) \/ ApplyCompletes(c) \/ QueryCompletes(c)

User ==
    /\ SwitchApp \/ \E s \in Ssids : UserForgets(s)
    /\ UNCHANGED <<callVars, rxVars>>

Next ==
    \/ \E c \in Calls : Start(c) \/ Cancel(c) \/ Task(c) \/ Block(c)
    \/ User

Spec == Init /\ [][Next]_vars

\* The runtime polls woken futures and fires due timers.  Nothing is assumed of
\* the completion blocks: they may never run.
FairSpec == Spec /\ \A c \in Calls : WF_vars(Task(c))

-----------------------------------------------------------------------------
(* Correctness.                                                            *)

\* Futures that ended while their apply or its configuration outlives them.
Orphan(c) == pc[c] = "done"

\* remove_profile says False only when it removed nothing (mod.rs, "`Ok(true)`
\* if a profile existed before the call and `Ok(false)` otherwise"), but for a
\* configuration the late apply of an ended call installed after the query.
FalseRemovesNothing ==
    [][\A c \in Calls :
          pc[c] = "probe" /\ result'[c] = "False" /\ installed[Ssid(c)] # None =>
              installed[Ssid(c)] # Before /\ Orphan(installed[Ssid(c)])]_vars

\* A configuration goes by the user's hand or in the step in which a
\* disconnect, a remove_profile or a connect that timed out returns: no
\* failed, cancelled or queued call takes one away.
RemovalIsAnswered ==
    [][\A s \in Ssids : installed[s] # None /\ installed'[s] = None /\ ~User =>
          \E c \in Calls :
              /\ Ssid(c) = s /\ pc[c] # "done"
              /\ \/ req[c].kind = "disconnect" /\ result'[c] = "Ok"
                 \/ req[c].kind = "remove" /\ result'[c] \in {"True", "False"}
                 \/ pc[c] = "apply" /\ result'[c] = "Timeout"]_vars

\* While a connect waits, nobody but the user and the applies of ended calls
\* touches the configuration it installed (mod.rs, "so concurrent connect /
\* disconnect calls don't trample each other").
NobodyTramples ==
    [][\A c \in Calls :
          (pc[c] = "apply" /\ pc'[c] = "apply"
           /\ installed[Ssid(c)] = c /\ installed'[Ssid(c)] # c) =>
              \/ User
              \/ installed'[Ssid(c)] \in Calls /\ Orphan(installed'[Ssid(c)])]_vars

\* A call that waits for the lock or for the system returns, even when no
\* completion block ever runs: every wait has a timeout, and the lock is not
\* kept by a call that ended (mod.rs, PROBE_TIMEOUT).
CallsReturn ==
    \A c \in Calls : pc[c] \in {"locking", "probe", "apply"} ~> pc[c] = "done"

Status(c) ==
    CASE pc[c] = "done" -> "done"
      [] pc[c] = "locking" -> "queued"
      [] pc[c] \in {"probe", "apply"} -> "inside"
      [] OTHER -> "idle"

Locks == INSTANCE AdapterLocks
         WITH Adapters <- {"en0"},
              on <- [c \in Calls |-> "en0"],
              status <- [c \in Calls |-> Status(c)]

\* The backend implements AdapterLocks.
CallsAreSerialized == Locks!Spec
=============================================================================
