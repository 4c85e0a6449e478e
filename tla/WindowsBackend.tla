--------------------------- MODULE WindowsBackend ----------------------------
(***************************************************************************)
(* platform/windows: concurrent calls on one WindowsBackend.  A call is an *)
(* async task: it takes the adapter lock, then alternates between closures *)
(* handed to spawn_blocking (its job) and oneshot receivers guarded by a   *)
(* timer.  Its caller may drop the future at any await (Cancel); a closure *)
(* already handed to the blocking pool then still runs, with nobody        *)
(* awaiting it (RunDetached).                                              *)
(*                                                                         *)
(* Time is abstract: a timer may fire whenever its receiver is empty.      *)
(* Everything a task does between two awaits is part of the action that    *)
(* wakes it; the closure of a job and the wake-up are one action, because  *)
(* nothing the task does in between is visible to anyone.                  *)
(***************************************************************************)
EXTENDS Dispatcher

CONSTANTS
    Kinds,      \* the operations the calls may be
    OsMayFail   \* whether a Wlan* function may fail for no reason of ours

AllKinds == {"connect", "stored", "disconnect", "remove", "list", "list_cached"}

ASSUME KindsAssumption == Kinds \subseteq AllKinds /\ OsMayFail \in BOOLEAN

VARIABLES
    req,        \* per call, what it asks for
    pc,         \* per call, where its future is suspended
    job,        \* per call, the closure it has in the blocking pool
    scans,      \* per call, the pre-flight scans it has begun
    holder,     \* adapter_locks: per interface, the call that holds the lock
    result      \* per call, what it returned, or how it ended

taskVars == <<req, pc, job, scans, holder, result>>
vars == <<svcVars, regVars, taskVars>>

Requests == [kind : Kinds, iface : Ifaces, ssid : Ssids]

\* Closures handed to spawn_blocking.  A disconnect is one closure of two
\* service calls, "query" then "disconnect".
Jobs == {"scan", "collect", "context", "install", "exists", "connect",
         "abort", "query", "disconnect", "delete"}

Errors == {"AuthenticationFailed", "SsidNotInRange", "UserCancelled", "Os",
           "Timeout", "NoStoredCredentials", "AdapterNotFound"}
Results == {"Ok", "True", "False", "Cancelled"} \cup Errors

Places == {"idle", "locking", "job", "scan_wait", "conn_wait", "done"}

TaskTypeOK ==
    /\ req \in [Calls -> Requests]
    /\ pc \in [Calls -> Places]
    /\ job \in [Calls -> Jobs \cup {"none"}]
    /\ scans \in [Calls -> 0..MaxScans]
    /\ holder \in [Ifaces -> Calls \cup {None}]
    /\ result \in [Calls -> Results \cup {"none"}]

\* Every variable has the type its Rust counterpart gives it (mod.rs,
\* notifications.rs and the futures of connect.rs, scan.rs, disconnect.rs).
TypeOK == ServiceTypeOK /\ DispatcherTypeOK /\ TaskTypeOK

Init ==
    /\ ServiceInit
    /\ DispatcherInit
    /\ req \in [Calls -> Requests]
    /\ pc = [c \in Calls |-> "idle"]
    /\ job = [c \in Calls |-> "none"]
    /\ scans = [c \in Calls |-> 0]
    /\ holder = [i \in Ifaces |-> None]
    /\ result = [c \in Calls |-> "none"]

-----------------------------------------------------------------------------
Iface(c) == req[c].iface
ScanId(c) == [call |-> c, n |-> scans[c]]

\* The future is suspended on the join handle of closure j.
Awaits(c, j) == pc[c] = "job" /\ job[c] = j

\* Calls whose oneshot receivers still exist.
ConnAlive == {c \in Calls : Awaits(c, "connect") \/ pc[c] = "conn_wait"}
ScanAlive == {c \in Calls : Awaits(c, "scan") \/ pc[c] = "scan_wait"}

\* PendingConnectGuard exists from pending_connect to the end of the call.
Guarded(c) == c \in ConnAlive \/ Awaits(c, "abort")

\* MUTANT: no guard; only an outcome removes the registration.
NoGuard(c) == UNCHANGED regVars

\* MUTANT: the guard is built before the call is known to have registered.
GuardTooEarly(c) == drop_pending_connect(Iface(c))

\* The guard's Drop, when the guard exists.
DropGuard(c) ==
    IF Guarded(c) THEN drop_pending_connect(Iface(c)) ELSE UNCHANGED regVars

\* The end of a call: the lock guard is the last thing it drops.
End(c, r) ==
    /\ pc' = [pc EXCEPT ![c] = "done"]
    /\ result' = [result EXCEPT ![c] = r]
    /\ holder' = IF holder[Iface(c)] = c
                 THEN [holder EXCEPT ![Iface(c)] = None] ELSE holder
    /\ UNCHANGED <<req, scans>>

\* A task that runs and returns r; its job, if any, has been joined.
Return(c, r) ==
    /\ End(c, r)
    /\ job' = [job EXCEPT ![c] = "none"]

\* The task hands closure j to the blocking pool and awaits it.
Spawn(c, j) ==
    /\ pc' = [pc EXCEPT ![c] = "job"]
    /\ job' = [job EXCEPT ![c] = j]
    /\ UNCHANGED <<req, scans, holder, result>>

\* The task, its job joined, waits at place p.
WaitAt(c, p) ==
    /\ pc' = [pc EXCEPT ![c] = p]
    /\ job' = [job EXCEPT ![c] = "none"]
    /\ UNCHANGED <<req, scans, holder, result>>

\* The registration that every scan makes before it issues WlanScan.
BeginScan(c) ==
    /\ scans' = [scans EXCEPT ![c] = @ + 1]
    /\ pending_scan([call |-> c, n |-> scans[c] + 1], Iface(c))
    /\ pc' = [pc EXCEPT ![c] = "job"]
    /\ job' = [job EXCEPT ![c] = "scan"]
    /\ UNCHANGED <<req, holder, result>>

\* profile_name_from_ssid, and what mod.rs does for a removal.
Profile(c) == ProfileName[req[c].ssid]

\* pending_connect, its guard, and the spawn of issue_connect.
BeginConnect(c) ==
    /\ pending_connect(c, Iface(c))
    /\ Spawn(c, "connect")

\* map_reason_code.
map_reason_code(r) ==
    CASE r = "SUCCESS" -> "Ok"
      [] r \in {"PSK_MISMATCH_SUSPECTED", "KEY_MISMATCH", "SECURITY_FAILURE"}
            -> "AuthenticationFailed"
      [] r \in {"NETWORK_NOT_AVAILABLE", "NOT_VISIBLE",
                "PROFILE_CHANGED_OR_DELETED"} -> "SsidNotInRange"
      [] r = "USER_CANCELLED" -> "UserCancelled"
      [] OTHER -> "Os"

\* ConnectOutcome::into_result.
into_result(m) ==
    IF m.outcome = "Connected" THEN "Ok" ELSE map_reason_code(m.reason)

-----------------------------------------------------------------------------
(* Calls begin and end.                                                    *)

\* The caller polls the future for the first time; an adapter id that is not
\* a GUID ends the call before it reaches the lock.
Start(c) ==
    /\ pc[c] = "idle"
    /\ \/ pc' = [pc EXCEPT ![c] = "locking"] /\ UNCHANGED result
       \/ /\ pc' = [pc EXCEPT ![c] = "done"]
          /\ result' = [result EXCEPT ![c] = "AdapterNotFound"]
    /\ UNCHANGED <<svcVars, regVars, req, job, scans, holder>>

\* MUTANT: the call does not take the adapter lock.
LockIgnored(c) == TRUE

\* The tokio mutex that adapter_lock finds for the interface is free.
LockFree(c) == holder[Iface(c)] = None

\* lock.lock().await returns, and the task runs to its next await.  A connect
\* with a zero timeout gives up before it scans.
AcquireLock(c) ==
    LET i == Iface(c) IN
    /\ pc[c] = "locking"
    /\ LockFree(c)
    /\ UNCHANGED svcVars
    /\ \/ /\ req[c].kind = "connect"
          /\ pc' = [pc EXCEPT ![c] = "done"]
          /\ result' = [result EXCEPT ![c] = "SsidNotInRange"]
          /\ UNCHANGED <<regVars, req, job, scans, holder>>
       \/ /\ holder' = [holder EXCEPT ![i] = c]
          /\ pc' = [pc EXCEPT ![c] = "job"]
          /\ UNCHANGED <<req, result>>
          /\ IF req[c].kind \in {"connect", "list"}
             THEN /\ scans' = [scans EXCEPT ![c] = 1]
                  /\ pending_scan([call |-> c, n |-> 1], i)
                  /\ job' = [job EXCEPT ![c] = "scan"]
             ELSE /\ UNCHANGED <<regVars, scans>>
                  /\ job' = [job EXCEPT ![c] =
                         CASE req[c].kind = "stored" -> "exists"
                           [] req[c].kind = "disconnect" -> "query"
                           [] req[c].kind = "remove" -> "delete"
                           [] req[c].kind = "list_cached" -> "collect"]

\* The caller drops the future at an await.  The connect guard is dropped,
\* then the lock; a scan registration has no guard and stays.
Cancel(c) ==
    /\ pc[c] \in {"locking", "job", "scan_wait", "conn_wait"}
    /\ DropGuard(c)
    /\ End(c, "Cancelled")
    /\ UNCHANGED <<svcVars, job>>

-----------------------------------------------------------------------------
(* Scanning: WindowsScanner::scan inside the pre-flight of a connect, and  *)
(* fetch_bsses with force_rescan.                                          *)

\* WlanScan is issued.  Its failure drops the registration; the pre-flight
\* then skips to the connect, a list returns the error.
RunScan(c) ==
    /\ Awaits(c, "scan")
    /\ \/ /\ WlanScan(Iface(c), ScanId(c))
          /\ WaitAt(c, "scan_wait")
          /\ UNCHANGED regVars
       \/ /\ OsMayFail
          /\ UNCHANGED svcVars
          /\ drop_pending_scan(Iface(c))
          /\ IF req[c].kind = "connect" THEN Spawn(c, "install")
                                        ELSE Return(c, "Os")

\* A completion arrived (or the channel closed): read the results.
ScanWoken(c) ==
    /\ pc[c] = "scan_wait"
    /\ scanRx[c] # None \/ scanReg[Iface(c)] # ScanId(c)
    /\ Spawn(c, "collect")
    /\ UNCHANGED <<svcVars, regVars>>

\* Five seconds without a completion: read the cached results.
ScanTimeout(c) ==
    /\ pc[c] = "scan_wait"
    /\ scanRx[c] = None /\ scanReg[Iface(c)] = ScanId(c)
    /\ drop_pending_scan(Iface(c))
    /\ Spawn(c, "collect")
    /\ UNCHANGED svcVars

\* MUTANT: the pre-flight loop does not look at its deadline.
RunCollectNoDeadline(c) ==
    /\ Awaits(c, "collect")
    /\ UNCHANGED svcVars
    /\ \/ Spawn(c, "install") /\ UNCHANGED regVars
       \/ BeginScan(c)

\* collect_bsses_blocking, and for a connect the rest of the pre-flight loop:
\* SSID seen or scan error, connect; not seen, give up or scan again.
RunCollect(c) ==
    /\ Awaits(c, "collect")
    /\ UNCHANGED svcVars
    /\ IF req[c].kind = "connect"
       THEN \/ Spawn(c, "install") /\ UNCHANGED regVars
            \/ Return(c, "SsidNotInRange") /\ UNCHANGED regVars
            \/ scans[c] < MaxScans /\ BeginScan(c)
       ELSE /\ Spawn(c, "context") \/ (OsMayFail /\ Return(c, "Os"))
            /\ UNCHANGED regVars

\* fetch_scan_context, then the roll-up.
RunContext(c) ==
    /\ Awaits(c, "context")
    /\ Return(c, "Ok") \/ (OsMayFail /\ Return(c, "Os"))
    /\ UNCHANGED <<svcVars, regVars>>

-----------------------------------------------------------------------------
(* Connecting: run_connect and run_connect_stored.                         *)

\* install_profile.
RunInstall(c) ==
    /\ Awaits(c, "install")
    /\ \/ WlanSetProfile(Iface(c), Profile(c)) /\ BeginConnect(c)
       \/ OsMayFail /\ Return(c, "Os") /\ UNCHANGED <<svcVars, regVars>>

\* profile_exists.
RunExists(c) ==
    /\ Awaits(c, "exists")
    /\ UNCHANGED svcVars
    /\ \/ Profile(c) \in profiles[Iface(c)] /\ BeginConnect(c)
       \/ /\ Profile(c) \notin profiles[Iface(c)]
          /\ Return(c, "NoStoredCredentials")
          /\ UNCHANGED regVars
       \/ OsMayFail /\ Return(c, "Os") /\ UNCHANGED regVars

\* issue_connect.
RunConnect(c) ==
    /\ Awaits(c, "connect")
    /\ \/ /\ WlanConnect(Iface(c), c)
          /\ WaitAt(c, "conn_wait")
          /\ UNCHANGED regVars
       \/ /\ OsMayFail
          /\ UNCHANGED svcVars
          /\ DropGuard(c)
          /\ Return(c, "Os")

\* The receiver holds an outcome, or its channel closed.
ConnectWoken(c) ==
    /\ pc[c] = "conn_wait"
    /\ \/ connRx[c] # None /\ Return(c, into_result(connRx[c]))
       \/ /\ connRx[c] = None /\ connReg[Iface(c)] # c
          /\ Return(c, "Os")
    /\ DropGuard(c)
    /\ UNCHANGED svcVars

\* MUTANT: the abort is spawned and the call returns without awaiting it.
TimeoutDetachesAbort(c) ==
    /\ pc[c] = "conn_wait" /\ connRx[c] = None
    /\ End(c, "Timeout")
    /\ job' = [job EXCEPT ![c] = "abort"]
    /\ DropGuard(c)
    /\ UNCHANGED svcVars

\* MUTANT: the timer is polled before the receiver.
TimeoutBeforeOutcome(c) ==
    /\ pc[c] = "conn_wait"
    /\ Spawn(c, "abort")
    /\ UNCHANGED <<svcVars, regVars>>

\* MUTANT: the wait has no deadline.
NoTimeout(c) == FALSE

\* The deadline passes with the receiver empty: abort the attempt.
ConnectTimeout(c) ==
    /\ pc[c] = "conn_wait"
    /\ connRx[c] = None /\ connReg[Iface(c)] = c
    /\ Spawn(c, "abort")
    /\ UNCHANGED <<svcVars, regVars>>

\* The best-effort WlanDisconnect after a timeout; its error is ignored.
RunAbort(c) ==
    /\ Awaits(c, "abort")
    /\ WlanDisconnect(Iface(c)) \/ (OsMayFail /\ UNCHANGED svcVars)
    /\ DropGuard(c)
    /\ Return(c, "Timeout")

-----------------------------------------------------------------------------
(* Disconnecting and removing a profile.                                   *)

\* current_ssid, and the comparison with the SSID asked for.  On an interface
\* that is not associated the service answers with an empty SSID or with
\* ERROR_NOT_FOUND, which check_win32 turns into an error like any other.
RunQuery(c) ==
    LET current == assoc[Iface(c)] IN
    /\ Awaits(c, "query")
    /\ \/ current = req[c].ssid /\ Spawn(c, "disconnect")
       \/ current # req[c].ssid /\ Return(c, "Ok")
       \/ (current = None \/ OsMayFail) /\ Return(c, "Os")
    /\ UNCHANGED <<svcVars, regVars>>

\* issue_disconnect, in the same closure.
RunDisconnect(c) ==
    /\ Awaits(c, "disconnect")
    /\ \/ WlanDisconnect(Iface(c)) /\ Return(c, "Ok")
       \/ OsMayFail /\ UNCHANGED svcVars /\ Return(c, "Os")
    /\ UNCHANGED regVars

\* run_remove_profile.
RunDelete(c) ==
    /\ Awaits(c, "delete")
    /\ \/ WlanDeleteProfile(Iface(c), Profile(c)) /\ Return(c, "True")
       \/ /\ Profile(c) \notin profiles[Iface(c)]
          /\ UNCHANGED svcVars
          /\ Return(c, "False")
       \/ OsMayFail /\ UNCHANGED svcVars /\ Return(c, "Os")
    /\ UNCHANGED regVars

-----------------------------------------------------------------------------
\* The closures that ask the service for a change whatever its state.
Requested == {"scan", "install", "connect", "abort", "disconnect"}

\* A closure whose call was cancelled: its effect on the service remains.
RunDetached(c) ==
    LET i == Iface(c) IN
    /\ pc[c] = "done" /\ job[c] # "none"
    /\ \/ job[c] = "scan" /\ WlanScan(i, ScanId(c))
       \/ job[c] = "install" /\ WlanSetProfile(i, Profile(c))
       \/ job[c] = "connect" /\ WlanConnect(i, c)
       \/ job[c] \in {"abort", "disconnect"} /\ WlanDisconnect(i)
       \/ job[c] = "delete" /\ WlanDeleteProfile(i, Profile(c))
       \/ (OsMayFail \/ job[c] \notin Requested) /\ UNCHANGED svcVars
    /\ job' = [job EXCEPT ![c] =
           IF job[c] = "query" /\ assoc[i] = req[c].ssid
           THEN "disconnect" ELSE "none"]
    /\ UNCHANGED <<regVars, req, pc, scans, holder, result>>

\* Dispatcher::dispatch on the notification thread, which gets the COMPLETE of an
\* attempt after its ATTEMPT_FAILs.
DeliverConnection(m) ==
    /\ m \in connNotes
    /\ m.code = "COMPLETE" =>
           ~\E n \in connNotes : n.call = m.call /\ n.code = "ATTEMPT_FAIL"
    /\ connNotes' = connNotes \ {m}
    /\ dispatch_connection(m, ConnAlive)
    /\ UNCHANGED <<assoc, attempt, profiles, scanning, taskVars>>

DeliverScan(m) ==
    /\ m \in scanning
    /\ scanning' = scanning \ {m}
    /\ dispatch_scan(m, ScanAlive)
    /\ UNCHANGED <<assoc, attempt, profiles, connNotes, taskVars>>

Service(i) ==
    /\ \/ /\ attempt[i] # None
          /\ AttemptFails(i) \/ AttemptEnds(i, Profile(attempt[i]))
       \/ LinkLost(i)
    /\ UNCHANGED <<regVars, taskVars>>

\* The steps the runtime owes a call: polls, closures and timers.
Task(c) ==
    \/ AcquireLock(c)
    \/ RunScan(c) \/ ScanWoken(c) \/ ScanTimeout(c)
    \/ RunCollect(c) \/ RunContext(c)
    \/ RunInstall(c) \/ RunExists(c) \/ RunConnect(c)
    \/ ConnectWoken(c) \/ ConnectTimeout(c) \/ RunAbort(c)
    \/ RunQuery(c) \/ RunDisconnect(c) \/ RunDelete(c)
    \/ RunDetached(c)

Next ==
    \/ \E c \in Calls : Start(c) \/ Cancel(c) \/ Task(c)
    \/ \E m \in connNotes : DeliverConnection(m)
    \/ \E m \in scanning : DeliverScan(m)
    \/ \E i \in Ifaces : Service(i)

Spec == Init /\ [][Next]_vars

\* The runtime polls woken tasks, runs queued closures and fires timers.  The
\* service and the caller owe nothing.
FairSpec == Spec /\ \A c \in Calls : WF_vars(Task(c))
-----------------------------------------------------------------------------
(* Correctness.                                                            *)

IsConnect(c) == req[c].kind \in {"connect", "stored"}

\* Call c stopped listening while the service was not done with its attempt:
\* it timed out, was cancelled, or was answered by an ATTEMPT_FAIL or by the
\* notification of another call's attempt.
Deserted(c) ==
    \/ Awaits(c, "abort") \/ result[c] \in {"Timeout", "Cancelled"}
    \/ connRx[c] # None /\ (connRx[c].from = c => connRx[c].outcome = "Failed")

\* A connect hears of its own attempt, although dispatch matches by interface
\* alone: what wakes a waiter instead can only be a notification of an attempt
\* whose call had stopped listening before the service was done with it
\* (notifications.rs dispatch, the adapter lock in mod.rs).
OutcomeIsOwn ==
    \A c \in Calls :
        connRx[c] # None /\ connRx[c].from # c => Deserted(connRx[c].from)

\* A connect that waits with an empty receiver still has its sender in the
\* registry, so its channel never closes under it: neither another call on
\* the interface nor a guard of an earlier one removes or overwrites it.
WaiterIsReachable ==
    \A c \in ConnAlive : connRx[c] = None => connReg[Iface(c)] = c

\* A connect registration never outlives its call, however the call ends (the
\* cancel-on-drop guard), and is always that of the lock holder; a scan
\* registration, which has no guard, outlives only a cancelled call.
RegistryIsOwned ==
    \A i \in Ifaces :
        /\ connReg[i] # None =>
               /\ Guarded(connReg[i])
               /\ holder[i] = connReg[i]
        /\ scanReg[i] # None =>
               \/ /\ scanReg[i] = ScanId(scanReg[i].call)
                  /\ scanReg[i].call \in ScanAlive
                  /\ holder[i] = scanReg[i].call
               \/ result[scanReg[i].call] = "Cancelled"

\* A closure that may still call the service belongs to the holder of the
\* adapter lock, or to a call whose future was dropped: returning never leaves
\* a closure behind, a timeout included.
OnlyCancelledCallsDetach ==
    \A c \in Calls : job[c] # "none" =>
        \/ pc[c] = "job" /\ holder[Iface(c)] = c
        \/ pc[c] = "done" /\ result[c] = "Cancelled"

\* What the service still does or has to tell for an attempt has somebody to
\* hear of it, unless its call had stopped listening: no call is told Connected
\* while its attempt goes on, and none ends because its channel was closed.
AttemptHasWaiter ==
    /\ \A i \in Ifaces : attempt[i] # None =>
           pc[attempt[i]] = "conn_wait" \/ Deserted(attempt[i])
    /\ \A m \in connNotes : pc[m.call] = "conn_wait" \/ Deserted(m.call)

\* What a connect returns agrees with what its receiver held: success only
\* after Connected, or after a failure that carries reason 0 (map_reason_code
\* does not tell it from a success); a timeout only when no outcome had been
\* delivered by the deadline; and the mapped reason otherwise (a WlanConnect
\* that fails outright is an "Os" whatever a late notification left behind).
ResultMatchesOutcome ==
    \A c \in Calls : pc[c] = "done" /\ IsConnect(c) =>
        /\ result[c] = "Ok" =>
               /\ connRx[c] # None
               /\ connRx[c].outcome = "Connected" \/ connRx[c].reason = "SUCCESS"
        /\ result[c] = "Timeout" => connRx[c] = None
        /\ connRx[c] # None /\ result[c] \notin {"Cancelled", "Os"} =>
               result[c] = into_result(connRx[c])

\* Every call that is polled returns, and every closure it handed to the
\* blocking pool runs, even if the service never sends a notification.
CallsReturn ==
    \A c \in Calls :
        pc[c] = "locking" ~> pc[c] = "done" /\ job[c] = "none"

\* Calls on one interface are serialized, as AdapterLocks states it.
Status(c) == CASE pc[c] = "idle" -> "idle"
               [] pc[c] = "locking" -> "queued"
               [] pc[c] = "done" -> "done"
               [] OTHER -> "inside"

Locks == INSTANCE AdapterLocks
         WITH Adapters <- Ifaces,
              on <- [c \in Calls |-> Iface(c)],
              status <- [c \in Calls |-> Status(c)]

\* The backend implements AdapterLocks: every step is a step of it or a
\* stutter, so no operation enters an interface another one is in (the tokio
\* mutex of adapter_lock, held over every await of an operation).
CallsAreSerialized == Locks!Spec

-----------------------------------------------------------------------------
(* What comments and docs say and the code does not ensure.                *)

\* connect.rs, on the guard: a late notification never fires the registration
\* of a subsequent connect.
NoForeignOutcome ==
    \A c \in Calls : connRx[c] # None => connRx[c].from = c

\* api.rs, on disconnect: when the adapter is not connected to the SSID, the
\* call is a no-op success.
DisconnectIsIdempotent ==
    [][\A c \in Calls :
          Awaits(c, "query") /\ assoc[Iface(c)] # req[c].ssid
              => result'[c] \in {"none", "Ok", "Cancelled"}]_vars

-----------------------------------------------------------------------------
(* The inductive invariant behind the safety properties.                   *)

\* Between the acquisition of the lock and the end of the call.
Busy(c) == pc[c] \in {"job", "scan_wait", "conn_wait"}

LockInv ==
    /\ \A c \in Calls : Busy(c) => holder[Iface(c)] = c
    /\ \A i \in Ifaces : holder[i] # None => /\ Iface(holder[i]) = i
                                            /\ Busy(holder[i])

JobInv ==
    \A c \in Calls :
        /\ pc[c] = "job" => job[c] # "none"
        /\ job[c] # "none" => \/ pc[c] = "job"
                              \/ pc[c] = "done" /\ result[c] = "Cancelled"
        /\ pc[c] # "done" => result[c] = "none"

ConnRegInv ==
    \A i \in Ifaces :
        connReg[i] # None => Iface(connReg[i]) = i /\ Guarded(connReg[i])

\* The scan registered on interface i is one of call c.
ScanOf(i, c) == scanReg[i] # None /\ scanReg[i].call = c

AwaitsScan(c) == c \in ScanAlive /\ scanRx[c] = None

ScanRegInv ==
    \A i \in Ifaces, c \in Calls : ScanOf(i, c) =>
        /\ Iface(c) = i
        /\ \/ scanReg[i] = ScanId(c) /\ AwaitsScan(c)
           \/ result[c] = "Cancelled"

\* The call has not issued its WlanConnect, and may yet.
Fresh(c) ==
    \/ pc[c] \in {"idle", "locking", "scan_wait"}
    \/ job[c] \in {"scan", "collect", "install", "exists", "connect"}

\* The service works on the attempt of c, or has more to tell of it.
Outstanding(c) ==
    attempt[Iface(c)] = c \/ \E m \in connNotes : m.call = c

\* No attempt of a fresh call was ever heard of.
FreshInv ==
    \A c \in Calls : Fresh(c) =>
        /\ ~Outstanding(c)
        /\ \A d \in Calls : connRx[d] # None => connRx[d].from # c

PlaceInv ==
    /\ \A i \in Ifaces : attempt[i] # None => Iface(attempt[i]) = i
    /\ \A m \in connNotes : m.iface = Iface(m.call)

Complete(m) == m.code = "COMPLETE"

\* A COMPLETE is the last that the service tells of an attempt.
LastWord ==
    /\ \A m \in connNotes : Complete(m) => attempt[Iface(m.call)] # m.call
    /\ \A m, n \in connNotes :
           Complete(m) /\ Complete(n) /\ m.call = n.call => m = n
    /\ \A c \in Calls : Outstanding(c) /\ connRx[c] # None /\ connRx[c].from = c
                          => connRx[c].outcome = "Failed"

\* A registered sender has not been used.
UnusedSenders == \A i \in Ifaces : connReg[i] # None => connRx[connReg[i]] = None

\* Call c waits, or had stopped listening.
Attends(c) == pc[c] = "conn_wait" \/ Deserted(c)

Attended == \A c \in Calls : Outstanding(c) => Attends(c)

\* What the service owes to whom; with IInv it is inductive.
AttemptInv ==
    /\ FreshInv
    /\ PlaceInv
    /\ LastWord
    /\ UnusedSenders
    /\ Attended
    /\ OutcomeIsOwn

IInv ==
    /\ TypeOK
    /\ LockInv
    /\ JobInv
    /\ ConnRegInv
    /\ WaiterIsReachable
    /\ ScanRegInv
=============================================================================
