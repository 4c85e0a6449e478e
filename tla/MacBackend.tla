----------------------------- MODULE MacBackend ------------------------------
(***************************************************************************)
(* platform/macos: concurrent calls on one MacosBackend, one adapter.  A   *)
(* call's future awaits a worker thread (run_blocking); workers use the    *)
(* shared CWWiFiClient one at a time, under a std mutex they hold for the  *)
(* whole CoreWLAN call.  A worker cannot be stopped: after a timeout, or   *)
(* when the future is dropped, it goes on and its result is thrown away.   *)
(*                                                                         *)
(* list_adapters, and list_visible_networks before it uses a worker, take  *)
(* the client's mutex inside the future and block the executor's thread.   *)
(* When they block all of them, no other future and no timer goes on.      *)
(*                                                                         *)
(* The user, auto-join and other programs join and leave networks and edit *)
(* the keychain at any time: the client's mutex is this process's own.     *)
(***************************************************************************)
EXTENDS Preflight, FiniteSets

CONSTANTS
    Ssids,
    Timeouts,       \* effective_timeout of connects, in ticks
    PreflightCap,   \* the five seconds of the pre-flight budget, in ticks
    Threads,        \* numbers of threads the executor may have
    None

ASSUME TimeoutsAssumption == Timeouts \subseteq Nat /\ PreflightCap \in Nat
ASSUME ThreadsAssumption == Threads \subseteq Nat \ {0}
ASSUME AbsenceAssumption == None \notin Calls /\ None \notin Ssids

VARIABLES
    req,        \* per call, what it asks for
    pc,         \* per call, the await its future is suspended at
    holder,     \* op_locks: the call that holds the adapter's mutex
    result,     \* per call, what it returned, or how it ended
    work,       \* per call, what its worker does
    at,         \* per call, how far its worker is
    out,        \* per call, what its worker returned
    client,     \* the call whose worker holds the CWWiFiClient mutex
    current,    \* the SSID the interface is on, None if it is on none
    joined,     \* the call whose associate made that association, if one did
    keychain,   \* SSIDs with a Wi-Fi password entry
    threads     \* how many threads poll the futures; futures that a caller
                \* joins into one task are polled as if by a single one

callVars == <<req, pc, holder, result>>
workVars == <<work, at, out>>
radio == <<current, joined>>
osVars == <<client, radio, keychain>>
vars == <<clockVars, callVars, workVars, osVars, threads>>

Kinds == {"connect", "stored", "disconnect", "remove", "list", "adapters"}
Requests == [kind : Kinds, ssid : Ssids, timeout : Timeouts]
Works == {"none", "scan", "associate", "disconnect", "remove", "probe",
          "bsses", "context"}
\* What associate fails with.  Only a wrong password is told apart by what
\* follows; "Os" stands for each of the other errors.
AssociateErrors == {"AuthenticationFailed", "Os"}
Outcomes == {"Ok", "True", "False", "seen", "unseen", "failed",
             "PermissionDenied", "AdapterNotFound"} \cup AssociateErrors
Results == {"Ok", "True", "False", "NoStoredCredentials", "Cancelled", "Timeout",
            "SsidNotInRange", "PermissionDenied", "AdapterNotFound"}
           \cup AssociateErrors

\* Every variable has the type of its Rust or CoreWLAN counterpart.
TypeOK ==
    /\ PreflightTypeOK
    /\ req \in [Calls -> Requests]
    /\ pc \in [Calls -> {"idle", "locking", "preflight", "associate", "probe",
                         "disconnect", "remove", "check", "bsses", "context", "done"}]
    /\ holder \in Calls \cup {None}
    /\ result \in [Calls -> Results \cup {"none"}]
    /\ work \in [Calls -> Works]
    /\ at \in [Calls -> {"none", "waiting", "using", "matched", "free", "ended"}]
    /\ out \in [Calls -> Outcomes \cup {"none"}]
    /\ client \in Calls \cup {None}
    /\ current \in Ssids \cup {None}
    /\ joined \in Calls \cup {None}
    /\ keychain \in SUBSET Ssids
    /\ threads \in Nat

Init ==
    /\ PreflightInit
    /\ req \in [Calls -> {r \in Requests :
                  r.kind \notin {"connect", "stored"} =>
                      r.timeout = CHOOSE t \in Timeouts : TRUE}]
    /\ pc = [c \in Calls |-> "idle"]
    /\ holder = None
    /\ result = [c \in Calls |-> "none"]
    /\ work = [c \in Calls |-> "none"]
    /\ at = [c \in Calls |-> "none"]
    /\ out = [c \in Calls |-> "none"]
    /\ client = None
    /\ current = None
    /\ joined = None
    /\ keychain \in SUBSET Ssids
    /\ threads \in Threads

-----------------------------------------------------------------------------
Ssid(c) == req[c].ssid
IsConnect(c) == req[c].kind \in {"connect", "stored"}

\* The budget of the pre-flight: half the timeout, five seconds at most.
PreflightBudget(c) == Smaller(req[c].timeout \div 2, PreflightCap)

\* The call has no worker.
Idle(c) ==
    /\ work' = [work EXCEPT ![c] = "none"]
    /\ at' = [at EXCEPT ![c] = "none"]
    /\ out' = [out EXCEPT ![c] = "none"]

\* The future ends: its locals are dropped, the lock guard last.  A worker
\* that still runs goes on.
Return(c, r) ==
    /\ pc' = [pc EXCEPT ![c] = "done"]
    /\ result' = [result EXCEPT ![c] = r]
    /\ holder' = IF holder = c THEN None ELSE holder
    /\ IF at[c] = "ended" THEN Idle(c) ELSE UNCHANGED workVars
    /\ UNCHANGED req

Await(c, p) ==
    /\ pc' = [pc EXCEPT ![c] = p]
    /\ UNCHANGED <<req, result, holder>>

\* run_blocking: a worker starts when its future is first polled.
Run(c, w) ==
    /\ work' = [work EXCEPT ![c] = w]
    /\ at' = [at EXCEPT ![c] = IF w \in {"remove", "probe"} THEN "free" ELSE "waiting"]
    /\ out' = [out EXCEPT ![c] = "none"]

\* A future in its check is inside SharedClient::with, not at an await.
Blocking(c) == pc[c] = "check"

\* A thread of the executor is left to poll futures and fire timers.
ExecutorFree == Cardinality({c \in Calls : Blocking(c)}) < threads

-----------------------------------------------------------------------------
(* Futures.                                                                *)

\* The caller polls the future.  Only what mutates the radio takes the lock.
Start(c) ==
    /\ pc[c] = "idle" /\ ExecutorFree
    /\ \/ req[c].kind \in {"connect", "stored", "disconnect"}
              /\ Await(c, "locking") /\ UNCHANGED workVars
       \/ req[c].kind = "remove" /\ Await(c, "remove") /\ Run(c, "remove")
       \/ req[c].kind \in {"list", "adapters"} /\ Await(c, "check") /\ UNCHANGED workVars
    /\ UNCHANGED <<clockVars, osVars, threads>>

\* MUTANT: the call does not take the adapter lock.
LockIgnored == TRUE

LockFree == holder = None

\* The lock is taken; a zero budget ends the pre-flight, and the connect.
AcquireLock(c) ==
    /\ pc[c] = "locking" /\ ExecutorFree
    /\ LockFree
    /\ \/ /\ req[c].kind = "disconnect"
          /\ holder' = c /\ pc' = [pc EXCEPT ![c] = "disconnect"]
          /\ Run(c, "disconnect")
          /\ UNCHANGED <<req, result, clockVars>>
       \/ /\ IsConnect(c) /\ PreflightBudget(c) = 0
          /\ Return(c, "SsidNotInRange")
          /\ UNCHANGED clockVars
       \/ /\ IsConnect(c) /\ PreflightBudget(c) # 0
          /\ holder' = c /\ pc' = [pc EXCEPT ![c] = "preflight"]
          /\ Begin(c, PreflightBudget(c))
          /\ Run(c, "scan")
          /\ UNCHANGED <<req, result>>
    /\ UNCHANGED <<osVars, threads>>

\* A pre-flight scan answers; not visible ends the connect.
PreflightScan(c) ==
    /\ pc[c] = "preflight" /\ ExecutorFree
    /\ pf[c] = "scanning" /\ at[c] = "ended"
    /\ ScanReturns(c, out[c])
    /\ UNCHANGED <<callVars, workVars, osVars, threads>>

PreflightAgain(c) ==
    /\ pc[c] = "preflight" /\ ExecutorFree
    /\ WakeUp(c)
    /\ Run(c, "scan")
    /\ UNCHANGED <<callVars, osVars, threads>>

\* MUTANT: the time of the pre-flight comes on top of the timeout.
WholeTimeout(c) == req[c].timeout

\* MUTANT: a plain subtraction, which panics when a scan overran the timeout.
PlainRemaining(c) == req[c].timeout - elapsed[c]

\* What is left of the timeout after the pre-flight.
Remaining(c) == SaturatingSub(req[c].timeout, elapsed[c])

\* The pre-flight is over: out of range, or associate under what is left of
\* the timeout (the worker starts even when nothing is left).
Associate(c) ==
    /\ pc[c] = "preflight" /\ ExecutorFree
    /\ \/ pf[c] = "NotVisible" /\ Return(c, "SsidNotInRange")
              /\ StopClock(c)
       \/ pf[c] \in {"Visible", "Skipped"} /\ Await(c, "associate")
              /\ SetTimeout(c, Remaining(c)) /\ Run(c, "associate")
    /\ UNCHANGED <<osVars, threads>>

\* The worker's result is there: tokio's timeout looks at it first.
AssociateReturns(c) ==
    /\ pc[c] = "associate" /\ ExecutorFree
    /\ at[c] = "ended"
    /\ IF req[c].kind = "stored" /\ out[c] = "AuthenticationFailed"
       THEN Await(c, "probe") /\ Run(c, "probe")
       ELSE Return(c, out[c])
    /\ StopClock(c)
    /\ UNCHANGED <<osVars, threads>>

\* The rest of the timeout is over; the worker goes on.
AssociateTimesOut(c) ==
    /\ pc[c] = "associate" /\ ExecutorFree
    /\ at[c] # "ended" /\ timer[c] = 0
    /\ Return(c, "Timeout")
    /\ StopClock(c)
    /\ UNCHANGED <<osVars, threads>>

\* The keychain probe tells a wrong password from a missing entry.
ProbeResult(c) ==
    IF out[c] = "True" THEN "AuthenticationFailed" ELSE "NoStoredCredentials"

ProbeReturns(c) ==
    /\ pc[c] = "probe" /\ at[c] = "ended" /\ ExecutorFree
    /\ Return(c, ProbeResult(c))
    /\ UNCHANGED <<clockVars, osVars, threads>>

\* disconnect and remove_profile return what their worker returned.
WorkerReturns(c) ==
    /\ pc[c] \in {"disconnect", "remove"} /\ at[c] = "ended" /\ ExecutorFree
    /\ Return(c, out[c])
    /\ UNCHANGED <<clockVars, osVars, threads>>

\* The client is used on the executor's thread: all of list_adapters, and the
\* eager check of list_visible_networks.
EagerCheck(c) ==
    /\ pc[c] = "check" /\ client = None
    /\ \/ req[c].kind = "adapters" /\ Return(c, "Ok")
       \/ req[c].kind = "list" /\ Return(c, "AdapterNotFound")
       \/ req[c].kind = "list" /\ Await(c, "bsses") /\ Run(c, "bsses")
    /\ UNCHANGED <<clockVars, osVars, threads>>

\* Then fetch_bsses and fetch_scan_context, each on a worker.
ListReturns(c) ==
    /\ pc[c] \in {"bsses", "context"} /\ at[c] = "ended" /\ ExecutorFree
    /\ IF pc[c] = "bsses" /\ out[c] = "Ok"
       THEN Await(c, "context") /\ Run(c, "context")
       ELSE Return(c, out[c])
    /\ UNCHANGED <<clockVars, osVars, threads>>

\* The caller drops the future at an await; its worker goes on.
Cancel(c) ==
    /\ pc[c] \notin {"idle", "check", "done"} /\ ExecutorFree
    /\ Return(c, "Cancelled")
    /\ StopClock(c)
    /\ UNCHANGED <<osVars, threads>>

-----------------------------------------------------------------------------
(* Workers.                                                                *)

\* MUTANT: workers do not wait for the client.
ClientShared == TRUE

\* The std mutex of SharedClient is free.
ClientFree == client = None

EnterClient(c) ==
    /\ at[c] = "waiting"
    /\ ClientFree
    /\ client' = c
    /\ at' = [at EXCEPT ![c] = "using"]
    /\ UNCHANGED <<clockVars, callVars, work, out, radio, keychain, threads>>

\* The worker ends with r, which nobody takes if the future is gone, and gives
\* the client back.
WorkEnds(c, r) ==
    /\ IF pc[c] = "done" THEN Idle(c)
       ELSE /\ at' = [at EXCEPT ![c] = "ended"]
            /\ out' = [out EXCEPT ![c] = r]
            /\ UNCHANGED work
    /\ client' = IF client = c THEN None ELSE client

\* A scan of the pre-flight, or of a list.
Scan(c) ==
    /\ at[c] = "using"
    /\ \/ work[c] = "scan" /\ \E r \in {"seen", "unseen", "failed"} : WorkEnds(c, r)
       \/ work[c] = "bsses"
              /\ \E r \in {"Ok", "Os", "PermissionDenied", "AdapterNotFound"} :
                    WorkEnds(c, r)
    /\ UNCHANGED <<clockVars, callVars, radio, keychain, threads>>

\* connect_blocking: the adapter, a scan for the SSID, associate.
ConnectBlocking(c) ==
    /\ at[c] = "using" /\ work[c] = "associate"
    /\ \/ WorkEnds(c, "Ok") /\ current' = Ssid(c) /\ joined' = c
       \/ \E e \in AssociateErrors : WorkEnds(c, e) /\ UNCHANGED radio
    /\ UNCHANGED <<clockVars, callVars, keychain, threads>>

\* MUTANT: the current SSID is not compared with the one asked for.
AnyNetwork(c) == current # None

\* The interface is on the SSID the disconnect is for.
OnNetwork(c) == current = Ssid(c)

\* disconnect_blocking reads the current SSID; another network is left alone.
ReadCurrent(c) ==
    /\ at[c] = "using" /\ work[c] = "disconnect"
    /\ \/ OnNetwork(c) /\ at' = [at EXCEPT ![c] = "matched"]
              /\ UNCHANGED <<work, out, client>>
       \/ ~OnNetwork(c) /\ WorkEnds(c, "Ok")
       \/ WorkEnds(c, "AdapterNotFound")
    /\ UNCHANGED <<clockVars, callVars, radio, keychain, threads>>

\* Then it disassociates, whatever the interface is on by now.
Disassociate(c) ==
    /\ at[c] = "matched"
    /\ current' = None /\ joined' = None
    /\ WorkEnds(c, "Ok")
    /\ UNCHANGED <<clockVars, callVars, keychain, threads>>

\* MUTANT: the keychain is probed while the client is held.
ProbeUnderClient(c) ==
    /\ at[c] = "using" /\ work[c] = "context"
    /\ at' = [at EXCEPT ![c] = "free"]
    /\ UNCHANGED <<work, out, client>>
    /\ UNCHANGED <<clockVars, callVars, radio, keychain, threads>>

\* fetch_scan_context_blocking, first phase: what needs the client.
ReadInterface(c) ==
    /\ at[c] = "using" /\ work[c] = "context"
    /\ \/ at' = [at EXCEPT ![c] = "free"] /\ client' = None
              /\ UNCHANGED <<work, out>>
       \/ WorkEnds(c, "AdapterNotFound")
    /\ UNCHANGED <<clockVars, callVars, radio, keychain, threads>>

\* The keychain, without the client: it may ask the user, and take its time.
\* An error, a denied prompt included, counts for the probe as no entry.
Keychain(c) ==
    /\ at[c] = "free"
    /\ \/ /\ work[c] = "remove" /\ Ssid(c) \in keychain
          /\ WorkEnds(c, "True") /\ keychain' = keychain \ {Ssid(c)}
       \/ /\ work[c] = "remove" /\ Ssid(c) \notin keychain
          /\ WorkEnds(c, "False") /\ UNCHANGED keychain
       \/ /\ work[c] = "remove" /\ UNCHANGED keychain
          /\ \E e \in {"PermissionDenied", "Os"} : WorkEnds(c, e)
       \/ /\ work[c] = "probe" /\ Ssid(c) \in keychain
          /\ WorkEnds(c, "True") /\ UNCHANGED keychain
       \/ work[c] = "probe" /\ WorkEnds(c, "False") /\ UNCHANGED keychain
       \/ work[c] = "context" /\ WorkEnds(c, "Ok") /\ UNCHANGED keychain
    /\ UNCHANGED <<clockVars, callVars, radio, threads>>

-----------------------------------------------------------------------------
\* Not by this backend: the interface loses its network, or joins one.
SystemMoves ==
    /\ current' \in (Ssids \cup {None}) \ {current}
    /\ joined' = None
    /\ UNCHANGED <<clockVars, callVars, workVars, client, keychain, threads>>

\* Not by this backend: an entry is added or removed.
KeychainEdited ==
    /\ \/ \E s \in Ssids \ keychain : keychain' = keychain \cup {s}
       \/ \E s \in keychain : keychain' = keychain \ {s}
    /\ UNCHANGED <<clockVars, callVars, workVars, client, radio, threads>>

\* The calls whose clock runs, and those whose timer is due.
Counting == {c \in Calls : pc[c] \in {"preflight", "associate"}}
Due == {c \in Calls : timer[c] = 0 /\ (pf[c] = "sleeping" \/ pc[c] = "associate")}

\* A tick.  A free executor fires due timers before time goes on.
Tick ==
    /\ ExecutorFree => Due = {}
    /\ TimePasses(Counting)
    /\ UNCHANGED <<callVars, workVars, osVars, threads>>

Task(c) ==
    \/ AcquireLock(c) \/ PreflightScan(c) \/ PreflightAgain(c) \/ Associate(c)
    \/ AssociateReturns(c) \/ AssociateTimesOut(c) \/ ProbeReturns(c)
    \/ WorkerReturns(c) \/ EagerCheck(c) \/ ListReturns(c)

Worker(c) ==
    \/ EnterClient(c) \/ Scan(c) \/ ConnectBlocking(c) \/ ReadCurrent(c)
    \/ Disassociate(c) \/ ReadInterface(c) \/ Keychain(c)

Next ==
    \/ \E c \in Calls : Start(c) \/ Cancel(c) \/ Task(c) \/ Worker(c)
    \/ SystemMoves \/ KeychainEdited
    \/ Tick

Spec == Init /\ [][Next]_vars

-----------------------------------------------------------------------------
(* Correctness.                                                            *)

\* A worker whose future is gone.
Orphan(c) == pc[c] = "done" /\ at[c] \in {"waiting", "using", "matched", "free"}

\* CWWiFiClient is not thread-safe: no two workers are inside CoreWLAN calls,
\* orphans included, and none is while it asks the keychain (client.rs, and
\* scan.rs "keychain probes outside the lock").
ClientIsExclusive ==
    \A c \in Calls : at[c] \in {"using", "matched"} <=> client = c

\* The pre-flight's pauses end with its budget, so it makes its last scan at
\* its deadline (preflight.rs, "so that short timeouts still get a final
\* retry").  Its sleep outlasts the budget only by time that passes while
\* every thread of the executor waits inside a list for the client.
PausesFitBudget ==
    [][\A c \in Calls :
          pf'[c] = "sleeping" /\ elapsed'[c] + timer'[c] > budget'[c] =>
              \/ pf[c] = "sleeping" /\ elapsed'[c] = elapsed[c]
              \/ ~ExecutorFree]_vars

\* The wait for associate ends when the timeout of the whole operation does,
\* pre-flight included, however many scans there were (types.rs, "for the
\* overall operation including the optional pre-flight scan").  The probe that
\* may follow it in connect_with_stored_credentials has no bound at all.
TimeoutCoversPreflight ==
    \A c \in Calls : pc[c] = "associate" =>
        elapsed[c] + timer[c] = req[c].timeout
            \/ (timer[c] = 0 /\ elapsed[c] > req[c].timeout)

\* While a connect that succeeded has not returned yet, no other live call of
\* the backend ends or replaces its association: what changes it is the
\* system, in a step no worker takes, or a worker left behind by an earlier
\* call (connect.rs, "runs until CoreWLAN returns").
OnlyOrphansInterfere ==
    [][\A c \in Calls :
          pc[c] = "associate" /\ joined = c /\ joined' # c =>
              \A d \in Calls : at'[d] # at[d] => Orphan(d)]_vars

\* A disconnect never ends an association that a connect of this backend made
\* with another SSID: the comparison and disassociate are one use of the client
\* (connect.rs, disconnect_blocking).  One that the system made between the two
\* it does end.
DisconnectIsTargeted ==
    [][\A c \in Calls : at[c] = "matched" /\ at'[c] # "matched" /\ joined # None =>
          Ssid(joined) = Ssid(c)]_vars

\* remove_profile and the two lists take no lock; the others are serialized as
\* AdapterLocks says.
Status(c) ==
    CASE pc[c] = "done" -> "done"
      [] pc[c] = "locking" -> "queued"
      [] pc[c] \in {"preflight", "associate", "probe", "disconnect"} -> "inside"
      [] OTHER -> "idle"

Locks == INSTANCE AdapterLocks
         WITH Adapters <- {"en0"},
              on <- [c \in Calls |-> "en0"],
              status <- [c \in Calls |-> Status(c)]

\* The backend implements AdapterLocks: the futures of two operations that
\* change the radio are never inside together (their orphans may be).
CallsAreSerialized == Locks!Spec
=============================================================================
