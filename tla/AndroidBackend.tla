--------------------------- MODULE AndroidBackend ----------------------------
(***************************************************************************)
(* platform/android: concurrent calls on one AndroidBackend.  A call's     *)
(* future awaits a job on the blocking pool (jni_blocking); a job goes on  *)
(* when its future is dropped, and what it returns is then dropped on the  *)
(* pool.  A connect's job requests a network, polls until the process is   *)
(* bound to a new one with an address, and returns a guard whose Drop      *)
(* takes the request and the binding back.  The guard is followed from     *)
(* the registration of its callback to its end.                            *)
(*                                                                         *)
(* cache_suggestion has no caller, so no suggestion is ever cached: the    *)
(* operations that look one up end there.  Time is abstract: a deadline    *)
(* has passed or not whenever it is looked at.                             *)
(***************************************************************************)
EXTENDS ConnectivityService, Naturals

CONSTANTS
    Kinds,      \* the operations the calls may be
    MaxFaults   \* bound: JNI calls that fail

ASSUME KindsAssumption ==
    Kinds \subseteq {"connect", "stored", "disconnect", "remove", "list"}
ASSUME FaultsAssumption == MaxFaults \in Nat
ASSUME NamesAssumption == None \notin Networks /\ Calls \cap Others = {}

VARIABLES
    req,        \* per call, what it asks for
    pc,         \* per call, the await its future is suspended at
    holder,     \* locks: the call that holds the mutex of wlan0
    result,     \* per call, what it returned, or how it ended
    job,        \* per call, the next step of its job on the blocking pool
    out,        \* per call, what its job returned
    before,     \* per connect, the handles it saw before its request
    bound,      \* per connect, its bound_network
    guard,      \* per connect, who has its callback
    faults      \* JNI calls that failed so far

callVars == <<req, pc, holder, result>>
jobVars == <<job, out, before, bound>>
vars == <<osVars, callVars, jobVars, guard, faults>>

Requests == {r \in [kind : Kinds, force : BOOLEAN] : r.force => r.kind = "list"}
Jobs == {"none", "snapshot", "request", "poll", "deadline", "release",
         "permission", "listen", "start", "waiting", "read", "context", "ended"}
\* poller: the local of connect_via_specifier; output: an Ok not taken yet;
\* held: the caller's WifiConnection; unregister, unbind: Drop is running;
\* lost: the callback can no longer be unregistered.
Guards == {"none", "poller", "output", "held", "unregister", "unbind",
           "dropped", "lost"}
Outcomes == {"Ok", "Os", "Timeout", "Unsupported", "PermissionDenied"}
Results == Outcomes \cup
    {"False", "NoStoredCredentials", "AdapterNotFound", "Cancelled"}

\* Every variable has the type of its Rust or Android counterpart.
TypeOK ==
    /\ ServiceTypeOK
    /\ req \in [Calls -> Requests]
    /\ pc \in [Calls -> {"idle", "locking", "specifier", "bsses", "context", "done"}]
    /\ holder \in Calls \cup {None}
    /\ result \in [Calls -> Results \cup {"none"}]
    /\ job \in [Calls -> Jobs]
    /\ out \in [Calls -> Outcomes \cup {"none"}]
    /\ before \in [Calls -> SUBSET Networks]
    /\ bound \in [Calls -> Networks \cup {None}]
    /\ guard \in [Calls -> Guards]
    /\ faults \in 0..MaxFaults

Init ==
    /\ ServiceInit
    /\ req \in [Calls -> Requests]
    /\ pc = [c \in Calls |-> "idle"]
    /\ holder = None
    /\ result = [c \in Calls |-> "none"]
    /\ job = [c \in Calls |-> "none"]
    /\ out = [c \in Calls |-> "none"]
    /\ before = [c \in Calls |-> {}]
    /\ bound = [c \in Calls |-> None]
    /\ guard = [c \in Calls |-> "none"]
    /\ faults = 0

\* The JNI calls of a step succeed, or one of them fails.
Works == UNCHANGED faults
Fails == faults < MaxFaults /\ faults' = faults + 1

-----------------------------------------------------------------------------
(* Calls begin, wait for their jobs, and end.                              *)

\* The future ends: its locals are dropped, the lock guard last.
Return(c, r) ==
    /\ pc' = [pc EXCEPT ![c] = "done"]
    /\ result' = [result EXCEPT ![c] = r]
    /\ holder' = IF holder = c THEN None ELSE holder
    /\ out' = [out EXCEPT ![c] = "none"]
    /\ UNCHANGED req

\* jni_blocking: the job starts, the future awaits it.
Await(c, p, first) ==
    /\ pc' = [pc EXCEPT ![c] = p]
    /\ job' = [job EXCEPT ![c] = first]
    /\ out' = [out EXCEPT ![c] = "none"]
    /\ UNCHANGED <<req, result>>

\* The caller polls the future: only wlan0 exists, and a list takes no lock.
Start(c) ==
    /\ pc[c] = "idle"
    /\ \/ Return(c, "AdapterNotFound") /\ UNCHANGED job
       \/ req[c].kind = "list" /\ Await(c, "bsses", "permission")
              /\ UNCHANGED holder
       \/ req[c].kind # "list" /\ Await(c, "locking", "none")
              /\ UNCHANGED holder
    /\ UNCHANGED <<osVars, before, bound, guard, faults>>

\* MUTANT: the call does not take the adapter lock.
LockIgnored == TRUE

LockFree == holder = None

\* connect takes the lock and spawns its job.
AcquireLock(c) ==
    /\ pc[c] = "locking" /\ req[c].kind = "connect"
    /\ LockFree
    /\ holder' = c
    /\ Await(c, "specifier", "snapshot")
    /\ UNCHANGED <<osVars, before, bound, guard, faults>>

\* The other operations find no cached suggestion under the lock.
LookUpSuggestion(c) ==
    /\ pc[c] = "locking"
    /\ LockFree
    /\ \/ req[c].kind = "stored" /\ Return(c, "NoStoredCredentials")
       \/ req[c].kind = "disconnect" /\ Return(c, "Ok")
       \/ req[c].kind = "remove" /\ Return(c, "False")
    /\ UNCHANGED <<osVars, job, before, bound, guard, faults>>

\* The job of a connect or of the second half of a list has ended.
Finish(c) ==
    /\ pc[c] \in {"specifier", "context"} /\ job[c] = "ended"
    /\ Return(c, out[c])
    /\ guard' = IF guard[c] = "output" THEN [guard EXCEPT ![c] = "held"] ELSE guard
    /\ UNCHANGED <<osVars, job, before, bound, faults>>

\* A list goes on from fetch_bsses_blocking to fetch_scan_context_blocking.
FetchContext(c) ==
    /\ pc[c] = "bsses" /\ job[c] = "ended"
    /\ IF out[c] = "Ok"
       THEN Await(c, "context", "context") /\ UNCHANGED holder
       ELSE Return(c, out[c]) /\ UNCHANGED job
    /\ UNCHANGED <<osVars, before, bound, guard, faults>>

\* MUTANT: the output of a job nobody waits for is forgotten, not dropped.
OutputForgotten(c) ==
    IF guard[c] = "output" THEN [guard EXCEPT ![c] = "lost"] ELSE guard

\* Dropping the future drops the output of a job that has ended.
OutputDropped(c) ==
    IF guard[c] = "output" THEN [guard EXCEPT ![c] = "unregister"] ELSE guard

\* The caller drops the future at an await; its job goes on.
Cancel(c) ==
    /\ pc[c] \notin {"idle", "done"}
    /\ Return(c, "Cancelled")
    /\ guard' = OutputDropped(c)
    /\ UNCHANGED <<osVars, job, before, bound, faults>>

\* The caller drops the WifiConnection.
DropConnection(c) ==
    /\ guard[c] = "held"
    /\ guard' = [guard EXCEPT ![c] = "unregister"]
    /\ UNCHANGED <<osVars, callVars, jobVars, faults>>

-----------------------------------------------------------------------------
(* connect_via_specifier, on the blocking pool.                            *)

\* The job returns r; its locals are gone, and nobody takes r if the future is.
JobEnds(c, r) ==
    /\ job' = [job EXCEPT ![c] = "ended"]
    /\ out' = [out EXCEPT ![c] = IF pc[c] = "done" THEN "none" ELSE r]
    /\ before' = [before EXCEPT ![c] = {}]
    /\ bound' = [bound EXCEPT ![c] = None]

JobGoesOn(c, next) ==
    /\ job' = [job EXCEPT ![c] = next]
    /\ UNCHANGED <<out, before, bound>>

\* MUTANT: the networks that are already there are not remembered.
NoHandles == {}

\* network_handles.
network_handles == Live

\* MUTANT: a stale binding is cleared before the request.
SnapshotUnbinds(c) ==
    /\ job[c] = "snapshot"
    /\ before' = [before EXCEPT ![c] = network_handles]
    /\ job' = [job EXCEPT ![c] = "request"]
    /\ binding' = None
    /\ Works /\ UNCHANGED <<out, bound, nets, registered, scanVars, callVars, guard>>

\* The handles that exist before the request; a non-UTF-8 SSID ends here.
TakeSnapshot(c) ==
    /\ job[c] = "snapshot"
    /\ \/ /\ before' = [before EXCEPT ![c] = network_handles]
          /\ job' = [job EXCEPT ![c] = "request"]
          /\ Works /\ UNCHANGED <<out, bound>>
       \/ JobEnds(c, "Unsupported") /\ Works
       \/ JobEnds(c, "Os") /\ Fails
    /\ UNCHANGED <<osVars, callVars, guard>>

\* request_network: it may fail before the callback is registered, or after,
\* when the reference to the callback cannot be made.
request_network(c) ==
    /\ job[c] = "request"
    /\ \/ /\ RequestNetwork(c)
          /\ \/ /\ guard' = [guard EXCEPT ![c] = "poller"]
                /\ JobGoesOn(c, "poll") /\ Works
             \/ /\ guard' = [guard EXCEPT ![c] = "lost"]
                /\ JobEnds(c, "Os") /\ Fails
       \/ JobEnds(c, "Os") /\ Fails /\ UNCHANGED <<registered, guard>>
    /\ UNCHANGED <<nets, binding, scanVars, callVars>>

\* What try_bind_new_wifi may bind: in the order of getAllNetworks, which is
\* not specified, so any of them.
NewWifi(c) == Live \ before[c]

\* try_bind_new_wifi: the first new network that can be bound is, if any can.
\* An error, before or after the binding, ends the job by `?`: the callback is
\* dropped without Drop's calls.
try_bind_new_wifi(c) ==
    /\ job[c] = "poll" /\ bound[c] = None
    /\ \/ /\ \E n \in NewWifi(c) :
                /\ bound' = [bound EXCEPT ![c] = n]
                /\ binding' = n
          /\ job' = [job EXCEPT ![c] = "deadline"]
          /\ Works /\ UNCHANGED <<out, before, guard>>
       \/ JobGoesOn(c, "deadline") /\ Works /\ UNCHANGED <<binding, guard>>
       \/ /\ JobEnds(c, "Os") /\ Fails
          /\ binding' \in {binding} \cup NewWifi(c)
          /\ guard' = [guard EXCEPT ![c] = "lost"]
    /\ UNCHANGED <<nets, registered, scanVars, callVars>>

\* network_has_ipv4 of the bound network: its address ends the job with Ok.
network_has_ipv4(c) ==
    /\ job[c] = "poll" /\ bound[c] # None
    /\ \/ /\ nets[bound[c]] = "ip" /\ Works
          /\ JobEnds(c, "Ok")
          /\ guard' = [guard EXCEPT ![c] =
                 IF pc[c] = "specifier" THEN "output" ELSE "unregister"]
       \/ /\ nets[bound[c]] # "ip" /\ Works
          /\ JobGoesOn(c, "deadline") /\ UNCHANGED guard
       \/ /\ JobEnds(c, "Os") /\ Fails
          /\ guard' = [guard EXCEPT ![c] = "lost"]
    /\ UNCHANGED <<osVars, callVars>>

\* The deadline has not passed: sleep, and poll again.
PollAgain(c) ==
    /\ job[c] = "deadline"
    /\ JobGoesOn(c, "poll")
    /\ UNCHANGED <<osVars, callVars, guard, faults>>

\* MUTANT: the timeout returns without dropping the guard.
TimeoutKeepsGuard(c) ==
    /\ job[c] = "deadline"
    /\ JobEnds(c, "Timeout")
    /\ UNCHANGED <<osVars, callVars, guard, faults>>

\* The deadline has passed: the guard is dropped first.
DeadlinePasses(c) ==
    /\ job[c] = "deadline"
    /\ JobGoesOn(c, "release")
    /\ guard' = [guard EXCEPT ![c] = "unregister"]
    /\ UNCHANGED <<osVars, callVars, faults>>

\* MUTANT: the error of the timer reaches the caller as it is.
ElapsedIsRaw(c) ==
    /\ job[c] = "release" /\ guard[c] \in {"dropped", "lost"}
    /\ JobEnds(c, "Elapsed")
    /\ UNCHANGED <<osVars, callVars, guard, faults>>

\* The guard is gone: Timeout.
TimesOut(c) ==
    /\ job[c] = "release" /\ guard[c] \in {"dropped", "lost"}
    /\ JobEnds(c, "Timeout")
    /\ UNCHANGED <<osVars, callVars, guard, faults>>

-----------------------------------------------------------------------------
(* Drop of SpecifierGuard: two calls, whose errors are ignored.            *)

\* MUTANT: Drop gives the network back and leaves the process bound to it.
UnregisterOnly(c) ==
    /\ guard[c] = "unregister"
    /\ UnregisterCallback(c) /\ guard' = [guard EXCEPT ![c] = "dropped"] /\ Works
    /\ UNCHANGED <<binding, scanVars, callVars, jobVars>>

Unregister(c) ==
    /\ guard[c] = "unregister"
    /\ \/ UnregisterCallback(c) /\ guard' = [guard EXCEPT ![c] = "unbind"] /\ Works
       \/ /\ guard' = [guard EXCEPT ![c] = "lost"] /\ Fails
          /\ UNCHANGED <<nets, registered>>
    /\ UNCHANGED <<binding, scanVars, callVars, jobVars>>

\* Whatever the process is bound to, it is not any more.
Unbind(c) ==
    /\ guard[c] = "unbind"
    /\ guard' = [guard EXCEPT ![c] = "dropped"]
    /\ \/ binding' = None /\ Works
       \/ UNCHANGED binding /\ Fails
    /\ UNCHANGED <<nets, registered, scanVars, callVars, jobVars>>

-----------------------------------------------------------------------------
(* fetch_bsses_blocking and fetch_scan_context_blocking.                   *)

\* MUTANT: the scan is started before the receiver is registered.
StartBeforeListening(step) ==
    CASE step = "permission" -> "start" [] step = "start" -> "listen"
      [] step = "listen" -> "waiting"

\* A forced scan registers its receiver before it starts the scan.
NextStep(step) ==
    CASE step = "permission" -> "listen" [] step = "listen" -> "start"
      [] step = "start" -> "waiting"

\* host_can_scan, and the WifiManager.
CheckPermission(c) ==
    /\ job[c] = "permission"
    /\ \/ JobGoesOn(c, IF req[c].force THEN NextStep("permission") ELSE "read")
              /\ Works
       \/ JobEnds(c, "PermissionDenied") /\ Works
       \/ JobEnds(c, "Os") /\ Fails
    /\ UNCHANGED <<osVars, callVars, guard>>

\* A receiver that cannot be registered only skips the forced scan.
Listen(c) ==
    /\ job[c] = "listen"
    /\ \/ /\ receivers' = [receivers EXCEPT ![c] = "SCAN_RESULTS_AVAILABLE"]
          /\ JobGoesOn(c, NextStep("listen")) /\ Works
       \/ JobGoesOn(c, "read") /\ Fails /\ UNCHANGED receivers
    /\ UNCHANGED <<linkVars, scanning, news, callVars, guard>>

\* The receiver of call c is dropped.
NoReceiver(c) == [receivers EXCEPT ![c] = "none"]

\* startScan; its Boolean result is not looked at.  After an error the receiver
\* is dropped, which may fail too.
StartScan(c) ==
    /\ job[c] = "start"
    /\ \/ /\ scanning' = scanning \cup {c}
          /\ JobGoesOn(c, NextStep("start"))
          /\ Works /\ UNCHANGED receivers
       \/ /\ JobGoesOn(c, "read") /\ receivers' \in {NoReceiver(c), receivers}
          /\ Fails /\ UNCHANGED scanning
    /\ UNCHANGED <<linkVars, news, callVars, guard>>

\* block_on_oneshot returns: a broadcast came, or PER_SCAN_DEADLINE passed.
\* The receiver is dropped; it stays registered if that fails.
StopWaiting(c) ==
    /\ job[c] = "waiting"
    /\ \/ receivers' = NoReceiver(c) /\ Works
       \/ UNCHANGED receivers /\ Fails
    /\ news' = news \ {c}
    /\ JobGoesOn(c, "read")
    /\ UNCHANGED <<linkVars, scanning, callVars, guard>>

\* read_scan_results_rich: an error is an empty list.
ReadResults(c) ==
    /\ job[c] = "read"
    /\ JobEnds(c, "Ok")
    /\ Works \/ Fails
    /\ UNCHANGED <<osVars, callVars, guard>>

\* fetch_scan_context_blocking: an unreadable connection counts as none.
ReadContext(c) ==
    /\ job[c] = "context"
    /\ \/ JobEnds(c, "Ok") /\ Works
       \/ JobEnds(c, "Os") /\ Fails
    /\ UNCHANGED <<osVars, callVars, guard>>

-----------------------------------------------------------------------------
\* The steps of the futures the runtime owes them.
Task(c) == AcquireLock(c) \/ LookUpSuggestion(c) \/ Finish(c) \/ FetchContext(c)

\* The steps of the jobs and of running Drops.
Thread(c) ==
    \/ TakeSnapshot(c) \/ request_network(c) \/ try_bind_new_wifi(c)
    \/ network_has_ipv4(c) \/ PollAgain(c) \/ DeadlinePasses(c) \/ TimesOut(c)
    \/ Unregister(c) \/ Unbind(c)
    \/ CheckPermission(c) \/ Listen(c) \/ StartScan(c) \/ StopWaiting(c)
    \/ ReadResults(c) \/ ReadContext(c)

Next ==
    \/ \E c \in Calls : \/ Start(c) \/ Cancel(c) \/ DropConnection(c)
                       \/ Task(c) \/ Thread(c)
    \/ Environment /\ UNCHANGED <<callVars, jobVars, guard, faults>>

Spec == Init /\ [][Next]_vars

-----------------------------------------------------------------------------
(* Correctness.                                                            *)

\* The call's request or binding may still be undone by its own Drop.
Alive(c) == guard[c] \in {"poller", "output", "held", "unregister", "unbind"}

\* A network request lives exactly as long as somebody will still release it:
\* a job that polls, a connection the caller holds or is about to get, or a
\* Drop that has not come to it.  Only a failed JNI call strands one
\* (wifi_specifier.rs: `?` while polling, and the ignored errors of Drop).
HasOwner(c) ==
    \/ guard[c] = "poller" /\ job[c] \in {"poll", "deadline"}
    \/ guard[c] = "output" /\ pc[c] = "specifier"
    \/ guard[c] \in {"held", "unregister"}

RequestsHaveOwners ==
    \A c \in Calls :
        /\ HasOwner(c) => c \in registered
        /\ c \in registered /\ faults = 0 => HasOwner(c)

\* When every connection is closed and every job has ended the process uses the
\* default network again, however the calls, cancellations and Drops overlapped
\* (wifi_specifier.rs, "Clear the process binding").
BindingIsCleared ==
    faults = 0 /\ (\A c \in Calls : ~Alive(c)) => binding = None

\* A connection loses or changes its binding only through another connect that
\* is polling, or another guard's Drop; a list or a failing call never does it.
BindingIsStable ==
    [][\A c \in Calls : guard[c] = "held" /\ guard'[c] = "held"
                        /\ binding' # binding =>
           \E d \in Calls \ {c} : guard[d] \in {"poller", "unbind"}]_vars

\* A receiver is registered before its scan is started, and for no longer than
\* the wait for the scan, whatever becomes of the list: dropped by its caller,
\* or failing (scan_receiver.rs, "Set up receiver BEFORE startScan").  Only a
\* failed JNI call leaves one registered.
ReceiversSpanScans ==
    \A c \in Calls :
        /\ job[c] \in {"start", "waiting"} => receivers[c] # "none"
        /\ receivers[c] # "none" /\ faults = 0 => job[c] \in {"start", "waiting"}

\* Only a list takes no lock; the others are serialized as AdapterLocks says.
Status(c) ==
    CASE pc[c] = "done" -> "done"
      [] pc[c] = "locking" -> "queued"
      [] pc[c] = "specifier" -> "inside"
      [] OTHER -> "idle"

Locks == INSTANCE AdapterLocks
         WITH Adapters <- {"wlan0"},
              on <- [c \in Calls |-> "wlan0"],
              status <- [c \in Calls |-> Status(c)]

\* The backend implements AdapterLocks: the futures of two operations are never
\* inside together (the jobs they left behind may be).
CallsAreSerialized == Locks!Spec

\* wifi_specifier.rs: the snapshot is there "so we can spot the one our request
\* brings up", and Ok means the process was bound to it.
OkIsOwnNetwork ==
    [][\A c \in Calls : req[c].kind = "connect"
                        /\ out[c] = "none" /\ out'[c] = "Ok" => bound[c] = c]_vars
=============================================================================
