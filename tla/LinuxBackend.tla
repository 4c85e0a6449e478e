---------------------------- MODULE LinuxBackend -----------------------------
(***************************************************************************)
(* platform/linux: concurrent calls on one LinuxBackend.  A call takes the *)
(* adapter lock and then awaits D-Bus replies; it has at most one request  *)
(* that changes the daemon's state (sent).  The daemon handles a request   *)
(* when it gets to it: it checks authorization asynchronously, so requests *)
(* of different calls take effect in any order, and a request whose caller *)
(* dropped the future, or got an error instead of the reply, still takes   *)
(* effect.                                                                 *)
(*                                                                         *)
(* Time is abstract: the deadline of the final wait may pass whenever the  *)
(* signal stream holds no terminal state.                                  *)
(***************************************************************************)
EXTENDS NetworkManager

CONSTANTS
    Kinds,      \* the operations the calls may be
    Reasons     \* NMActiveConnectionStateReason values

AllKinds == {"connect", "stored", "disconnect", "remove", "list"}

ASSUME KindsAssumption == Kinds \subseteq AllKinds

VARIABLES
    req,        \* per call, what it asks for
    pc,         \* per call, the await its future is suspended at
    unseen,     \* per call, whether the pre-flight ended NotVisible
    found,      \* per call, the objects its list request returned, then the
                \* one its walk matched
    sent,       \* per call, its request the daemon has not handled
    heard,      \* per call, the first terminal StateChanged in its stream
    holder,     \* adapter_locks: per device, the call that holds the lock
    result      \* per call, what it returned, or how it ended

callVars == <<req, pc, unseen, found, sent, heard, holder, result>>
vars == <<nmVars, callVars>>

Requests == [kind : Kinds, dev : Devices, ssid : Ssids]
Methods == {"add", "activate", "deactivate", "delete"}
Signals == [state : {"activated", "deactivated"}, reason : Reasons]
Places == {"idle", "locking", "resolve", "preflight", "list", "snapshot",
           "walk", "reply", "subscribe", "read", "wait", "blind", "done"}

\* Os stands for whatever from_zbus makes of a D-Bus error.
Errors == {"AuthenticationFailed", "SsidNotInRange", "UserCancelled", "Os",
           "Timeout", "NoStoredCredentials", "AdapterNotFound"}
Results == {"Ok", "True", "False", "Cancelled"} \cup Errors

\* Every variable has the type of its Rust or D-Bus counterpart.
TypeOK ==
    /\ NetworkTypeOK
    /\ req \in [Calls -> Requests]
    /\ pc \in [Calls -> Places]
    /\ unseen \in [Calls -> BOOLEAN]
    /\ found \in [Calls -> SUBSET (Acts \cup Profiles)]
    /\ sent \in [Calls -> Methods \cup {"none"}]
    /\ heard \in [Calls -> Signals \cup {None}]
    /\ holder \in [Devices -> Calls \cup {None}]
    /\ result \in [Calls -> Results \cup {"none"}]

ASSUME AbsenceAssumption ==
    None \notin Calls \cup Autos \cup Stored \cup Signals

Init ==
    /\ NetworkInit
    /\ req \in [Calls -> Requests]
    /\ pc = [c \in Calls |-> "idle"]
    /\ unseen = [c \in Calls |-> FALSE]
    /\ found = [c \in Calls |-> {}]
    /\ sent = [c \in Calls |-> "none"]
    /\ heard = [c \in Calls |-> None]
    /\ holder = [d \in Devices |-> None]
    /\ result = [c \in Calls |-> "none"]

-----------------------------------------------------------------------------
Dev(c) == req[c].dev
Ssid(c) == req[c].ssid

\* In the final wait: with the current state read before it, or without
\* ("blind"), the read having failed.
Waiting(c) == pc[c] \in {"wait", "blind"}

\* receive_nm_state_changed has returned and its stream is alive.
Subscribed(c) == pc[c] = "read" \/ Waiting(c)

\* The end of a call: its locals are dropped, the lock guard last.
Return(c, r) ==
    /\ pc' = [pc EXCEPT ![c] = "done"]
    /\ result' = [result EXCEPT ![c] = r]
    /\ unseen' = [unseen EXCEPT ![c] = FALSE]
    /\ holder' = IF holder[Dev(c)] = c
                 THEN [holder EXCEPT ![Dev(c)] = None] ELSE holder
    /\ UNCHANGED req

\* The future moves on to its next await.
Await(c, p) ==
    /\ pc' = [pc EXCEPT ![c] = p]
    /\ UNCHANGED <<req, unseen, holder, result>>

\* MUTANT: a reason without a mapping reaches the caller as it is.
RawReason(r) == r

\* map_state_reason, and the default terminal_state_to_error gives it.
map_state_reason(r) ==
    IF r = "USER_DISCONNECTED" THEN "UserCancelled" ELSE "AuthenticationFailed"

\* terminal_state_to_error for a signal; connect_with_credentials turns a
\* rejection of a network it had not seen into SsidNotInRange.
Outcome(c) ==
    LET mapped == map_state_reason(heard[c].reason) IN
    IF heard[c].state = "activated" THEN "Ok"
    ELSE IF mapped = "AuthenticationFailed" /\ unseen[c] THEN "SsidNotInRange"
    ELSE mapped

-----------------------------------------------------------------------------
(* Calls begin and end.                                                    *)

\* The caller polls the future: the D-Bus proxies are built, then the lock.
Start(c) ==
    /\ pc[c] = "idle"
    /\ Await(c, "locking") \/ Return(c, "Os")
    /\ UNCHANGED <<nmVars, found, sent, heard>>

\* MUTANT: the call does not take the adapter lock.
LockIgnored(c) == TRUE

\* The tokio mutex that adapter_lock finds for the adapter is free.
LockFree(c) == holder[Dev(c)] = None

AcquireLock(c) ==
    /\ pc[c] = "locking"
    /\ LockFree(c)
    /\ holder' = [holder EXCEPT ![Dev(c)] = c]
    /\ pc' = [pc EXCEPT ![c] =
           IF req[c].kind = "remove" THEN "snapshot" ELSE "resolve"]
    /\ UNCHANGED <<nmVars, req, unseen, found, sent, heard, result>>

\* The caller drops the future at an await.  A request already sent stays.
Cancel(c) ==
    /\ pc[c] \notin {"idle", "done"}
    /\ Return(c, "Cancelled")
    /\ found' = IF sent[c] = "none" THEN [found EXCEPT ![c] = {}] ELSE found
    /\ heard' = [heard EXCEPT ![c] = None]
    /\ UNCHANGED <<nmVars, sent>>

-----------------------------------------------------------------------------
(* Reading: the device, the pre-flight scan, the lists.                    *)

\* resolve_device_path.
Resolve(c) ==
    /\ pc[c] = "resolve"
    /\ \/ Await(c, CASE req[c].kind = "connect" -> "preflight"
                     [] req[c].kind = "list" -> "list"
                     [] OTHER -> "snapshot")
       \/ Return(c, "AdapterNotFound")
       \/ Return(c, "Os")
    /\ UNCHANGED <<nmVars, found, sent, heard>>

\* The pre-flight ends, and AddAndActivateConnection is sent whatever it saw.
Preflight(c) ==
    /\ pc[c] = "preflight"
    /\ \E b \in BOOLEAN : unseen' = [unseen EXCEPT ![c] = b]
    /\ pc' = [pc EXCEPT ![c] = "reply"]
    /\ sent' = [sent EXCEPT ![c] = "add"]
    /\ UNCHANGED <<nmVars, req, found, heard, holder, result>>

\* fetch_bsses and fetch_scan_context.
List(c) ==
    /\ pc[c] = "list"
    /\ Return(c, "Ok") \/ Return(c, "Os")
    /\ UNCHANGED <<nmVars, found, sent, heard>>

\* ListConnections, or ActiveConnections for a disconnect.
Snapshot(c) ==
    /\ pc[c] = "snapshot"
    /\ \/ /\ found' = [found EXCEPT ![c] =
                 IF req[c].kind = "disconnect"
                 THEN {a \in Acts : state[a] \notin {"none", "gone"}}
                 ELSE {p \in Profiles : saved[p] # None}]
          /\ Await(c, "walk")
       \/ Return(c, "Os") /\ UNCHANGED found
    /\ UNCHANGED <<nmVars, sent, heard>>

\* What is left of the list and matches: a profile for the SSID, or an
\* activation on the device whose access point has the SSID.
Matches(c) ==
    IF req[c].kind = "disconnect"
    THEN {a \in found[c] : /\ state[a] # "gone"
                           /\ link[a].dev = Dev(c)
                           /\ apKnown[a] /\ link[a].ssid = Ssid(c)}
    ELSE {p \in found[c] : saved[p] = Ssid(c)}

\* The walk over the list, up to its first match (any: the order is the
\* daemon's) and the request it leads to.  An entry whose properties cannot be
\* read is skipped, a match too; an error of a proxy ends the walk.
Walk(c) ==
    /\ pc[c] = "walk"
    /\ \/ \E x \in Matches(c) :
             /\ found' = [found EXCEPT ![c] = {x}]
             /\ sent' = [sent EXCEPT ![c] =
                    CASE req[c].kind = "stored" -> "activate"
                      [] req[c].kind = "disconnect" -> "deactivate"
                      [] OTHER -> "delete"]
             /\ Await(c, "reply")
       \/ /\ found' = [found EXCEPT ![c] = {}]
          /\ \/ Return(c, CASE req[c].kind = "stored" -> "NoStoredCredentials"
                            [] req[c].kind = "disconnect" -> "Ok"
                            [] OTHER -> "False")
             \/ Return(c, "Os")
          /\ UNCHANGED sent
    /\ UNCHANGED <<nmVars, heard>>

-----------------------------------------------------------------------------
(* The daemon handles requests; signals reach the streams.                 *)

\* MUTANT: the streams are not filtered by the path of the activation.
EmitUnfiltered ==
    \E r \in Reasons, a \in Acts : heard' = [c \in Calls |->
        IF /\ Subscribed(c) /\ heard[c] = None
           /\ state'[a] # state[a] /\ state'[a] \in {"activated", "deactivated"}
        THEN [state |-> state'[a], reason |-> r] ELSE heard[c]]

\* Terminal StateChanged signals of a step, put into the streams on the
\* activation's path; only the first is ever looked at.
Emit ==
    \E r \in Reasons : heard' = [c \in Calls |->
        IF /\ Subscribed(c) /\ heard[c] = None
           /\ state'[c] # state[c] /\ state'[c] # "gone"
        THEN [state |-> state'[c], reason |-> r] ELSE heard[c]]

\* MUTANT: the device is disconnected, not the activation that was found.
EffectOnDevice(c) ==
    \/ sent[c] = "add" /\ AddAndActivate(c, Dev(c), Ssid(c))
    \/ sent[c] = "deactivate" /\ \E a \in LiveOn(Dev(c)) : Deactivate(a)
    \/ \E x \in found[c] :
          \/ sent[c] = "activate" /\ Activate(c, Dev(c), x)
          \/ sent[c] = "delete" /\ Delete(x)

\* The effect of call c's request on the daemon.
Effect(c) ==
    \/ sent[c] = "add" /\ AddAndActivate(c, Dev(c), Ssid(c))
    \/ \E x \in found[c] :
          \/ sent[c] = "activate" /\ Activate(c, Dev(c), x)
          \/ sent[c] = "deactivate" /\ Deactivate(x)
          \/ sent[c] = "delete" /\ Delete(x)

\* What the call does once its request succeeded.
Continue(c) ==
    CASE sent[c] \in {"add", "activate"} -> Await(c, "subscribe")
      [] sent[c] = "deactivate" -> Return(c, "Ok")
      [] sent[c] = "delete" -> Return(c, "True")

\* What the call returns for an error in place of a reply: any error counts,
\* and a network the pre-flight had not seen turns it into SsidNotInRange.
Failed(c) == IF unseen[c] THEN "SsidNotInRange" ELSE "Os"

\* The caller gets an error that is not the daemon's answer (no reply, the
\* transport): the request may have been handled, or be handled later.
ReplyFails(c) ==
    /\ pc[c] = "reply"
    /\ Return(c, Failed(c))
    /\ UNCHANGED <<nmVars, found, sent, heard>>

\* The daemon handles a request and, if the caller is still there, the reply
\* wakes it.  Any request may be refused.
Handle(c) ==
    /\ sent[c] # "none"
    /\ sent' = [sent EXCEPT ![c] = "none"]
    /\ \/ /\ Effect(c)
          /\ Emit
          /\ IF pc[c] = "reply" THEN Continue(c)
             ELSE UNCHANGED <<req, pc, unseen, holder, result>>
       \/ /\ UNCHANGED <<nmVars, heard>>
          /\ IF pc[c] = "reply" THEN Return(c, Failed(c))
             ELSE UNCHANGED <<req, pc, unseen, holder, result>>
    /\ found' = [found EXCEPT ![c] = {}]

\* What the daemon and the radio do by themselves.
Daemon(a) ==
    /\ FindsAp(a) \/ Succeeds(a) \/ Fails(a) \/ Vanishes(a)
           \/ ActivatesByItself(a)
    /\ Emit
    /\ UNCHANGED <<req, pc, unseen, found, sent, holder, result>>

-----------------------------------------------------------------------------
(* wait_for_active_connection.                                             *)

Subscribe(c) ==
    /\ pc[c] = "subscribe"
    /\ Await(c, "read") \/ Return(c, "Os")
    /\ UNCHANGED <<nmVars, found, sent, heard>>

\* MUTANT: the current state is not read after the subscription.
ReadSkipped(c) ==
    /\ pc[c] = "read"
    /\ Await(c, "wait")
    /\ UNCHANGED <<nmVars, found, sent, heard>>

\* The state is read once; a read that fails is ignored, whatever failed it
\* (the object has left the bus, the daemon or the transport).
ReadState(c) ==
    /\ pc[c] = "read"
    /\ \/ /\ (state[c] = "activating" /\ Await(c, "wait")) \/ Await(c, "blind")
          /\ UNCHANGED heard
       \/ /\ \/ state[c] = "activated" /\ Return(c, "Ok")
             \/ state[c] = "deactivated" /\ Return(c, "Os")
          /\ heard' = [heard EXCEPT ![c] = None]
    /\ UNCHANGED <<nmVars, found, sent>>

\* The stream yields a terminal state.
WaitEnds(c) ==
    /\ Waiting(c)
    /\ heard[c] # None
    /\ Return(c, Outcome(c))
    /\ heard' = [heard EXCEPT ![c] = None]
    /\ UNCHANGED <<nmVars, found, sent>>

\* The connection to the bus is lost while the stream is empty.
StreamCloses(c) ==
    /\ Waiting(c)
    /\ heard[c] = None
    /\ Return(c, "Os")
    /\ UNCHANGED <<nmVars, found, sent, heard>>

\* MUTANT: the wait has no deadline.
NoTimeout(c) == FALSE

\* MUTANT: a timeout of a network that was not seen is called out of range.
TimeoutPromoted(c) ==
    /\ Waiting(c)
    /\ heard[c] = None
    /\ Return(c, IF unseen[c] THEN "SsidNotInRange" ELSE "Timeout")
    /\ UNCHANGED <<nmVars, found, sent, heard>>

\* The deadline passes.  The daemon is not told: the activation goes on.
WaitTimeout(c) ==
    /\ Waiting(c)
    /\ heard[c] = None
    /\ Return(c, "Timeout")
    /\ UNCHANGED <<nmVars, found, sent, heard>>

\* The steps the runtime owes a call.
Task(c) ==
    \/ AcquireLock(c) \/ Resolve(c) \/ Preflight(c) \/ List(c)
    \/ Snapshot(c) \/ Walk(c)
    \/ Subscribe(c) \/ ReadState(c) \/ WaitEnds(c) \/ WaitTimeout(c)

Next ==
    \/ \E c \in Calls : \/ Start(c) \/ Cancel(c) \/ Task(c)
                       \/ Handle(c) \/ ReplyFails(c) \/ StreamCloses(c)
    \/ \E a \in Acts : Daemon(a)

Spec == Init /\ [][Next]_vars

\* The runtime polls woken tasks and fires timers, and the daemon answers
\* every request; zbus itself puts no deadline on a reply.
FairSpec == Spec /\ \A c \in Calls : WF_vars(Task(c)) /\ WF_vars(Handle(c))

-----------------------------------------------------------------------------
(* Correctness.                                                            *)

IsConnect(c) == req[c].kind \in {"connect", "stored"}

\* A connect that returns Ok did reach ACTIVATED with its own activation: an
\* activation of another call, of the daemon, or of another device never
\* answers for it (state_wait.rs subscribes on the activation's own path).
OkMeansOwnActivation ==
    \A c \in Calls : IsConnect(c) /\ result[c] = "Ok" => up[c]

\* No terminal state falls between the request, the subscription and the read:
\* a waiter that read the state and has an empty stream waits for an activation
\* that still goes on (state_wait.rs, "Subscribe BEFORE reading").
NoOutcomeIsMissed ==
    \A c \in Calls : pc[c] = "wait" /\ heard[c] = None => state[c] = "activating"

Definite == {"AuthenticationFailed", "UserCancelled", "SsidNotInRange"}

\* A definite failure that the final wait reports leaves no activation going on
\* behind the caller's back: a timeout, a closed stream and a failed read are
\* never reported as one (connect.rs, state_wait.rs).  What AddAndActivate's
\* own error is turned into is no such failure.
FailureIsFinal ==
    [][\A c \in Calls :
          Waiting(c) /\ result'[c] \in Definite => state[c] \notin Live]_vars

\* A disconnect or a remove_profile never touches another network, even when
\* the daemon changed connections between the walk and the request: nothing
\* else is deactivated, no other profile deleted (disconnect.rs).
RequestsAreTargeted ==
    [][\A c \in Calls :
          sent[c] \in {"deactivate", "delete"} /\ sent'[c] = "none" =>
              /\ \A a \in Acts : state'[a] # state[a] => link[a].ssid = Ssid(c)
              /\ \A p \in Profiles : saved'[p] # saved[p] => saved[p] = Ssid(c)]_vars

\* Every call that is polled returns, although an activation may never end.
CallsReturn == \A c \in Calls : pc[c] = "locking" ~> pc[c] = "done"

\* Calls on one device are serialized, as AdapterLocks states it.
Status(c) == CASE pc[c] = "idle" -> "idle"
               [] pc[c] = "locking" -> "queued"
               [] pc[c] = "done" -> "done"
               [] OTHER -> "inside"

Locks == INSTANCE AdapterLocks
         WITH Adapters <- Devices,
              on <- [c \in Calls |-> Dev(c)],
              status <- [c \in Calls |-> Status(c)]

\* The backend implements AdapterLocks: no operation enters a device another
\* one is in (the tokio mutex of adapter_lock).
CallsAreSerialized == Locks!Spec

-----------------------------------------------------------------------------
(* What a doc says and the code does not ensure.                           *)

\* api.rs, on remove_profile: it removes the stored profile for the SSID.
\* Ok(true) with no connect since means no stored profile is left.
RemovedMeansGone ==
    [][\A c \in Calls :
          result[c] = "none" /\ result'[c] = "True" =>
              \A p \in Profiles : saved'[p] # Ssid(c)]_vars

-----------------------------------------------------------------------------
(* The inductive invariant behind the safety properties.                   *)

\* Between the acquisition of the lock and the end of the call.
Busy(c) == pc[c] \notin {"idle", "locking", "done"}

LockInv ==
    /\ \A c \in Calls : Busy(c) => holder[Dev(c)] = c
    /\ \A d \in Devices : holder[d] # None => /\ Dev(holder[d]) = d
                                            /\ Busy(holder[d])

\* What the daemon knows: an activation and the profile it uses agree, and a
\* profile of a connect comes with that connect's activation.
DaemonInv ==
    /\ \A a \in Acts : (state[a] = "none") <=> (link[a] = None)
    /\ \A a \in Acts : state[a] = "activated" => up[a]
    /\ \A c \in Calls : saved[c] # None => link[c] # None
    /\ \A a \in Acts : link[a] # None =>
           LET p == link[a].prof IN
           /\ saved[p] \in {None, link[a].ssid}
           /\ p \in Calls => link[p] # None

\* How a call may end whose request is still to be handled.
Dropped == {"Cancelled", "SsidNotInRange", "Os"}

\* Where a connect follows the activation its request started.
Following == {"subscribe", "read", "wait", "blind"}

\* A request not handled yet belongs to a call that awaits it, or did when it
\* ended, and the call has no activation.
SentInv ==
    \A c \in Calls :
        /\ pc[c] = "reply" => sent[c] # "none"
        /\ sent[c] # "none" => \/ pc[c] = "reply"
                               \/ pc[c] = "done" /\ result[c] \in Dropped
        /\ sent[c] # "none" \/ pc[c] \notin Following \cup {"done"}
               => link[c] = None
        /\ sent[c] = "deactivate" => req[c].kind = "disconnect"
        /\ pc[c] = "list" => req[c].kind = "list"
        /\ pc[c] # "done" => result[c] = "none"

\* What a walk matched stays what it was, or goes away.
MatchInv ==
    \A c \in Calls : \A x \in found[c] :
        /\ pc[c] = "walk" => IF req[c].kind = "disconnect"
                             THEN x \in Acts /\ link[x] # None
                             ELSE x \in Profiles
        /\ sent[c] = "activate" => x \in Profiles
        /\ sent[c] = "deactivate" =>
               x \in Acts /\ link[x] # None /\ link[x].ssid = Ssid(c)
        /\ sent[c] = "delete" =>
               /\ x \in Profiles
               /\ saved[x] \in {None, Ssid(c)}
               /\ x \in Calls => link[x] # None

\* The stream of a call holds a terminal state of its own activation.
StreamInv ==
    \A c \in Calls :
        /\ pc[c] \in Following => link[c] # None
        /\ heard[c] # None =>
               /\ Subscribed(c)
               /\ heard[c].state = "activated" => up[c]
               /\ heard[c].state = "deactivated" =>
                      state[c] \in {"deactivated", "gone"}

IInv ==
    /\ TypeOK
    /\ LockInv
    /\ DaemonInv
    /\ SentInv
    /\ MatchInv
    /\ StreamInv
    /\ OkMeansOwnActivation
    /\ NoOutcomeIsMissed
=============================================================================
