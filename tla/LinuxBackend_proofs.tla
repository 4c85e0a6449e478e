------------------------ MODULE LinuxBackend_proofs --------------------------
(***************************************************************************)
(* Proofs about LinuxBackend, for any sets of calls, devices, SSIDs,       *)
(* reasons, foreign activations and stored profiles.                       *)
(***************************************************************************)
EXTENDS LinuxBackend, TLAPS

-----------------------------------------------------------------------------
(* What the daemon's steps do to the activations and the profiles.         *)

\* Activation b starts: it is new, and the others go on or are replaced.
Started(b) ==
    /\ link[b] = None
    /\ state' \in [Acts -> ActStates] /\ state'[b] = "activating"
    /\ \A a \in Acts \ {b} :
           state'[a] = state[a] \/ (state[a] \in Live /\ state'[a] = "deactivated")
    /\ link' \in [Acts -> Links \cup {None}] /\ link'[b] # None
    /\ \A a \in Acts \ {b} : link'[a] = link[a]
    /\ UNCHANGED <<apKnown, up>>

LEMMA BeginStarts ==
    ASSUME NetworkTypeOK, NEW b \in Acts, NEW d \in Devices, NEW s \in Ssids,
           NEW p \in Profiles, Begin(b, d, s, p)
    PROVE  /\ Started(b)
           /\ link'[b] = [dev |-> d, ssid |-> s, prof |-> p]
<1>1. [dev |-> d, ssid |-> s, prof |-> p] \in Links
  BY DEF Links
<1>2. [dev |-> d, ssid |-> s, prof |-> p] # None
  BY <1>1, NoneAssumption
<1>3. link' = [link EXCEPT ![b] = [dev |-> d, ssid |-> s, prof |-> p]]
  BY DEF Begin
<1>4. link' \in [Acts -> Links \cup {None}]
  BY <1>1, <1>3 DEF NetworkTypeOK
<1>5. state' \in [Acts -> ActStates]
  BY DEF NetworkTypeOK, Begin, ActStates
<1>6. /\ state'[b] = "activating"
      /\ \A a \in Acts \ {b} :
             state'[a] = state[a] \/ (state[a] \in Live /\ state'[a] = "deactivated")
  BY DEF NetworkTypeOK, Begin, LiveOn
<1>7. /\ link'[b] = [dev |-> d, ssid |-> s, prof |-> p]
      /\ \A a \in Acts \ {b} : link'[a] = link[a]
  BY <1>3 DEF NetworkTypeOK
<1>8. link[b] = None /\ UNCHANGED <<apKnown, up>>
  BY DEF Begin
<1>9. QED
  BY <1>2, <1>4, <1>5, <1>6, <1>7, <1>8 DEF Started

\* A step of the daemon that starts nothing: activations only move forward.
Moved ==
    /\ UNCHANGED link
    /\ state' \in [Acts -> ActStates]
    /\ apKnown' \in [Acts -> BOOLEAN]
    /\ up' \in [Acts -> BOOLEAN]
    /\ \A a \in Acts :
           \/ state'[a] = state[a] /\ up'[a] = up[a]
           \/ state[a] \in Live /\ state'[a] = "deactivated" /\ up'[a] = up[a]
           \/ state[a] = "activating" /\ state'[a] = "activated" /\ up'[a]
           \/ state[a] = "deactivated" /\ state'[a] = "gone" /\ up'[a] = up[a]

LEMMA EndMoves ==
    ASSUME NetworkTypeOK, NEW S \in SUBSET {a \in Acts : state[a] \in Live}, End(S)
    PROVE  Moved
BY DEF NetworkTypeOK, End, Moved, ActStates

LEMMA DaemonMoves ==
    ASSUME NetworkTypeOK, NEW a \in Acts,
           FindsAp(a) \/ Succeeds(a) \/ Fails(a) \/ Vanishes(a)
    PROVE  Moved /\ UNCHANGED saved
<1>1. CASE FindsAp(a)
  BY <1>1 DEF NetworkTypeOK, FindsAp, Moved
<1>2. CASE Succeeds(a)
  BY <1>2 DEF NetworkTypeOK, Succeeds, Moved, ActStates
<1>3. CASE Fails(a)
  BY <1>3, EndMoves DEF Fails
<1>4. CASE Vanishes(a)
  BY <1>4 DEF NetworkTypeOK, Vanishes, Moved, ActStates
<1>5. QED
  BY <1>1, <1>2, <1>3, <1>4

\* One step of the daemon, for call or activation b: it starts b, or moves.
NmStep(b) ==
    \/ Started(b) /\ \E p \in Profiles :
           /\ link'[b].prof = p
           /\ \/ p = b /\ b \in Calls /\ saved' = [saved EXCEPT ![b] = link'[b].ssid]
              \/ saved[p] = link'[b].ssid /\ UNCHANGED saved
    \/ Moved /\ UNCHANGED saved
    \/ Moved /\ \E p \in Profiles : saved' = [saved EXCEPT ![p] = None]

LEMMA AddStep ==
    ASSUME IInv, NEW c \in Calls, AddAndActivate(c, Dev(c), Ssid(c))
    PROVE  Started(c) /\ NmStep(c) /\ link'[c].ssid \in Ssids
<1>1. NetworkTypeOK /\ Dev(c) \in Devices /\ Ssid(c) \in Ssids
  BY DEF IInv, TypeOK, Requests, Dev, Ssid
<1>2. c \in Acts /\ c \in Profiles
  BY DEF Acts, Profiles
<1>3. /\ Started(c)
      /\ link'[c] = [dev |-> Dev(c), ssid |-> Ssid(c), prof |-> c]
  BY <1>1, <1>2, BeginStarts DEF AddAndActivate
<1>4. saved' = [saved EXCEPT ![c] = Ssid(c)]
  BY DEF AddAndActivate
<1>5. QED
  BY <1>1, <1>2, <1>3, <1>4 DEF NmStep

LEMMA ActivateStep ==
    ASSUME NetworkTypeOK, NEW b \in Acts, NEW d \in Devices, NEW p \in Profiles,
           Activate(b, d, p)
    PROVE  Started(b) /\ NmStep(b) /\ link'[b].ssid \in Ssids
<1>1. saved[p] \in Ssids
  BY DEF NetworkTypeOK, Activate
<1>2. /\ Started(b)
      /\ link'[b] = [dev |-> d, ssid |-> saved[p], prof |-> p]
  BY <1>1, BeginStarts DEF Activate
<1>3. QED
  BY <1>1, <1>2 DEF NmStep, Activate

LEMMA DeactivateStep ==
    ASSUME NetworkTypeOK, NEW a \in Acts, Deactivate(a)
    PROVE  Moved /\ UNCHANGED saved
BY EndMoves DEF Deactivate

LEMMA DeleteStep ==
    ASSUME NetworkTypeOK, NEW p \in Profiles, Delete(p)
    PROVE  Moved /\ saved' = [saved EXCEPT ![p] = None]
<1>1. End({a \in Acts : state[a] \in Live /\ link[a].prof = p})
  BY DEF Delete
<1>2. QED
  BY <1>1, EndMoves DEF Delete

\* A handled request is a step of the daemon for the call; what it starts is
\* the call's own activation.
LEMMA EffectStep ==
    ASSUME IInv, NEW c \in Calls, Effect(c)
    PROVE  /\ NmStep(c)
           /\ sent[c] \in {"add", "activate"} => Started(c)
           /\ sent[c] \in {"deactivate", "delete"} => Moved
           /\ sent[c] \in Methods
<1>0. NetworkTypeOK /\ Dev(c) \in Devices /\ c \in Acts
  BY DEF IInv, TypeOK, Requests, Dev, Acts
<1>1. CASE sent[c] = "add" /\ AddAndActivate(c, Dev(c), Ssid(c))
  BY <1>1, AddStep DEF Methods
<1>2. ASSUME NEW x \in found[c], sent[c] = "activate", Activate(c, Dev(c), x)
      PROVE  NmStep(c) /\ Started(c)
  BY <1>0, <1>2, ActivateStep DEF IInv, MatchInv
<1>3. ASSUME NEW x \in found[c], sent[c] = "deactivate", Deactivate(x)
      PROVE  NmStep(c) /\ Moved
  BY <1>0, <1>3, DeactivateStep DEF IInv, MatchInv, NmStep
<1>4. ASSUME NEW x \in found[c], sent[c] = "delete", Delete(x)
      PROVE  NmStep(c) /\ Moved
  BY <1>0, <1>4, DeleteStep DEF IInv, MatchInv, NmStep
<1>5. QED
  BY <1>1, <1>2, <1>3, <1>4 DEF Effect, Methods

\* What the daemon does by itself is a step for an activation no call owns, or
\* starts nothing.
LEMMA DaemonStep ==
    ASSUME IInv, NEW a \in Acts, Daemon(a)
    PROVE  (a \in Autos /\ NmStep(a)) \/ (Moved /\ UNCHANGED saved)
<1>1. NetworkTypeOK
  BY DEF IInv, TypeOK
<1>2. QED
  BY <1>1, DaemonMoves, ActivateStep DEF Daemon, ActivatesByItself

-----------------------------------------------------------------------------
(* Type correctness.                                                       *)

\* The steps of a call that no daemon takes part in.
Local(c) == Start(c) \/ Cancel(c) \/ Task(c) \/ ReplyFails(c) \/ StreamCloses(c)

LEMMA NmTypes ==
    ASSUME IInv, NEW b \in Acts, NmStep(b) \/ (Moved /\ UNCHANGED saved),
           Started(b) => link'[b].ssid \in Ssids
    PROVE  NetworkTypeOK'
BY DEF IInv, TypeOK, NetworkTypeOK, NmStep, Started, Moved

LEMMA CallTypes ==
    ASSUME TypeOK, NEW c \in Calls
    PROVE  Dev(c) \in Devices /\ Ssid(c) \in Ssids /\ req[c] \in Requests
BY DEF TypeOK, Requests, Dev, Ssid

\* Everything that changes when a call moves on or returns, heard apart.
CallTypeOK ==
    /\ req \in [Calls -> Requests]
    /\ pc \in [Calls -> Places]
    /\ unseen \in [Calls -> BOOLEAN]
    /\ holder \in [Devices -> Calls \cup {None}]
    /\ result \in [Calls -> Results \cup {"none"}]

LEMMA AwaitTypes ==
    ASSUME TypeOK, NEW c \in Calls, NEW p \in Places, Await(c, p)
    PROVE  CallTypeOK'
BY DEF TypeOK, CallTypeOK, Await

LEMMA ReturnTypes ==
    ASSUME TypeOK, NEW c \in Calls, NEW r \in Results, Return(c, r)
    PROVE  CallTypeOK'
BY CallTypes DEF TypeOK, CallTypeOK, Return, Places

LEMMA OutcomeType ==
    ASSUME NEW c PROVE Outcome(c) \in Results
BY DEF Outcome, map_state_reason, Results, Errors

LEMMA LocalTypes ==
    ASSUME IInv, NEW c \in Calls, Local(c)
    PROVE  TypeOK'
<1>0. TypeOK /\ CallTypeOK
  BY DEF IInv, TypeOK, CallTypeOK
<1>1. UNCHANGED nmVars
  BY DEF Local, Start, Cancel, Task, AcquireLock, Resolve, Preflight, List, Snapshot,
         Walk, Subscribe, ReadState, WaitEnds, WaitTimeout, StreamCloses, ReplyFails
<1>2. NetworkTypeOK'
  BY <1>0, <1>1 DEF TypeOK, NetworkTypeOK, nmVars
<1>3. CallTypeOK'
  <2> USE DEF Places, Results, Errors
  <2>1. CASE Start(c)
    BY <1>0, <2>1, AwaitTypes, ReturnTypes DEF Start
  <2>2. CASE Cancel(c) \/ StreamCloses(c) \/ WaitTimeout(c) \/ ReplyFails(c)
    BY <1>0, <2>2, ReturnTypes DEF Cancel, StreamCloses, WaitTimeout, ReplyFails, Failed
  <2>3. CASE AcquireLock(c)
    BY <1>0, <2>3, CallTypes DEF TypeOK, CallTypeOK, AcquireLock
  <2>4. CASE Resolve(c)
    BY <1>0, <2>4, AwaitTypes, ReturnTypes DEF Resolve
  <2>5. CASE Preflight(c)
    BY <1>0, <2>5 DEF CallTypeOK, Preflight
  <2>6. CASE List(c)
    BY <1>0, <2>6, ReturnTypes DEF List
  <2>7. CASE Snapshot(c) \/ Subscribe(c) \/ ReadState(c)
    BY <1>0, <2>7, AwaitTypes, ReturnTypes DEF Snapshot, Subscribe, ReadState
  <2>8. CASE Walk(c)
    BY <1>0, <2>8, AwaitTypes, ReturnTypes DEF Walk
  <2>9. CASE WaitEnds(c)
    BY <1>0, <2>9, ReturnTypes, OutcomeType DEF WaitEnds
  <2>10. QED
    BY <2>1, <2>2, <2>3, <2>4, <2>5, <2>6, <2>7, <2>8, <2>9 DEF Local, Task
<1>4. found' \in [Calls -> SUBSET (Acts \cup Profiles)]
  <2>1. Matches(c) \subseteq found[c]
    BY DEF Matches
  <2>2. QED
    BY <1>0, <2>1
    DEF TypeOK, Local, Start, Cancel, Task, AcquireLock, Resolve, Preflight, List, Snapshot,
        Walk, Subscribe, ReadState, WaitEnds, WaitTimeout, StreamCloses, ReplyFails
<1>5. sent' \in [Calls -> Methods \cup {"none"}]
  BY <1>0
  DEF TypeOK, Methods, Local, Start, Cancel, Task, AcquireLock, Resolve, Preflight, List,
      Snapshot, Walk, Subscribe, ReadState, WaitEnds, WaitTimeout, StreamCloses, ReplyFails
<1>6. heard' \in [Calls -> Signals \cup {None}]
  BY <1>0
  DEF TypeOK, Local, Start, Cancel, Task, AcquireLock, Resolve, Preflight, List, Snapshot,
      Walk, Subscribe, ReadState, WaitEnds, WaitTimeout, StreamCloses, ReplyFails
<1>7. QED
  BY <1>2, <1>3, <1>4, <1>5, <1>6 DEF TypeOK, CallTypeOK

\* Signals put into the streams are terminal states.
LEMMA EmitTypes ==
    ASSUME IInv, NEW b \in Acts, NmStep(b) \/ (Moved /\ UNCHANGED saved),
           Started(b) => b \notin Calls \/ ~Subscribed(b), Emit
    PROVE  heard' \in [Calls -> Signals \cup {None}]
<1>1. PICK r \in Reasons : heard' = [c \in Calls |->
          IF /\ Subscribed(c) /\ heard[c] = None
             /\ state'[c] # state[c] /\ state'[c] # "gone"
          THEN [state |-> state'[c], reason |-> r] ELSE heard[c]]
  BY DEF Emit
<1>2. ASSUME NEW c \in Calls, Subscribed(c), state'[c] # state[c], state'[c] # "gone"
      PROVE  state'[c] \in {"activated", "deactivated"}
  BY <1>2 DEF NmStep, Started, Moved, Acts
<1>3. heard \in [Calls -> Signals \cup {None}]
  BY DEF IInv, TypeOK
<1>4. QED
  BY <1>1, <1>2, <1>3 DEF Signals

\* What Emit does to one stream: the first terminal state, and only that.
Hears(c) ==
    \/ heard'[c] = heard[c] /\ ~(/\ Subscribed(c) /\ heard[c] = None
                                 /\ state'[c] # state[c] /\ state'[c] # "gone")
    \/ /\ Subscribed(c) /\ heard[c] = None
       /\ state'[c] # state[c] /\ state'[c] # "gone"
       /\ heard'[c] # None /\ heard'[c].state = state'[c]

LEMMA EmitHears ==
    ASSUME IInv, NEW b \in Acts, NmStep(b) \/ (Moved /\ UNCHANGED saved),
           Started(b) => b \notin Calls \/ ~Subscribed(b), Emit,
           NEW c \in Calls
    PROVE  Hears(c)
<1>1. heard' \in [Calls -> Signals \cup {None}]
  BY EmitTypes
<1>2. PICK r \in Reasons : heard'[c] =
          IF /\ Subscribed(c) /\ heard[c] = None
             /\ state'[c] # state[c] /\ state'[c] # "gone"
          THEN [state |-> state'[c], reason |-> r] ELSE heard[c]
  BY DEF Emit
<1>3. ASSUME Subscribed(c), state'[c] # state[c], state'[c] # "gone"
      PROVE  [state |-> state'[c], reason |-> r] \in Signals
  BY <1>3 DEF NmStep, Started, Moved, Acts, Signals
<1>4. QED
  BY <1>2, <1>3, AbsenceAssumption DEF Hears

\* Only a request of its own starts a call's activation, and not twice.
LEMMA StartsUnsubscribed ==
    ASSUME IInv, NEW c \in Calls, sent[c] # "none"
    PROVE  ~Subscribed(c) /\ link[c] = None
BY DEF IInv, SentInv, Subscribed, Waiting, Following

LEMMA AutosAreNoCalls == ASSUME NEW a \in Autos PROVE a \notin Calls
BY NamesAssumption

LEMMA HandleTypes ==
    ASSUME IInv, NEW c \in Calls, Handle(c)
    PROVE  TypeOK'
<1>0. TypeOK /\ CallTypeOK /\ c \in Acts
  BY DEF IInv, TypeOK, CallTypeOK, Acts
<1>1. found' \in [Calls -> SUBSET (Acts \cup Profiles)]
  BY <1>0 DEF TypeOK, Handle
<1>2. sent' \in [Calls -> Methods \cup {"none"}]
  BY <1>0 DEF TypeOK, Handle
<1>3. CallTypeOK'
  <2>1. CASE pc[c] # "reply"
    BY <1>0, <2>1 DEF Handle, CallTypeOK
  <2>2. CASE pc[c] = "reply" /\ Effect(c) /\ Continue(c)
    <3>1. sent[c] \in Methods
      BY <2>2, EffectStep
    <3>2. QED
      BY <1>0, <2>2, <3>1, AwaitTypes, ReturnTypes
      DEF Continue, Methods, Places, Results
  <2>3. CASE pc[c] = "reply" /\ Return(c, Failed(c))
    BY <1>0, <2>3, ReturnTypes DEF Results, Errors, Failed
  <2>4. QED
    BY <2>1, <2>2, <2>3 DEF Handle
<1>4. NetworkTypeOK' /\ heard' \in [Calls -> Signals \cup {None}]
  <2>1. CASE UNCHANGED <<nmVars, heard>>
    BY <1>0, <2>1 DEF TypeOK, NetworkTypeOK, nmVars
  <2>2. CASE Effect(c) /\ Emit
    <3>1. NmStep(c)
      BY <2>2, EffectStep
    <3>2. Started(c) => link'[c].ssid \in Ssids
      BY <1>0 DEF Started, Links
    <3>3. QED
      BY <1>0, <2>2, <3>1, <3>2, NmTypes, EmitTypes, StartsUnsubscribed DEF Handle
  <2>3. QED
    BY <2>1, <2>2 DEF Handle
<1>5. QED
  BY <1>1, <1>2, <1>3, <1>4 DEF TypeOK, CallTypeOK

LEMMA DaemonTypes ==
    ASSUME IInv, NEW a \in Acts, Daemon(a)
    PROVE  TypeOK'
<1>1. (a \in Autos /\ NmStep(a)) \/ (Moved /\ UNCHANGED saved)
  BY DaemonStep
<1>2. Started(a) => link'[a].ssid \in Ssids
  BY DEF Started, Links
<1>3. Started(a) => a \notin Calls
  <2>1. Started(a) => ~Moved
    BY DEF Started, Moved
  <2>2. QED
    BY <1>1, <2>1, AutosAreNoCalls
<1>4. NetworkTypeOK'
  BY <1>1, <1>2, NmTypes
<1>5. heard' \in [Calls -> Signals \cup {None}]
  BY <1>1, <1>3, EmitTypes DEF Daemon
<1>6. QED
  BY <1>4, <1>5 DEF IInv, TypeOK, Daemon

LEMMA StutterKeeps ==
    ASSUME IInv, UNCHANGED vars PROVE IInv'
BY DEF IInv, vars, nmVars, callVars, TypeOK, NetworkTypeOK, LockInv, DaemonInv, SentInv,
       MatchInv, StreamInv, OkMeansOwnActivation, NoOutcomeIsMissed,
       Busy, Dev, Ssid, Subscribed, Waiting, Following, IsConnect

-----------------------------------------------------------------------------
(* The lock.                                                               *)

\* How a step of call c leaves the lock: kept, taken, or given up.
LEMMA LockStep ==
    ASSUME TypeOK, LockInv, NEW c \in Calls, UNCHANGED req,
           \A d \in Calls \ {c} : pc'[d] = pc[d],
           \/ holder' = holder /\ (Busy(c)' <=> Busy(c))
           \/ /\ ~Busy(c) /\ Busy(c)' /\ LockFree(c)
              /\ holder' = [holder EXCEPT ![Dev(c)] = c]
           \/ /\ ~Busy(c)'
              /\ holder' = IF holder[Dev(c)] = c
                           THEN [holder EXCEPT ![Dev(c)] = None] ELSE holder
    PROVE  LockInv'
BY CallTypes, AbsenceAssumption DEF TypeOK, LockInv, LockFree, Busy, Dev

LEMMA LocalLock ==
    ASSUME IInv, NEW c \in Calls, Local(c)
    PROVE  LockInv'
<1>0. TypeOK /\ LockInv
  BY DEF IInv
<1>1. UNCHANGED req /\ \A d \in Calls \ {c} : pc'[d] = pc[d]
  BY <1>0
  DEF TypeOK, Await, Return, Local, Start, Cancel, Task, AcquireLock, Resolve, Preflight,
      List, Snapshot, Walk, Subscribe, ReadState, WaitEnds, WaitTimeout, StreamCloses, ReplyFails
<1>2. \/ holder' = holder /\ (Busy(c)' <=> Busy(c))
      \/ /\ ~Busy(c) /\ Busy(c)' /\ LockFree(c)
         /\ holder' = [holder EXCEPT ![Dev(c)] = c]
      \/ /\ ~Busy(c)'
         /\ holder' = IF holder[Dev(c)] = c
                      THEN [holder EXCEPT ![Dev(c)] = None] ELSE holder
  <2> USE <1>0 DEF TypeOK, Busy, Await, Return
  <2>1. CASE Start(c)
    BY <2>1 DEF Start
  <2>2. CASE \/ Cancel(c) \/ StreamCloses(c) \/ ReplyFails(c)
             \/ WaitTimeout(c) \/ WaitEnds(c) \/ List(c)
    BY <2>2 DEF Cancel, StreamCloses, ReplyFails, WaitTimeout, WaitEnds, List, Waiting
  <2>3. CASE AcquireLock(c)
    BY <2>3 DEF AcquireLock
  <2>4. CASE Resolve(c)
    BY <2>4 DEF Resolve
  <2>5. CASE Preflight(c)
    BY <2>5 DEF Preflight
  <2>6. CASE Snapshot(c) \/ Subscribe(c) \/ ReadState(c)
    BY <2>6 DEF Snapshot, Subscribe, ReadState
  <2>7. CASE Walk(c)
    BY <2>7 DEF Walk
  <2>8. QED
    BY <2>1, <2>2, <2>3, <2>4, <2>5, <2>6, <2>7 DEF Local, Task
<1>3. QED
  BY <1>0, <1>1, <1>2, LockStep

LEMMA HandleLock ==
    ASSUME IInv, NEW c \in Calls, Handle(c)
    PROVE  LockInv'
<1>0. TypeOK /\ LockInv
  BY DEF IInv
<1>1. CASE UNCHANGED <<req, pc, holder>>
  BY <1>0, <1>1 DEF LockInv, Busy, Dev
<1>2. CASE pc[c] = "reply" /\ (Continue(c) \/ Return(c, Failed(c)))
  <2>1. UNCHANGED req /\ \A d \in Calls \ {c} : pc'[d] = pc[d]
    <3>1. sent[c] \in Methods
      BY <1>0 DEF Handle, TypeOK
    <3>2. QED
      BY <1>0, <1>2, <3>1 DEF TypeOK, Continue, Await, Return, Methods
  <2>2. \/ holder' = holder /\ (Busy(c)' <=> Busy(c))
        \/ /\ ~Busy(c)'
           /\ holder' = IF holder[Dev(c)] = c
                        THEN [holder EXCEPT ![Dev(c)] = None] ELSE holder
    <3>1. sent[c] \in Methods
      BY <1>0 DEF Handle, TypeOK
    <3>2. QED
      BY <1>0, <1>2, <3>1 DEF TypeOK, Continue, Await, Return, Methods, Busy
  <2>3. QED
    BY <1>0, <2>1, <2>2, LockStep
<1>3. QED
  BY <1>1, <1>2 DEF Handle

LEMMA DaemonLock ==
    ASSUME IInv, NEW a \in Acts, Daemon(a)
    PROVE  LockInv'
BY DEF IInv, LockInv, Busy, Dev, Daemon

-----------------------------------------------------------------------------
(* The daemon's own bookkeeping.                                           *)

LEMMA LocalLeavesDaemon ==
    ASSUME NEW c \in Calls, Local(c)
    PROVE  UNCHANGED nmVars
BY DEF Local, Start, Cancel, Task, AcquireLock, Resolve, Preflight, List, Snapshot,
       Walk, Subscribe, ReadState, WaitEnds, WaitTimeout, StreamCloses, ReplyFails

LEMMA DaemonInvStep ==
    ASSUME IInv, NEW b \in Acts, NmStep(b) \/ (Moved /\ UNCHANGED saved)
    PROVE  DaemonInv'
<1>0. NetworkTypeOK /\ DaemonInv
  BY DEF IInv, TypeOK
<1>1. ASSUME Started(b), NEW p \in Profiles, link'[b].prof = p,
             \/ p = b /\ b \in Calls /\ saved' = [saved EXCEPT ![b] = link'[b].ssid]
             \/ saved[p] = link'[b].ssid /\ UNCHANGED saved
      PROVE  DaemonInv'
  <2>1. link'[b] \in Links /\ link'[b].ssid # None
    BY <1>1, NoneAssumption DEF Started, Links
  <2>2. \A a \in Acts : (state'[a] = "none") <=> (link'[a] = None)
    BY <1>0, <1>1 DEF Started, DaemonInv, Live
  <2>3. \A a \in Acts : state'[a] = "activated" => up'[a]
    BY <1>0, <1>1 DEF Started, DaemonInv
  <2>4. \A c \in Calls : saved'[c] # None => link'[c] # None
    BY <1>0, <1>1 DEF Started, DaemonInv, NetworkTypeOK, Acts, Profiles
  <2>5. ASSUME NEW a \in Acts, link'[a] # None
        PROVE  /\ saved'[link'[a].prof] \in {None, link'[a].ssid}
               /\ link'[a].prof \in Calls => link'[link'[a].prof] # None
    <3>1. CASE a = b
      BY <1>0, <1>1, <2>1, <3>1 DEF DaemonInv, NetworkTypeOK, Started, Acts
    <3>2. CASE a # b
      <4>1. link'[a] = link[a] /\ link[a] \in Links
        BY <1>0, <1>1, <2>5, <3>2 DEF Started, NetworkTypeOK
      <4>2. link[a].prof \in Profiles /\ (link[a].prof # b \/ b \notin Calls)
        BY <1>0, <1>1, <2>5, <4>1 DEF DaemonInv, Started, Links
      <4>3. QED
        BY <1>0, <1>1, <2>5, <4>1, <4>2 DEF DaemonInv, Started, NetworkTypeOK, Acts, Links
    <3>3. QED
      BY <3>1, <3>2
  <2>6. QED
    BY <2>2, <2>3, <2>4, <2>5 DEF DaemonInv
<1>2. ASSUME Moved, UNCHANGED saved \/ (\E p \in Profiles : saved' = [saved EXCEPT ![p] = None])
      PROVE  DaemonInv'
  <2>1. \A p \in Profiles : saved'[p] \in {saved[p], None}
    BY <1>0, <1>2 DEF NetworkTypeOK
  <2>2. \A a \in Acts : link[a] # None => link[a].prof \in Profiles
    BY <1>0 DEF NetworkTypeOK, Links
  <2>3. /\ \A a \in Acts : (state'[a] = "none") <=> (link'[a] = None)
        /\ \A a \in Acts : state'[a] = "activated" => up'[a]
    BY <1>0, <1>2 DEF DaemonInv, Moved, Live
  <2>4. QED
    BY <1>0, <1>2, <2>1, <2>2, <2>3 DEF DaemonInv, Moved, Profiles
<1>3. QED
  BY <1>1, <1>2 DEF NmStep

-----------------------------------------------------------------------------
(* Requests, matches and streams of the calls.                             *)

\* A step of call c leaves the other calls alone.
Others(c) ==
    /\ UNCHANGED req
    /\ \A d \in Calls \ {c} :
           /\ pc'[d] = pc[d] /\ sent'[d] = sent[d] /\ found'[d] = found[d]
           /\ result'[d] = result[d]

\* Where the handling of its request leaves a call.
LEMMA HandlePlaces ==
    ASSUME TypeOK, NEW c \in Calls, Handle(c)
    PROVE  \/ pc[c] = "reply" /\ pc'[c] = "subscribe" /\ result'[c] = result[c]
           \/ pc[c] = "reply" /\ pc'[c] = "done"
           \/ pc[c] # "reply" /\ pc'[c] = pc[c] /\ result'[c] = result[c]
<1>1. sent[c] \in Methods /\ pc \in [Calls -> Places]
  BY DEF Handle, TypeOK
<1>2. Continue(c) =>
        \/ pc'[c] = "subscribe" /\ result'[c] = result[c]
        \/ pc'[c] = "done"
  <2>1. Await(c, "subscribe") => pc'[c] = "subscribe" /\ result'[c] = result[c]
    BY <1>1 DEF Await
  <2>2. \A r : Return(c, r) => pc'[c] = "done"
    BY <1>1 DEF Return
  <2>3. QED
    BY <1>1, <2>1, <2>2 DEF Continue, Methods
<1>3. \A r : Return(c, r) => pc'[c] = "done"
  BY <1>1 DEF Return
<1>4. QED
  BY <1>2, <1>3 DEF Handle

LEMMA LocalOthers ==
    ASSUME IInv, NEW c \in Calls, Local(c)
    PROVE  Others(c) /\ \A d \in Calls \ {c} : heard'[d] = heard[d]
<1>0. TypeOK
  BY DEF IInv
<1>1. QED
  BY <1>0
  DEF TypeOK, Others, Await, Return, Local, Start, Cancel, Task, AcquireLock, Resolve,
      Preflight, List, Snapshot, Walk, Subscribe, ReadState, WaitEnds, WaitTimeout,
      StreamCloses, ReplyFails

LEMMA HandleOthers ==
    ASSUME IInv, NEW c \in Calls, Handle(c)
    PROVE  Others(c) /\ sent'[c] = "none" /\ found'[c] = {}
<1>0. TypeOK
  BY DEF IInv
<1>1. sent[c] \in Methods
  BY <1>0 DEF Handle, TypeOK
<1>2. QED
  BY <1>0, <1>1 DEF TypeOK, Others, Await, Return, Handle, Continue, Methods

LEMMA LocalSent ==
    ASSUME IInv, NEW c \in Calls, Local(c)
    PROVE  SentInv'
<1>0. TypeOK /\ SentInv
  BY DEF IInv
<1>1. UNCHANGED link /\ Others(c)
  BY LocalLeavesDaemon, LocalOthers DEF nmVars
<1>2. /\ pc'[c] = "reply" => sent'[c] # "none"
      /\ sent'[c] # "none" => \/ pc'[c] = "reply"
                              \/ pc'[c] = "done" /\ result'[c] \in Dropped
      /\ sent'[c] # "none" \/ pc'[c] \notin Following \cup {"done"}
             => link[c] = None
      /\ sent'[c] = "deactivate" => req[c].kind = "disconnect"
      /\ pc'[c] = "list" => req[c].kind = "list"
      /\ pc'[c] # "done" => result'[c] = "none"
  <2> USE <1>0 DEF TypeOK, SentInv, Await, Return, Following, Dropped
  <2>1. CASE Start(c)
    BY <2>1 DEF Start
  <2>2. CASE Cancel(c) \/ ReplyFails(c)
    BY <2>2 DEF Cancel, ReplyFails, Failed
  <2>3. CASE StreamCloses(c) \/ WaitTimeout(c) \/ WaitEnds(c) \/ List(c)
    BY <2>3 DEF StreamCloses, WaitTimeout, WaitEnds, List, Waiting
  <2>4. CASE AcquireLock(c)
    BY <2>4 DEF AcquireLock
  <2>5. CASE Resolve(c)
    BY <2>5, CallTypes DEF Resolve, Requests
  <2>6. CASE Preflight(c)
    BY <2>6 DEF Preflight
  <2>7. CASE Snapshot(c) \/ Subscribe(c) \/ ReadState(c)
    BY <2>7 DEF Snapshot, Subscribe, ReadState
  <2>8. CASE Walk(c)
    BY <2>8 DEF Walk
  <2>9. QED
    BY <2>1, <2>2, <2>3, <2>4, <2>5, <2>6, <2>7, <2>8 DEF Local, Task
<1>3. QED
  BY <1>0, <1>1, <1>2 DEF SentInv, Others

LEMMA HandleSent ==
    ASSUME IInv, NEW c \in Calls, Handle(c)
    PROVE  SentInv'
<1>0. TypeOK /\ SentInv /\ Others(c) /\ sent'[c] = "none" /\ c \in Acts
  BY HandleOthers DEF IInv, Acts
<1>1. \A d \in Calls \ {c} : link'[d] = link[d]
  <2>1. CASE Effect(c)
    BY <2>1, EffectStep DEF NmStep, Started, Moved, Acts
  <2>2. QED
    BY <2>1 DEF Handle, nmVars
<1>2. /\ pc'[c] # "reply" /\ pc'[c] # "list"
      /\ pc'[c] \notin Following \cup {"done"} => link'[c] = None
      /\ pc'[c] # "done" => result'[c] = "none"
  <2>1. sent[c] # "none"
    BY DEF Handle
  <2>2. QED
    BY <1>0, <2>1, HandlePlaces DEF SentInv, Handle, Following
<1>3. QED
  BY <1>0, <1>1, <1>2 DEF SentInv, Others

LEMMA DaemonSent ==
    ASSUME IInv, NEW a \in Acts, Daemon(a)
    PROVE  SentInv'
<1>1. \A c \in Calls : link'[c] = link[c]
  BY DaemonStep, AutosAreNoCalls DEF NmStep, Started, Moved, Acts
<1>2. QED
  BY <1>1 DEF IInv, SentInv, Daemon

\* What a walk matched, for one call.
MatchOf(c) ==
    \A x \in found[c] :
        /\ pc[c] = "walk" => IF req[c].kind = "disconnect"
                             THEN x \in Acts /\ link[x] # None
                             ELSE x \in Profiles
        /\ sent[c] = "activate" => x \in Profiles
        /\ sent[c] = "deactivate" =>
               x \in Acts /\ link[x] # None /\ link[x].ssid = Ssid(c)
        /\ sent[c] = "delete" =>
               /\ x \in Profiles
               /\ saved[x] \in {None, Ssid(c)}
               /\ x \in Calls => link[x] # None

LEMMA LocalMatch ==
    ASSUME IInv, NEW c \in Calls, Local(c)
    PROVE  MatchInv'
<1>0. TypeOK /\ SentInv /\ DaemonInv /\ MatchOf(c)
  BY DEF IInv, MatchInv, MatchOf
<1>1. UNCHANGED <<link, saved, state>> /\ Others(c)
  BY LocalLeavesDaemon, LocalOthers DEF nmVars
<1>2. ASSUME NEW x \in found'[c]
      PROVE  /\ pc'[c] = "walk" => IF req[c].kind = "disconnect"
                                   THEN x \in Acts /\ link[x] # None
                                   ELSE x \in Profiles
             /\ sent'[c] = "activate" => x \in Profiles
             /\ sent'[c] = "deactivate" =>
                    x \in Acts /\ link[x] # None /\ link[x].ssid = Ssid(c)
             /\ sent'[c] = "delete" =>
                    /\ x \in Profiles
                    /\ saved[x] \in {None, Ssid(c)}
                    /\ x \in Calls => link[x] # None
  <2> USE <1>0, <1>2 DEF TypeOK, SentInv, MatchOf, Await, Return
  <2>1. CASE Start(c)
    BY <2>1 DEF Start
  <2>2. CASE Cancel(c) \/ ReplyFails(c)
    BY <2>2 DEF Cancel, ReplyFails, Failed
  <2>3. CASE StreamCloses(c) \/ WaitTimeout(c) \/ WaitEnds(c) \/ List(c)
    BY <2>3 DEF StreamCloses, WaitTimeout, WaitEnds, List, Waiting
  <2>4. CASE AcquireLock(c) \/ Preflight(c)
    BY <2>4 DEF AcquireLock, Preflight
  <2>5. CASE Resolve(c) \/ Subscribe(c) \/ ReadState(c)
    BY <2>5 DEF Resolve, Subscribe, ReadState
  <2>6. CASE Snapshot(c)
    BY <2>6 DEF Snapshot, DaemonInv
  <2>7. CASE Walk(c)
    <3>1. CASE found'[c] = {}
      BY <3>1
    <3>2. ASSUME NEW y \in Matches(c), found' = [found EXCEPT ![c] = {y}],
                 sent' = [sent EXCEPT ![c] =
                    CASE req[c].kind = "stored" -> "activate"
                      [] req[c].kind = "disconnect" -> "deactivate"
                      [] OTHER -> "delete"],
                 Await(c, "reply")
          PROVE  /\ x = y /\ y \in found[c] /\ pc[c] = "walk" /\ pc'[c] = "reply"
                 /\ sent'[c] = "deactivate" <=> req[c].kind = "disconnect"
                 /\ req[c].kind = "disconnect" => link[y].ssid = Ssid(c)
                 /\ req[c].kind # "disconnect" => saved[y] = Ssid(c)
      BY <2>7, <3>2 DEF Walk, Matches
    <3>3. Ssid(c) # None
      BY CallTypes, NoneAssumption
    <3>4. QED
      BY <2>7, <3>1, <3>2, <3>3 DEF Walk, DaemonInv
  <2>8. QED
    BY <2>1, <2>2, <2>3, <2>4, <2>5, <2>6, <2>7 DEF Local, Task
<1>3. QED
  BY <1>1, <1>2 DEF IInv, MatchInv, Others, Ssid

\* The daemon's steps keep what calls matched: links stay, profiles go away.
LEMMA MatchKept ==
    ASSUME IInv, NEW b \in Acts, NmStep(b) \/ (Moved /\ UNCHANGED saved),
           NEW d \in Calls, UNCHANGED req,
           pc'[d] = pc[d], sent'[d] = sent[d], found'[d] = found[d]
    PROVE  MatchOf(d)'
<1>0. NetworkTypeOK /\ MatchOf(d)
  BY DEF IInv, TypeOK, MatchInv, MatchOf
<1>1. \A a \in Acts : link[a] # None => link'[a] = link[a]
  BY DEF NmStep, Started, Moved
<1>2. \A p \in Profiles :
          \/ saved'[p] \in {saved[p], None}
          \/ p \in Calls /\ link[p] = None
  BY <1>0 DEF NmStep, Started, NetworkTypeOK
<1>3. QED
  BY <1>0, <1>1, <1>2 DEF MatchOf, Ssid, Acts

LEMMA HandleMatch ==
    ASSUME IInv, NEW c \in Calls, Handle(c)
    PROVE  MatchInv'
<1>0. Others(c) /\ found'[c] = {} /\ c \in Acts
  BY HandleOthers DEF Acts
<1>1. ASSUME NEW d \in Calls, d # c PROVE MatchOf(d)'
  <2>1. CASE Effect(c)
    BY <1>0, <1>1, <2>1, EffectStep, MatchKept DEF Others
  <2>2. CASE UNCHANGED nmVars
    BY <1>0, <1>1, <2>2 DEF IInv, MatchInv, MatchOf, Others, nmVars, Ssid
  <2>3. QED
    BY <2>1, <2>2 DEF Handle
<1>2. QED
  BY <1>0, <1>1 DEF MatchInv, MatchOf

LEMMA DaemonMatch ==
    ASSUME IInv, NEW a \in Acts, Daemon(a)
    PROVE  MatchInv'
<1>1. ASSUME NEW d \in Calls PROVE MatchOf(d)'
  BY DaemonStep, MatchKept DEF Daemon
<1>2. QED
  BY <1>1 DEF MatchInv, MatchOf

-----------------------------------------------------------------------------
(* What the streams hold, and what the calls return.                       *)

\* StreamInv and the two invariants about outcomes, for one call.
OutcomeOf(c) ==
    /\ pc[c] \in Following => link[c] # None
    /\ heard[c] # None =>
           /\ Subscribed(c)
           /\ heard[c].state = "activated" => up[c]
           /\ heard[c].state = "deactivated" =>
                  state[c] \in {"deactivated", "gone"}
    /\ IsConnect(c) /\ result[c] = "Ok" => up[c]
    /\ pc[c] = "wait" /\ heard[c] = None => state[c] = "activating"

OutcomeInv ==
    /\ StreamInv
    /\ OkMeansOwnActivation
    /\ NoOutcomeIsMissed

LEMMA OutcomeParts == OutcomeInv <=> \A c \in Calls : OutcomeOf(c)
BY DEF OutcomeInv, OutcomeOf, StreamInv, OkMeansOwnActivation, NoOutcomeIsMissed

LEMMA OutcomePartsNext == OutcomeInv' <=> \A c \in Calls : OutcomeOf(c)'
BY DEF OutcomeInv, OutcomeOf, StreamInv, OkMeansOwnActivation, NoOutcomeIsMissed

LEMMA LocalOutcome ==
    ASSUME IInv, NEW c \in Calls, Local(c)
    PROVE  OutcomeInv'
<1>0. TypeOK /\ SentInv /\ DaemonInv /\ OutcomeOf(c) /\ \A d \in Calls : OutcomeOf(d)
  BY OutcomeParts DEF IInv, OutcomeInv
<1>1. UNCHANGED <<link, up, state>> /\ Others(c)
  BY LocalLeavesDaemon, LocalOthers DEF nmVars
<1>2. ASSUME NEW d \in Calls, d # c PROVE OutcomeOf(d)'
  BY <1>0, <1>1, <1>2, LocalOthers DEF Others, OutcomeOf, Subscribed, Waiting, Following,
                                        IsConnect
<1>3. OutcomeOf(c)'
  <2> USE <1>0, <1>1 DEF TypeOK, NetworkTypeOK, SentInv, DaemonInv, OutcomeOf, Await,
                         Return, Subscribed, Waiting, Following, IsConnect, Live, Acts
  <2>1. CASE Start(c)
    BY <2>1 DEF Start
  <2>2. CASE Cancel(c) \/ ReplyFails(c)
    BY <2>2 DEF Cancel, ReplyFails, Failed
  <2>3. CASE StreamCloses(c) \/ WaitTimeout(c)
    BY <2>3 DEF StreamCloses, WaitTimeout
  <2>4. CASE List(c)
    BY <2>4 DEF List
  <2>5. CASE WaitEnds(c)
    <3>1. heard[c].state \in {"activated", "deactivated"}
      BY <2>5 DEF WaitEnds, Signals
    <3>2. result'[c] = Outcome(c) /\ pc'[c] = "done" /\ heard'[c] = None
      BY <2>5 DEF WaitEnds
    <3>3. CASE heard[c].state = "activated"
      BY <2>5, <3>2, <3>3 DEF WaitEnds, Outcome
    <3>4. CASE heard[c].state = "deactivated"
      BY <2>5, <3>2, <3>4 DEF WaitEnds, Outcome, map_state_reason
    <3>5. QED
      BY <3>1, <3>3, <3>4
  <2>6. CASE AcquireLock(c) \/ Preflight(c)
    BY <2>6 DEF AcquireLock, Preflight
  <2>7. CASE Resolve(c) \/ Subscribe(c) \/ Snapshot(c)
    BY <2>7 DEF Resolve, Subscribe, Snapshot
  <2>8. CASE ReadState(c)
    BY <2>8 DEF ReadState
  <2>9. CASE Walk(c)
    BY <2>9 DEF Walk
  <2>10. QED
    BY <2>1, <2>2, <2>3, <2>4, <2>5, <2>6, <2>7, <2>8, <2>9 DEF Local, Task
<1>4. QED
  BY <1>2, <1>3, OutcomePartsNext

\* The daemon's steps keep the outcome of a call that does not move.
LEMMA OutcomeKept ==
    ASSUME IInv, NEW b \in Acts, NmStep(b) \/ (Moved /\ UNCHANGED saved),
           Started(b) => b \notin Calls \/ sent[b] # "none",
           NEW d \in Calls, Hears(d), UNCHANGED req,
           pc'[d] = pc[d], result'[d] = result[d]
    PROVE  OutcomeOf(d)'
<1>0. TypeOK /\ SentInv /\ DaemonInv /\ OutcomeOf(d) /\ d \in Acts
  BY OutcomeParts DEF IInv, OutcomeInv, Acts
<1>1. CASE Started(b) /\ d = b
  BY <1>0, <1>1
  DEF SentInv, Started, OutcomeOf, Hears, Subscribed, Waiting, Following, IsConnect
<1>2. CASE Started(b) /\ d # b
  BY <1>0, <1>2
  DEF Started, OutcomeOf, Hears, Subscribed, Waiting, Following, IsConnect, Live, DaemonInv
<1>3. CASE Moved
  BY <1>0, <1>3
  DEF Moved, OutcomeOf, Hears, Subscribed, Waiting, Following, IsConnect, Live, DaemonInv,
      TypeOK, NetworkTypeOK
<1>4. QED
  BY <1>1, <1>2, <1>3 DEF NmStep

LEMMA HandleOutcome ==
    ASSUME IInv, NEW c \in Calls, Handle(c)
    PROVE  OutcomeInv'
<1>0. /\ TypeOK /\ SentInv /\ DaemonInv /\ Others(c) /\ c \in Acts
      /\ \A d \in Calls : OutcomeOf(d)
  BY HandleOthers, OutcomeParts DEF IInv, OutcomeInv, Acts
<1>1. sent[c] \in Methods /\ link[c] = None /\ heard[c] = None /\ state[c] = "none"
  BY <1>0 DEF TypeOK, Handle, SentInv, DaemonInv, OutcomeOf, Subscribed, Waiting,
                                     Following
<1>2. CASE /\ Effect(c) /\ Emit
           /\ pc[c] = "reply" => Continue(c)
           /\ pc[c] # "reply" => UNCHANGED <<pc, result>>
  <2>1. NmStep(c)
    BY <1>2, EffectStep
  <2>2. \A d \in Calls : Hears(d)
    BY <1>0, <1>2, <2>1, EmitHears, StartsUnsubscribed DEF Handle
  <2>3. ASSUME NEW d \in Calls, pc'[d] = pc[d], result'[d] = result[d]
        PROVE  OutcomeOf(d)'
    BY <1>0, <1>1, <2>1, <2>2, <2>3, OutcomeKept DEF Others, Methods
  <2>4. CASE pc[c] = "reply" /\ Continue(c)
    <3>1. heard'[c] = None
      BY <1>1, <2>2, <2>4 DEF Hears, Subscribed, Waiting
    <3>2. CASE sent[c] \in {"add", "activate"}
      <4>1. Started(c)
        BY <1>2, <3>2, EffectStep
      <4>2. pc'[c] = "subscribe" /\ result'[c] = "none"
        BY <1>0, <2>4, <3>2 DEF Continue, Await, SentInv, TypeOK
      <4>3. OutcomeOf(c)'
        BY <3>1, <4>1, <4>2 DEF OutcomeOf, Started
      <4>4. QED
        BY <1>0, <2>3, <4>3, OutcomePartsNext DEF Others
    <3>3. CASE sent[c] \in {"deactivate", "delete"}
      <4>1. /\ pc'[c] = "done"
            /\ result'[c] = IF sent[c] = "deactivate" THEN "Ok" ELSE "True"
        BY <1>0, <2>4, <3>3 DEF Continue, Return, TypeOK
      <4>2. OutcomeOf(c)'
        BY <1>0, <3>1, <4>1 DEF OutcomeOf, SentInv, IsConnect, Others, Following
      <4>3. QED
        BY <1>0, <2>3, <4>2, OutcomePartsNext DEF Others
    <3>4. QED
      BY <1>1, <3>2, <3>3 DEF Methods
  <2>5. CASE UNCHANGED <<pc, result>>
    BY <2>3, <2>5, OutcomePartsNext
  <2>6. QED
    BY <1>2, <2>4, <2>5
<1>3. CASE /\ UNCHANGED <<nmVars, heard>>
           /\ \/ UNCHANGED <<pc, result>>
              \/ Return(c, Failed(c))
  <2>1. ASSUME NEW d \in Calls, pc'[d] = pc[d], result'[d] = result[d]
        PROVE  OutcomeOf(d)'
    BY <1>0, <1>3, <2>1 DEF OutcomeOf, Others, nmVars, Subscribed, Waiting, Following, IsConnect
  <2>2. CASE UNCHANGED <<pc, result>>
    BY <2>1, <2>2, OutcomePartsNext
  <2>3. CASE pc'[c] = "done" /\ result'[c] \in {"SsidNotInRange", "Os"}
    <3>1. OutcomeOf(c)'
      BY <1>1, <1>3, <2>3 DEF OutcomeOf, nmVars, Following
    <3>2. QED
      BY <1>0, <2>1, <3>1, OutcomePartsNext DEF Others
  <2>4. QED
    BY <1>0, <1>3, <2>2, <2>3 DEF Return, TypeOK, Failed
<1>4. QED
  BY <1>2, <1>3 DEF Handle

LEMMA DaemonOutcome ==
    ASSUME IInv, NEW a \in Acts, Daemon(a)
    PROVE  OutcomeInv'
<1>1. (a \in Autos /\ NmStep(a)) \/ (Moved /\ UNCHANGED saved)
  BY DaemonStep
<1>2. Started(a) => a \notin Calls
  <2>1. Started(a) => ~Moved
    BY DEF Started, Moved
  <2>2. QED
    BY <1>1, <2>1, AutosAreNoCalls
<1>3. \A c \in Calls : Hears(c)
  BY <1>1, <1>2, EmitHears DEF Daemon
<1>4. \A c \in Calls : OutcomeOf(c)'
  BY <1>1, <1>2, <1>3, OutcomeKept DEF Daemon
<1>5. QED
  BY <1>4, OutcomePartsNext

-----------------------------------------------------------------------------
(* The inductive invariant.                                                *)

LEMMA InitIInv == Init => IInv
<1> SUFFICES ASSUME Init PROVE IInv
  OBVIOUS
<1>1. TypeOK
  BY DEF Init, NetworkInit, TypeOK, NetworkTypeOK, ActStates, Places, Profiles
<1>2. LockInv /\ MatchInv
  BY DEF Init, LockInv, Busy, MatchInv
<1>3. DaemonInv
  BY DEF Init, NetworkInit, DaemonInv
<1>4. SentInv
  BY DEF Init, NetworkInit, SentInv, Acts
<1>5. StreamInv /\ OkMeansOwnActivation /\ NoOutcomeIsMissed
  BY DEF Init, StreamInv, OkMeansOwnActivation, NoOutcomeIsMissed, Following
<1>6. QED
  BY <1>1, <1>2, <1>3, <1>4, <1>5 DEF IInv

LEMMA IInvStep == IInv /\ [Next]_vars => IInv'
<1> SUFFICES ASSUME IInv, [Next]_vars PROVE IInv'
  OBVIOUS
<1>1. ASSUME NEW c \in Calls, Local(c) PROVE IInv'
  <2>1. DaemonInv'
    BY <1>1, LocalLeavesDaemon DEF IInv, DaemonInv, nmVars
  <2>2. QED
    BY <1>1, <2>1, LocalTypes, LocalLock, LocalSent, LocalMatch, LocalOutcome
    DEF IInv, OutcomeInv
<1>2. ASSUME NEW c \in Calls, Handle(c) PROVE IInv'
  <2>1. DaemonInv'
    <3>1. CASE Effect(c)
      BY <3>1, EffectStep, DaemonInvStep DEF Acts
    <3>2. CASE UNCHANGED nmVars
      BY <3>2 DEF IInv, DaemonInv, nmVars
    <3>3. QED
      BY <1>2, <3>1, <3>2 DEF Handle
  <2>2. QED
    BY <1>2, <2>1, HandleTypes, HandleLock, HandleSent, HandleMatch, HandleOutcome
    DEF IInv, OutcomeInv
<1>3. ASSUME NEW a \in Acts, Daemon(a) PROVE IInv'
  <2>1. DaemonInv'
    BY <1>3, DaemonStep, DaemonInvStep
  <2>2. QED
    BY <1>3, <2>1, DaemonTypes, DaemonLock, DaemonSent, DaemonMatch, DaemonOutcome
    DEF IInv, OutcomeInv
<1>4. CASE UNCHANGED vars
  BY <1>4, StutterKeeps
<1>5. QED
  BY <1>1, <1>2, <1>3, <1>4 DEF Next, Local

\* Lock ownership, requests, matches, streams and results agree in every
\* reachable state (the mutex of adapter_lock, and the order of requests,
\* subscription and reads in connect.rs, disconnect.rs and state_wait.rs).
THEOREM LinuxInvariantHolds == Spec => []IInv
BY InitIInv, IInvStep, PTL DEF Spec

\* Every reachable state is well typed, for any sets of calls and devices.
THEOREM LinuxTypeCorrect == Spec => []TypeOK
<1>1. IInv => TypeOK
  BY DEF IInv
<1>2. QED
  BY <1>1, LinuxInvariantHolds, PTL

\* A connect returns Ok only after its own activation reached ACTIVATED
\* (state_wait.rs subscribes on the path of that activation).
THEOREM OkIsOwn == Spec => []OkMeansOwnActivation
<1>1. IInv => OkMeansOwnActivation
  BY DEF IInv
<1>2. QED
  BY <1>1, LinuxInvariantHolds, PTL

\* No terminal state falls between the request, the subscription and the read
\* of the current state (state_wait.rs).
THEOREM OutcomesAreHeard == Spec => []NoOutcomeIsMissed
<1>1. IInv => NoOutcomeIsMissed
  BY DEF IInv
<1>2. QED
  BY <1>1, LinuxInvariantHolds, PTL

\* Only the end of the wait on a signal reports a definite failure, and the
\* signal is of the call's own, ended activation.
LEMMA FailureStep ==
    ASSUME IInv, [Next]_vars, NEW c \in Calls, Waiting(c), result'[c] \in Definite
    PROVE  state[c] \notin Live
<1>0. TypeOK /\ SentInv /\ StreamInv /\ result[c] = "none" /\ pc[c] # "reply"
  BY DEF IInv, SentInv, Waiting
<1>1. result'[c] # result[c]
  BY <1>0 DEF Definite
<1>2. ASSUME NEW d \in Calls, Local(d) PROVE state[c] \notin Live
  <2>1. d = c
    BY <1>1, <1>2, LocalOthers DEF Others
  <2>2. CASE WaitEnds(c)
    <3>1. heard[c] \in Signals /\ result'[c] = Outcome(c)
      BY <1>0, <2>2 DEF WaitEnds, Return, TypeOK
    <3>2. heard[c].state = "deactivated"
      BY <3>1 DEF Outcome, Definite, Signals
    <3>3. QED
      BY <1>0, <2>2, <3>2 DEF WaitEnds, StreamInv, Live
  <2>3. CASE Cancel(c) \/ StreamCloses(c) \/ WaitTimeout(c)
    BY <1>0, <2>3 DEF Cancel, StreamCloses, WaitTimeout, Return, TypeOK, Definite
  <2>4. QED
    BY <1>0, <1>2, <2>1, <2>2, <2>3
    DEF Local, Task, Waiting, Start, AcquireLock, Resolve, Preflight, List, Snapshot, Walk,
        Subscribe, ReadState, ReplyFails
<1>3. ASSUME NEW d \in Calls, Handle(d) PROVE state[c] \notin Live
  <2>1. d = c
    BY <1>1, <1>3, HandleOthers DEF Others
  <2>2. QED
    BY <1>0, <1>1, <1>3, <2>1, HandlePlaces
<1>4. ASSUME NEW a \in Acts, Daemon(a) PROVE state[c] \notin Live
  BY <1>1, <1>4 DEF Daemon
<1>5. CASE UNCHANGED vars
  BY <1>1, <1>5 DEF vars, callVars
<1>6. QED
  BY <1>2, <1>3, <1>4, <1>5 DEF Next, Local

\* A definite failure that the final wait reports leaves no activation of the
\* call going on (connect.rs, state_wait.rs).
THEOREM FailuresAreFinal == Spec => FailureIsFinal
<1>1. IInv /\ [Next]_vars =>
          [\A c \in Calls :
              Waiting(c) /\ result'[c] \in Definite => state[c] \notin Live]_vars
  BY FailureStep
<1>2. QED
  BY <1>1, LinuxInvariantHolds, PTL DEF Spec, FailureIsFinal

-----------------------------------------------------------------------------
(* What a disconnect and a remove_profile touch.                           *)

Targets(c) ==
    /\ \A a \in Acts : state'[a] # state[a] => link[a].ssid = Ssid(c)
    /\ \A p \in Profiles : saved'[p] # saved[p] => saved[p] = Ssid(c)

LEMMA EffectTargets ==
    ASSUME IInv, NEW c \in Calls, sent[c] \in {"deactivate", "delete"}, Effect(c)
    PROVE  Targets(c)
<1>0. NetworkTypeOK /\ DaemonInv /\ MatchInv
  BY DEF IInv, TypeOK
<1>1. ASSUME NEW x \in found[c], sent[c] = "deactivate", Deactivate(x)
      PROVE  Targets(c)
  BY <1>0, <1>1 DEF MatchInv, Deactivate, End, NetworkTypeOK, Targets
<1>2. ASSUME NEW x \in found[c], sent[c] = "delete", Delete(x)
      PROVE  Targets(c)
  <2>1. x \in Profiles /\ saved[x] = Ssid(c) /\ saved[x] # None
    BY <1>0, <1>2 DEF MatchInv, Delete
  <2>2. \A p \in Profiles : saved'[p] # saved[p] => saved[p] = Ssid(c)
    BY <1>0, <1>2, <2>1 DEF Delete, NetworkTypeOK
  <2>3. ASSUME NEW a \in Acts, state'[a] # state[a]
        PROVE  link[a].ssid = Ssid(c)
    <3>1. state[a] \in Live /\ link[a].prof = x
      BY <1>0, <1>2, <2>3 DEF Delete, End, NetworkTypeOK
    <3>2. link[a] # None
      BY <1>0, <3>1 DEF DaemonInv, Live
    <3>3. QED
      BY <1>0, <2>1, <3>1, <3>2 DEF DaemonInv
  <2>4. QED
    BY <2>2, <2>3 DEF Targets
<1>3. QED
  BY <1>1, <1>2 DEF Effect

LEMMA TargetedStep ==
    ASSUME IInv, [Next]_vars, NEW c \in Calls,
           sent[c] \in {"deactivate", "delete"}, sent'[c] = "none"
    PROVE  Targets(c)
<1>0. TypeOK /\ SentInv
  BY DEF IInv
<1>1. ASSUME NEW d \in Calls, Local(d) PROVE Targets(c)
  <2>1. UNCHANGED nmVars
    BY <1>1, LocalLeavesDaemon
  <2>2. QED
    BY <2>1 DEF Targets, nmVars
<1>2. ASSUME NEW d \in Calls, Handle(d), d # c PROVE Targets(c)
  BY <1>2, HandleOthers DEF Others
<1>3. CASE Handle(c)
  <2>1. CASE Effect(c)
    BY <2>1, EffectTargets
  <2>2. CASE UNCHANGED nmVars
    BY <2>2 DEF Targets, nmVars
  <2>3. QED
    BY <1>3, <2>1, <2>2 DEF Handle
<1>4. ASSUME NEW a \in Acts, Daemon(a) PROVE Targets(c)
  BY <1>4 DEF Daemon
<1>5. CASE UNCHANGED vars
  BY <1>5 DEF Targets, vars, nmVars
<1>6. QED
  BY <1>1, <1>2, <1>3, <1>4, <1>5 DEF Next, Local

\* A disconnect or a remove_profile touches no activation and no profile of
\* another network, whatever changed between its walk and the daemon's
\* handling of its request (disconnect.rs).
THEOREM RequestsTargeted == Spec => RequestsAreTargeted
<1>1. IInv /\ [Next]_vars =>
          [\A c \in Calls :
              sent[c] \in {"deactivate", "delete"} /\ sent'[c] = "none" =>
                  /\ \A a \in Acts : state'[a] # state[a] => link[a].ssid = Ssid(c)
                  /\ \A p \in Profiles : saved'[p] # saved[p] => saved[p] = Ssid(c)]_vars
  BY TargetedStep DEF Targets
<1>2. QED
  BY <1>1, LinuxInvariantHolds, PTL DEF Spec, RequestsAreTargeted

-----------------------------------------------------------------------------
(* The backend implements AdapterLocks.                                    *)

\* A step moves one call's status as the abstract lock does, or not at all.
LEMMA StatusMoves ==
    ASSUME IInv, NEW c \in Calls, Local(c) \/ Handle(c)
    PROVE  \/ Status(c)' = Status(c)
           \/ Status(c)' = "done" /\ Status(c) # "done"
           \/ Status(c) = "idle" /\ Status(c)' = "queued"
           \/ Status(c) = "queued" /\ Status(c)' = "inside" /\ LockFree(c)
<1>0. TypeOK /\ SentInv
  BY DEF IInv
<1> USE <1>0 DEF Status, TypeOK, Places, Await, Return, SentInv
<1>1. CASE Start(c)
  BY <1>1 DEF Start
<1>2. CASE \/ Cancel(c) \/ StreamCloses(c) \/ ReplyFails(c)
             \/ WaitTimeout(c) \/ WaitEnds(c) \/ List(c)
  BY <1>2 DEF Cancel, StreamCloses, ReplyFails, WaitTimeout, WaitEnds, List, Waiting
<1>3. CASE AcquireLock(c)
  BY <1>3 DEF AcquireLock
<1>4. CASE Resolve(c)
  BY <1>4 DEF Resolve
<1>5. CASE Preflight(c) \/ Snapshot(c) \/ Subscribe(c) \/ ReadState(c)
  BY <1>5 DEF Preflight, Snapshot, Subscribe, ReadState
<1>6. CASE Walk(c)
  BY <1>6 DEF Walk
<1>7. CASE Handle(c)
  BY <1>7, HandlePlaces
<1>8. QED
  BY <1>1, <1>2, <1>3, <1>4, <1>5, <1>6, <1>7 DEF Local, Task

\* Calls on one device never overlap: LinuxBackend implements AdapterLocks
\* (the mutex of adapter_lock, held over every await).
THEOREM LinuxSerializes == Spec => CallsAreSerialized
<1> DEFINE on == [c \in Calls |-> Dev(c)]
           st == [c \in Calls |-> Status(c)]
<1>1. Init => Locks!Init
  <2> SUFFICES ASSUME Init PROVE Locks!Init
    OBVIOUS
  <2>1. TypeOK
    BY InitIInv DEF IInv
  <2>2. on \in [Calls -> Devices]
    BY <2>1, CallTypes
  <2>3. st = [c \in Calls |-> "idle"]
    BY DEF Init, Status
  <2>4. QED
    BY <2>2, <2>3 DEF Locks!Init
<1>2. IInv /\ [Next]_vars => [Locks!Next]_(Locks!vars)
  <2> SUFFICES ASSUME IInv, [Next]_vars PROVE [Locks!Next]_(Locks!vars)
    OBVIOUS
  <2>0. TypeOK /\ LockInv
    BY DEF IInv
  <2>1. ASSUME NEW c \in Calls, Local(c) \/ Handle(c)
        PROVE  Locks!Ask(c) \/ Locks!Enter(c) \/ Locks!Finish(c) \/ UNCHANGED Locks!vars
    <3>0. Others(c)
      BY <2>1, LocalOthers, HandleOthers
    <3>1. st' = [st EXCEPT ![c] = Status(c)'] /\ on' = on
      BY <3>0 DEF Others, Status, Dev
    <3>2. CASE Status(c)' = Status(c)
      BY <3>1, <3>2 DEF Locks!vars
    <3>3. CASE Status(c)' = "done" /\ Status(c) # "done"
      BY <3>1, <3>3 DEF Locks!Finish
    <3>4. CASE Status(c) = "idle" /\ Status(c)' = "queued"
      BY <3>1, <3>4 DEF Locks!Ask
    <3>5. CASE Status(c) = "queued" /\ Status(c)' = "inside" /\ LockFree(c)
      <4>1. \A d \in Calls : Status(d) = "inside" => Dev(d) # Dev(c)
        BY <2>0, <3>5, AbsenceAssumption
        DEF LockInv, LockFree, Busy, Status, TypeOK, Places
      <4>2. QED
        BY <3>1, <3>5, <4>1 DEF Locks!Enter
    <3>6. QED
      BY <2>1, <3>2, <3>3, <3>4, <3>5, StatusMoves
  <2>2. ASSUME UNCHANGED <<req, pc>> PROVE UNCHANGED Locks!vars
    BY <2>2 DEF Locks!vars, Status, Dev
  <2>3. QED
    BY <2>1, <2>2 DEF Next, Local, Locks!Next, Daemon, vars, callVars
<1>3. QED
  BY <1>1, <1>2, LinuxInvariantHolds, PTL DEF Spec, CallsAreSerialized, Locks!Spec
=============================================================================
