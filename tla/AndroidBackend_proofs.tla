----------------------- MODULE AndroidBackend_proofs -------------------------
(***************************************************************************)
(* Proofs about AndroidBackend, for any sets of calls and networks and any *)
(* number of failing JNI calls.                                            *)
(***************************************************************************)
EXTENDS AndroidBackend, TLAPS

-----------------------------------------------------------------------------
(* The inductive invariant.                                                *)

\* Whoever waits for its connect's job holds the lock, and a holder does.
LockInv == \A c \in Calls : holder = c <=> pc[c] = "specifier"

ConnectJobs == {"snapshot", "request", "poll", "deadline", "release"}
ListJobs == {"permission", "listen", "start", "waiting", "read", "context"}

\* Which job a future waits for.
JobOf(c) ==
    /\ pc[c] \in {"idle", "locking"} => job[c] = "none"
    /\ pc[c] = "specifier" => job[c] \in ConnectJobs \cup {"ended"}
    /\ pc[c] \in {"bsses", "context"} => job[c] \in ListJobs \cup {"ended"}

\* What a guard says of its call and its job.
GuardOf(c) ==
    /\ job[c] \in {"none", "snapshot", "request"} \cup ListJobs => guard[c] = "none"
    /\ pc[c] \in {"bsses", "context"} => guard[c] = "none"
    /\ job[c] \in {"poll", "deadline"} <=> guard[c] = "poller"
    /\ job[c] = "release" => guard[c] \in {"unregister", "unbind", "dropped", "lost"}
    /\ guard[c] = "output" => pc[c] = "specifier" /\ job[c] = "ended"
    /\ guard[c] = "lost" => faults > 0

\* A callback is registered while its guard has still to unregister it.
RequestOf(c) ==
    /\ guard[c] \in {"poller", "output", "held", "unregister"} => c \in registered
    /\ c \in registered => guard[c] \in {"poller", "output", "held", "unregister", "lost"}

\* ReceiversSpanScans, for one call.
ReceiverOf(c) ==
    /\ job[c] \in {"start", "waiting"} => receivers[c] # "none"
    /\ receivers[c] # "none" /\ faults = 0 => job[c] \in {"start", "waiting"}

JobInv == \A c \in Calls : JobOf(c)
GuardInv == \A c \in Calls : GuardOf(c)
RequestInv == \A c \in Calls : RequestOf(c)
ReceiverInv == \A c \in Calls : ReceiverOf(c)

IInv ==
    /\ TypeOK /\ LockInv /\ JobInv /\ GuardInv /\ RequestInv /\ ReceiverInv
    /\ BindingIsCleared

-----------------------------------------------------------------------------
(* Type correctness.                                                       *)

CallTypeOK ==
    /\ req \in [Calls -> Requests]
    /\ pc \in [Calls -> {"idle", "locking", "specifier", "bsses", "context", "done"}]
    /\ holder \in Calls \cup {None}
    /\ result \in [Calls -> Results \cup {"none"}]

JobTypeOK ==
    /\ job \in [Calls -> Jobs]
    /\ out \in [Calls -> Outcomes \cup {"none"}]
    /\ before \in [Calls -> SUBSET Networks]
    /\ bound \in [Calls -> Networks \cup {None}]

RestTypeOK == guard \in [Calls -> Guards] /\ faults \in 0..MaxFaults

LEMMA TypeParts ==
    TypeOK <=> ServiceTypeOK /\ CallTypeOK /\ JobTypeOK /\ RestTypeOK
BY DEF TypeOK, CallTypeOK, JobTypeOK, RestTypeOK

LEMMA ReturnTypes ==
    ASSUME TypeOK, NEW c \in Calls, NEW r \in Results \cup {"none"}, Return(c, r)
    PROVE  CallTypeOK' /\ out' \in [Calls -> Outcomes \cup {"none"}]
BY DEF TypeOK, CallTypeOK, Return

LEMMA AwaitTypes ==
    ASSUME TypeOK, NEW c \in Calls, NEW j \in Jobs,
           NEW p \in {"locking", "specifier", "bsses", "context"}, Await(c, p, j),
           holder' \in Calls \cup {None}
    PROVE  /\ CallTypeOK' /\ job' \in [Calls -> Jobs]
           /\ out' \in [Calls -> Outcomes \cup {"none"}]
BY DEF TypeOK, CallTypeOK, Await

LEMMA JobTypes ==
    ASSUME TypeOK, NEW c \in Calls
    PROVE  /\ \A r \in Outcomes : JobEnds(c, r) => JobTypeOK'
           /\ \A j \in Jobs : JobGoesOn(c, j) => JobTypeOK'
BY DEF TypeOK, JobTypeOK, JobEnds, JobGoesOn, Jobs

LEMMA FaultTypes ==
    ASSUME TypeOK, Works \/ Fails
    PROVE  faults' \in 0..MaxFaults
BY FaultsAssumption DEF TypeOK, Works, Fails

LEMMA ServiceStutters ==
    ASSUME ServiceTypeOK, UNCHANGED osVars PROVE ServiceTypeOK'
BY DEF ServiceTypeOK, osVars

\* The futures' steps.
LEMMA FutureTypes ==
    ASSUME TypeOK, NEW c \in Calls,
           Start(c) \/ Cancel(c) \/ DropConnection(c) \/ Task(c)
    PROVE  TypeOK'
<1>0. ServiceTypeOK /\ CallTypeOK /\ JobTypeOK /\ RestTypeOK
  BY TypeParts
<1>1. ServiceTypeOK'
  <2>1. UNCHANGED osVars
    BY DEF Start, Cancel, DropConnection, Task, AcquireLock, LookUpSuggestion, Finish,
           FetchContext
  <2>2. QED
    BY <1>0, <2>1, ServiceStutters
<1> SUFFICES CallTypeOK' /\ JobTypeOK' /\ RestTypeOK'
  BY <1>1 DEF TypeOK, CallTypeOK, JobTypeOK, RestTypeOK
<1> USE <1>0 DEF Jobs, Results, Outcomes, JobTypeOK, RestTypeOK, Guards
<1>2. CASE Start(c)
  BY <1>2, ReturnTypes, AwaitTypes DEF Start, CallTypeOK
<1>3. CASE Cancel(c)
  BY <1>3, ReturnTypes DEF Cancel, OutputDropped
<1>4. CASE DropConnection(c)
  BY <1>4 DEF DropConnection, callVars, jobVars, CallTypeOK
<1>5. CASE AcquireLock(c)
  BY <1>5, AwaitTypes DEF AcquireLock
<1>6. CASE LookUpSuggestion(c)
  BY <1>6, ReturnTypes DEF LookUpSuggestion
<1>7. CASE Finish(c)
  BY <1>7, ReturnTypes DEF Finish
<1>8. CASE FetchContext(c)
  BY <1>8, ReturnTypes, AwaitTypes DEF FetchContext, CallTypeOK
<1>9. QED
  BY <1>2, <1>3, <1>4, <1>5, <1>6, <1>7, <1>8 DEF Task

\* The jobs' steps.
LEMMA ThreadTypes ==
    ASSUME TypeOK, NEW c \in Calls, Thread(c)
    PROVE  TypeOK'
<1>0. ServiceTypeOK /\ CallTypeOK /\ JobTypeOK /\ RestTypeOK
  BY TypeParts
<1>1. UNCHANGED callVars /\ CallTypeOK'
  BY <1>0
  DEF Thread, TakeSnapshot, request_network, try_bind_new_wifi, network_has_ipv4, PollAgain,
      DeadlinePasses, TimesOut, Unregister, Unbind, CheckPermission, Listen, StartScan,
      StopWaiting, ReadResults, ReadContext, callVars, CallTypeOK
<1>2. faults' \in 0..MaxFaults
  <2>1. Works \/ Fails
    BY DEF Thread, TakeSnapshot, request_network, try_bind_new_wifi, network_has_ipv4,
           PollAgain, DeadlinePasses, TimesOut, Unregister, Unbind, CheckPermission, Listen,
           StartScan, StopWaiting, ReadResults, ReadContext, Works
  <2>2. QED
    BY <2>1, FaultTypes
<1> SUFFICES ServiceTypeOK' /\ JobTypeOK' /\ guard' \in [Calls -> Guards]
  BY <1>1, <1>2 DEF TypeOK, CallTypeOK, JobTypeOK, RestTypeOK
<1> USE <1>0 DEF Jobs, Outcomes, RestTypeOK, Guards
<1>3. CASE TakeSnapshot(c)
  <2>1. JobTypeOK'
    <3>1. network_handles \in SUBSET Networks
      BY DEF network_handles, Live
    <3>2. QED
      BY <1>3, <3>1, JobTypes DEF TakeSnapshot, JobTypeOK
  <2>2. QED
    BY <1>3, <2>1, ServiceStutters DEF TakeSnapshot
<1>4. CASE request_network(c)
  BY <1>4, JobTypes DEF request_network, RequestNetwork, ServiceTypeOK, scanVars
<1>5. CASE try_bind_new_wifi(c)
  <2>1. NewWifi(c) \subseteq Networks
    BY DEF NewWifi, Live
  <2>2. JobTypeOK'
    BY <1>5, <2>1, JobTypes DEF try_bind_new_wifi, JobTypeOK
  <2>3. QED
    BY <1>5, <2>1, <2>2 DEF try_bind_new_wifi, ServiceTypeOK, scanVars
<1>6. CASE network_has_ipv4(c)
  BY <1>6, JobTypes, ServiceStutters DEF network_has_ipv4
<1>7. CASE PollAgain(c) \/ DeadlinePasses(c) \/ TimesOut(c)
  BY <1>7, JobTypes, ServiceStutters DEF PollAgain, DeadlinePasses, TimesOut
<1>8. CASE Unregister(c) \/ Unbind(c)
  BY <1>8
  DEF Unregister, Unbind, UnregisterCallback, Live, Networks, ServiceTypeOK, scanVars, jobVars, JobTypeOK
<1>9. CASE CheckPermission(c)
  BY <1>9, JobTypes, ServiceStutters DEF CheckPermission, NextStep
<1>10. CASE Listen(c)
  BY <1>10, JobTypes DEF Listen, NextStep, ServiceTypeOK, linkVars, Actions
<1>11. CASE StartScan(c)
  BY <1>11, JobTypes DEF StartScan, NoReceiver, NextStep, ServiceTypeOK, linkVars
<1>12. CASE StopWaiting(c)
  BY <1>12, JobTypes DEF StopWaiting, NoReceiver, ServiceTypeOK, linkVars
<1>13. CASE ReadResults(c) \/ ReadContext(c)
  BY <1>13, JobTypes, ServiceStutters DEF ReadResults, ReadContext
<1>14. QED
  BY <1>3, <1>4, <1>5, <1>6, <1>7, <1>8, <1>9, <1>10, <1>11, <1>12, <1>13 DEF Thread

LEMMA TypeStep ==
    ASSUME TypeOK, [Next]_vars
    PROVE  TypeOK'
<1>1. CASE Environment /\ UNCHANGED <<callVars, jobVars, guard, faults>>
  <2>1. ServiceTypeOK'
    BY <1>1, TypeParts
    DEF Environment, Appears, GetsAddress, Vanishes, ScanEnds, ServiceTypeOK, linkVars, scanVars
  <2>2. QED
    BY <1>1, <2>1 DEF TypeOK, callVars, jobVars
<1>2. CASE UNCHANGED vars
  BY <1>2 DEF TypeOK, ServiceTypeOK, vars, osVars, callVars, jobVars
<1>3. QED
  BY <1>1, <1>2, FutureTypes, ThreadTypes DEF Next

-----------------------------------------------------------------------------
(* The invariant is inductive.                                             *)

\* A step of call c leaves the other calls alone.
Spares(c) ==
    \A d \in Calls \ {c} :
        /\ pc'[d] = pc[d] /\ job'[d] = job[d] /\ guard'[d] = guard[d]
        /\ before'[d] = before[d] /\ bound'[d] = bound[d]
        /\ d \in registered' <=> d \in registered
        /\ receivers'[d] = receivers[d]

Step(c) == Start(c) \/ Cancel(c) \/ DropConnection(c) \/ Task(c) \/ Thread(c)

LEMMA StepOthers ==
    ASSUME TypeOK, NEW c \in Calls, Step(c)
    PROVE  Spares(c)
<1> USE DEF TypeOK, ServiceTypeOK, Spares, Return, Await, osVars, callVars, jobVars,
            linkVars, scanVars
<1>1. CASE Start(c) \/ Cancel(c) \/ DropConnection(c)
  BY <1>1 DEF Start, Cancel, OutputDropped, DropConnection
<1>2. CASE Task(c)
  BY <1>2 DEF Task, AcquireLock, LookUpSuggestion, Finish, FetchContext
<1>3. CASE TakeSnapshot(c) \/ request_network(c)
  BY <1>3 DEF TakeSnapshot, request_network, RequestNetwork, JobEnds, JobGoesOn
<1>4. CASE try_bind_new_wifi(c) \/ network_has_ipv4(c)
  BY <1>4 DEF try_bind_new_wifi, network_has_ipv4, JobEnds, JobGoesOn
<1>5. CASE PollAgain(c) \/ DeadlinePasses(c) \/ TimesOut(c)
  BY <1>5 DEF PollAgain, DeadlinePasses, TimesOut, JobEnds, JobGoesOn
<1>6. CASE Unregister(c) \/ Unbind(c)
  BY <1>6 DEF Unregister, Unbind, UnregisterCallback
<1>7. CASE CheckPermission(c) \/ Listen(c) \/ StartScan(c) \/ StopWaiting(c)
  BY <1>7 DEF CheckPermission, Listen, StartScan, StopWaiting, NoReceiver, JobEnds,
                 JobGoesOn
<1>8. CASE ReadResults(c) \/ ReadContext(c)
  BY <1>8 DEF ReadResults, ReadContext, JobEnds, JobGoesOn
<1>9. QED
  BY <1>1, <1>2, <1>3, <1>4, <1>5, <1>6, <1>7, <1>8 DEF Step, Thread

\* Failures are counted, never forgotten.
LEMMA FaultsGrow ==
    ASSUME TypeOK, NEW c \in Calls, Step(c)
    PROVE  faults \in Nat /\ (faults' = faults \/ faults' = faults + 1)
<1>1. faults \in Nat
  BY FaultsAssumption DEF TypeOK
<1>2. Works \/ Fails
  <2>1. CASE Thread(c)
    BY <2>1 DEF Thread, TakeSnapshot, request_network, try_bind_new_wifi, network_has_ipv4,
           PollAgain, DeadlinePasses, TimesOut, Unregister, Unbind, CheckPermission, Listen,
           StartScan, StopWaiting, ReadResults, ReadContext, Works
  <2>2. CASE ~Thread(c)
    BY <2>2 DEF Step, Start, Cancel, DropConnection, Task, AcquireLock, LookUpSuggestion,
           Finish, FetchContext, Works
  <2>3. QED
    BY <2>1, <2>2
<1>3. QED
  BY <1>1, <1>2 DEF Works, Fails

\* The lock is taken by the call that waits for its connect's job.
LEMMA LockStep ==
    ASSUME TypeOK, LockInv, [Next]_vars
    PROVE  LockInv'
<1>0. None \notin Calls
  BY NamesAssumption DEF Networks
<1> USE <1>0 DEF TypeOK, LockInv, LockFree, Return, Await
<1>1. ASSUME NEW c \in Calls, Start(c) \/ Cancel(c) PROVE LockInv'
  BY <1>1 DEF Start, Cancel
<1>2. ASSUME NEW c \in Calls, AcquireLock(c) PROVE LockInv'
  BY <1>2 DEF AcquireLock
<1>3. ASSUME NEW c \in Calls, LookUpSuggestion(c) \/ Finish(c) \/ FetchContext(c)
      PROVE  LockInv'
  BY <1>3 DEF LookUpSuggestion, Finish, FetchContext
<1>4. CASE UNCHANGED callVars
  BY <1>4 DEF callVars
<1>5. ASSUME NEW c \in Calls, Thread(c) PROVE UNCHANGED callVars
  BY <1>5
  DEF Thread, TakeSnapshot, request_network, try_bind_new_wifi, network_has_ipv4, PollAgain,
      DeadlinePasses, TimesOut, Unregister, Unbind, CheckPermission, Listen, StartScan,
      StopWaiting, ReadResults, ReadContext
<1>6. QED
  BY <1>1, <1>2, <1>3, <1>4, <1>5 DEF Next, Task, DropConnection, vars

\* A call's own steps keep what the invariant says of it.
LEMMA OwnStep ==
    ASSUME TypeOK, NEW c \in Calls, Step(c),
           JobOf(c), GuardOf(c), RequestOf(c), ReceiverOf(c)
    PROVE  JobOf(c)' /\ GuardOf(c)' /\ RequestOf(c)' /\ ReceiverOf(c)'
<1>0. faults \in Nat /\ (faults' = faults \/ faults' = faults + 1)
  BY FaultsGrow
<1> USE <1>0 DEF TypeOK, ServiceTypeOK, JobOf, GuardOf, RequestOf, ReceiverOf, ConnectJobs,
    ListJobs, Jobs, Guards, Return, Await, osVars, callVars, jobVars, linkVars, scanVars
<1>1. CASE Start(c)
  BY <1>1 DEF Start
<1>2. CASE Cancel(c) \/ DropConnection(c)
  BY <1>2 DEF Cancel, OutputDropped, DropConnection
<1>3. CASE AcquireLock(c) \/ LookUpSuggestion(c)
  BY <1>3 DEF AcquireLock, LookUpSuggestion
<1>4. CASE Finish(c) \/ FetchContext(c)
  BY <1>4 DEF Finish, FetchContext
<1>5. CASE TakeSnapshot(c)
  BY <1>5 DEF TakeSnapshot, JobEnds, Works, Fails
<1>6. CASE request_network(c)
  BY <1>6 DEF request_network, RequestNetwork, JobEnds, JobGoesOn, Works, Fails
<1>7. CASE try_bind_new_wifi(c)
  BY <1>7 DEF try_bind_new_wifi, JobEnds, JobGoesOn, Works, Fails
<1>8. CASE network_has_ipv4(c)
  BY <1>8 DEF network_has_ipv4, JobEnds, JobGoesOn, Works, Fails
<1>9. CASE PollAgain(c) \/ DeadlinePasses(c) \/ TimesOut(c)
  BY <1>9 DEF PollAgain, DeadlinePasses, TimesOut, JobEnds, JobGoesOn
<1>10. CASE Unregister(c) \/ Unbind(c)
  BY <1>10 DEF Unregister, Unbind, UnregisterCallback, Works, Fails
<1>11. CASE CheckPermission(c) \/ Listen(c)
  BY <1>11 DEF CheckPermission, Listen, NextStep, JobEnds, JobGoesOn, Works, Fails, Actions
<1>12. CASE StartScan(c) \/ StopWaiting(c)
  BY <1>12 DEF StartScan, StopWaiting, NoReceiver, NextStep,
                               JobGoesOn, Works, Fails, Actions
<1>13. CASE ReadResults(c) \/ ReadContext(c)
  BY <1>13 DEF ReadResults, ReadContext, JobEnds
<1>14. QED
  BY <1>1, <1>2, <1>3, <1>4, <1>5, <1>6, <1>7, <1>8, <1>9, <1>10, <1>11, <1>12, <1>13
  DEF Step, Task, Thread

LEMMA CallsStep ==
    ASSUME TypeOK, JobInv, GuardInv, RequestInv, ReceiverInv, [Next]_vars
    PROVE  JobInv' /\ GuardInv' /\ RequestInv' /\ ReceiverInv'
<1> DEFINE P(d) == JobOf(d) /\ GuardOf(d) /\ RequestOf(d) /\ ReceiverOf(d)
<1>0. \A d \in Calls : P(d)
  BY DEF JobInv, GuardInv, RequestInv, ReceiverInv
<1>1. ASSUME NEW c \in Calls, Step(c), NEW d \in Calls PROVE P(d)'
  <2>1. CASE d = c
    BY <1>0, <1>1, <2>1, OwnStep
  <2>2. CASE d # c
    <3>1. Spares(c)
      BY <1>1, StepOthers
    <3>2. faults \in Nat /\ (faults' = faults \/ faults' = faults + 1)
      BY <1>1, FaultsGrow
    <3>3. QED
      BY <1>0, <2>2, <3>1, <3>2 DEF Spares, JobOf, GuardOf, RequestOf, ReceiverOf
  <2>3. QED
    BY <2>1, <2>2
<1>2. ASSUME UNCHANGED <<pc, job, guard, faults, registered, receivers>>, NEW d \in Calls
      PROVE  P(d)'
  BY <1>0, <1>2 DEF JobOf, GuardOf, RequestOf, ReceiverOf
<1>3. Environment => UNCHANGED <<registered, receivers>>
  BY DEF Environment, Appears, GetsAddress, Vanishes, ScanEnds, scanVars, linkVars
<1>4. \A d \in Calls : P(d)'
  BY <1>1, <1>2, <1>3 DEF Next, Step, vars, osVars, callVars, jobVars
<1>5. QED
  BY <1>4 DEF JobInv, GuardInv, RequestInv, ReceiverInv

\* What a step may do to the binding: a polling connect binds the process to a
\* new network, and a Drop unbinds it.
LEMMA BindingMoves ==
    ASSUME TypeOK, GuardInv, NEW c \in Calls, Step(c)
    PROVE  \/ UNCHANGED binding
           \/ guard[c] = "poller" /\ Alive(c) /\ (guard'[c] = "poller" \/ faults' # faults)
           \/ guard[c] = "unbind" /\ binding' = None
<1>1. CASE try_bind_new_wifi(c)
  <2>1. guard[c] = "poller"
    BY <1>1 DEF try_bind_new_wifi, GuardInv, GuardOf
  <2>2. faults \in Nat
    BY FaultsAssumption DEF TypeOK
  <2>3. QED
    BY <1>1, <2>1, <2>2 DEF try_bind_new_wifi, Alive, Fails
<1>2. CASE Unbind(c)
  BY <1>2 DEF Unbind
<1>3. CASE ~try_bind_new_wifi(c) /\ ~Unbind(c)
  BY <1>3
  DEF Step, Thread, Start, Cancel, DropConnection, Task, AcquireLock, LookUpSuggestion, Finish,
      FetchContext, TakeSnapshot, request_network, network_has_ipv4, PollAgain,
      DeadlinePasses, TimesOut, Unregister, CheckPermission, Listen, StartScan, StopWaiting,
      ReadResults, ReadContext, osVars, linkVars
<1>4. QED
  BY <1>1, <1>2, <1>3

\* As long as nothing fails a guard ends by unbinding the process.
LEMMA AliveUntilUnbound ==
    ASSUME TypeOK, GuardInv, NEW c \in Calls, Step(c), Alive(c), faults' = 0
    PROVE  Alive(c)' \/ binding' = None
<1>0. faults \in Nat /\ faults' = faults
  BY FaultsGrow
<1>1. Works
  BY <1>0 DEF Works
<1>2. ~Fails
  BY <1>0 DEF Fails
<1> USE <1>1, <1>2 DEF TypeOK, GuardInv, GuardOf, Alive
<1>3. CASE Unbind(c)
  BY <1>3 DEF Unbind
<1>4. CASE Unregister(c)
  BY <1>4 DEF Unregister
<1>5. CASE request_network(c) \/ try_bind_new_wifi(c) \/ network_has_ipv4(c)
           \/ DeadlinePasses(c)
  BY <1>5 DEF request_network, try_bind_new_wifi, network_has_ipv4, DeadlinePasses
<1>6. CASE Cancel(c) \/ DropConnection(c) \/ Finish(c)
  BY <1>6 DEF Cancel, OutputDropped, DropConnection, Finish
<1>7. CASE UNCHANGED guard
  BY <1>7
<1>8. QED
  BY <1>3, <1>4, <1>5, <1>6, <1>7
  DEF Step, Thread, Start, Task, AcquireLock, LookUpSuggestion, FetchContext, TakeSnapshot,
      PollAgain, TimesOut, CheckPermission, Listen, StartScan, StopWaiting, ReadResults,
      ReadContext

LEMMA ClearedStep ==
    ASSUME TypeOK, GuardInv, BindingIsCleared, [Next]_vars
    PROVE  BindingIsCleared'
<1>1. ASSUME NEW c \in Calls, Step(c), faults' = 0, \A d \in Calls : ~Alive(d)'
      PROVE  binding' = None
  <2>1. Spares(c) /\ faults = 0 /\ faults' = faults
    BY <1>1, StepOthers, FaultsGrow
  <2>2. \A d \in Calls \ {c} : ~Alive(d)
    BY <1>1, <2>1 DEF Spares, Alive
  <2>3. CASE Alive(c)
    BY <1>1, <2>3, AliveUntilUnbound
  <2>4. CASE ~Alive(c)
    BY <1>1, <2>1, <2>2, <2>4, BindingMoves DEF BindingIsCleared
  <2>5. QED
    BY <2>3, <2>4
<1>2. CASE UNCHANGED <<binding, guard, faults>>
  BY <1>2 DEF BindingIsCleared, Alive
<1>3. Environment => UNCHANGED binding
  BY DEF Environment, Appears, GetsAddress, Vanishes, ScanEnds, linkVars
<1>4. QED
  BY <1>1, <1>2, <1>3 DEF Next, Step, vars, osVars, jobVars, BindingIsCleared

LEMMA InitIInv ==
    ASSUME Init PROVE IInv
<1>1. TypeOK
  BY FaultsAssumption
  DEF Init, TypeOK, ServiceInit, ServiceTypeOK, Jobs, Guards, Networks
<1>2. LockInv
  BY NamesAssumption DEF Init, LockInv, Networks
<1>3. JobInv /\ GuardInv /\ RequestInv /\ ReceiverInv
  BY DEF Init, ServiceInit, JobInv, GuardInv, RequestInv, ReceiverInv, JobOf, GuardOf,
         RequestOf, ReceiverOf
<1>4. BindingIsCleared
  BY DEF Init, ServiceInit, BindingIsCleared
<1>5. QED
  BY <1>1, <1>2, <1>3, <1>4 DEF IInv

\* The inductive invariant: types, the lock, and what job, guard, request,
\* receiver and binding say of each other.
THEOREM AndroidInvariantHolds == Spec => []IInv
<1>1. Init => IInv
  BY InitIInv
<1>2. IInv /\ [Next]_vars => IInv'
  BY TypeStep, LockStep, CallsStep, ClearedStep DEF IInv
<1>3. QED
  BY <1>1, <1>2, PTL DEF Spec

-----------------------------------------------------------------------------
(* What follows from it.                                                   *)

\* Every variable of the Android backend keeps the type of its counterpart.
THEOREM AndroidTypeCorrect == Spec => []TypeOK
<1>1. IInv => TypeOK
  BY DEF IInv
<1>2. QED
  BY <1>1, AndroidInvariantHolds, PTL

\* A network request lives exactly as long as somebody will still release it,
\* unless a JNI call failed (wifi_specifier.rs).
THEOREM RequestsOwned == Spec => []RequestsHaveOwners
<1>1. IInv => RequestsHaveOwners
  <2> SUFFICES ASSUME IInv, NEW c \in Calls
               PROVE  /\ HasOwner(c) => c \in registered
                      /\ c \in registered /\ faults = 0 => HasOwner(c)
    BY DEF RequestsHaveOwners
  <2>1. GuardOf(c) /\ RequestOf(c)
    BY DEF IInv, GuardInv, RequestInv
  <2>2. QED
    BY <2>1 DEF GuardOf, RequestOf, HasOwner
<1>2. QED
  BY <1>1, AndroidInvariantHolds, PTL

\* When every connection is closed and every job has ended the process uses
\* the default network again (wifi_specifier.rs, Drop).
THEOREM BindingCleared == Spec => []BindingIsCleared
<1>1. IInv => BindingIsCleared
  BY DEF IInv
<1>2. QED
  BY <1>1, AndroidInvariantHolds, PTL

\* A receiver is registered before its scan is started and no longer than the
\* wait for it, unless a JNI call failed (scan_receiver.rs).
THEOREM ReceiversSpan == Spec => []ReceiversSpanScans
<1>1. IInv => ReceiversSpanScans
  BY DEF IInv, ReceiverInv, ReceiverOf, ReceiversSpanScans
<1>2. QED
  BY <1>1, AndroidInvariantHolds, PTL

\* A held connection loses its binding only to another connect that polls or
\* to another guard's Drop.
THEOREM BindingStable == Spec => BindingIsStable
<1>1. IInv /\ [Next]_vars =>
          [\A c \in Calls : guard[c] = "held" /\ guard'[c] = "held"
                            /\ binding' # binding =>
               \E d \in Calls \ {c} : guard[d] \in {"poller", "unbind"}]_vars
  <2> SUFFICES ASSUME IInv, Next, NEW c \in Calls, guard[c] = "held", binding' # binding
               PROVE  \E d \in Calls \ {c} : guard[d] \in {"poller", "unbind"}
    BY DEF vars, osVars
  <2>1. PICK d \in Calls : Step(d)
    BY DEF Next, Step, Environment, Appears, GetsAddress, Vanishes, ScanEnds, linkVars
  <2>2. guard[d] \in {"poller", "unbind"}
    BY <2>1, BindingMoves DEF IInv
  <2>3. QED
    BY <2>2
<1>2. QED
  BY <1>1, AndroidInvariantHolds, PTL DEF Spec, BindingIsStable

-----------------------------------------------------------------------------
(* The backend implements AdapterLocks.                                    *)

\* A step moves one call's status as the abstract lock does, or not at all.
LEMMA StatusMoves ==
    ASSUME IInv, NEW c \in Calls, Step(c)
    PROVE  \/ Status(c)' = Status(c)
           \/ Status(c)' = "done" /\ Status(c) # "done"
           \/ Status(c) = "idle" /\ Status(c)' = "queued"
           \/ Status(c) = "queued" /\ Status(c)' = "inside" /\ LockFree
<1>0. TypeOK
  BY DEF IInv
<1> USE <1>0 DEF Status, TypeOK, Await, Return, callVars
<1>1. CASE Start(c) \/ Cancel(c) \/ DropConnection(c)
  BY <1>1 DEF Start, Cancel, DropConnection
<1>2. CASE AcquireLock(c) \/ LookUpSuggestion(c)
  BY <1>2 DEF AcquireLock, LookUpSuggestion
<1>3. CASE Finish(c) \/ FetchContext(c)
  BY <1>3 DEF Finish, FetchContext
<1>4. CASE Thread(c)
  <2>1. UNCHANGED callVars
    BY <1>4
    DEF Thread, TakeSnapshot, request_network, try_bind_new_wifi, network_has_ipv4,
        PollAgain, DeadlinePasses, TimesOut, Unregister, Unbind, CheckPermission, Listen,
        StartScan, StopWaiting, ReadResults, ReadContext
  <2>2. QED
    BY <2>1
<1>5. QED
  BY <1>1, <1>2, <1>3, <1>4 DEF Step, Task

\* The calls that take the lock never overlap: AndroidBackend implements
\* AdapterLocks (the mutex of wlan0, held while the connect's job is awaited).
THEOREM AndroidSerializes == Spec => CallsAreSerialized
<1> DEFINE on == [c \in Calls |-> "wlan0"]
           st == [c \in Calls |-> Status(c)]
<1>1. Init => Locks!Init
  <2> SUFFICES ASSUME Init PROVE Locks!Init
    OBVIOUS
  <2>1. st = [c \in Calls |-> "idle"]
    BY DEF Init, Status
  <2>2. QED
    BY <2>1 DEF Locks!Init
<1>2. IInv /\ [Next]_vars => [Locks!Next]_(Locks!vars)
  <2> SUFFICES ASSUME IInv, [Next]_vars PROVE [Locks!Next]_(Locks!vars)
    OBVIOUS
  <2>0. TypeOK /\ LockInv
    BY DEF IInv
  <2>1. ASSUME NEW c \in Calls, Step(c)
        PROVE  Locks!Ask(c) \/ Locks!Enter(c) \/ Locks!Finish(c) \/ UNCHANGED Locks!vars
    <3>0. Spares(c)
      BY <2>0, <2>1, StepOthers
    <3>1. st' = [st EXCEPT ![c] = Status(c)']
      BY <3>0 DEF Spares, Status
    <3>2. CASE Status(c)' = Status(c)
      BY <3>1, <3>2 DEF Locks!vars
    <3>3. CASE Status(c)' = "done" /\ Status(c) # "done"
      BY <3>1, <3>3 DEF Locks!Finish
    <3>4. CASE Status(c) = "idle" /\ Status(c)' = "queued"
      BY <3>1, <3>4 DEF Locks!Ask
    <3>5. CASE Status(c) = "queued" /\ Status(c)' = "inside" /\ LockFree
      <4>0. None \notin Calls
        BY NamesAssumption DEF Networks
      <4>1. \A d \in Calls : Status(d) # "inside"
        BY <2>0, <3>5, <4>0 DEF LockInv, LockFree, Status, TypeOK
      <4>2. QED
        BY <3>1, <3>5, <4>1 DEF Locks!Enter
    <3>6. QED
      BY <2>1, <3>2, <3>3, <3>4, <3>5, StatusMoves
  <2>2. ASSUME UNCHANGED pc PROVE UNCHANGED Locks!vars
    BY <2>2 DEF Locks!vars, Status
  <2>3. QED
    BY <2>1, <2>2 DEF Next, Step, Locks!Next, vars, callVars
<1>3. QED
  BY <1>1, <1>2, AndroidInvariantHolds, PTL DEF Spec, CallsAreSerialized, Locks!Spec
=============================================================================
