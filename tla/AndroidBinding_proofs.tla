----------------------- MODULE AndroidBinding_proofs -------------------------
(***************************************************************************)
(* Proof that an undisturbed connect on Android is bound to the network of *)
(* its own request.  MCAndroidBackend has the history variable.            *)
(***************************************************************************)
EXTENDS MCAndroidBackend, AndroidBackend_proofs

-----------------------------------------------------------------------------
(* The inductive invariant.                                                *)

Undisturbed(c) == Trying(c) /\ c \notin disturbed /\ faults = 0

\* The job remembers a network only while it polls, or after its deadline.
BoundInv ==
    \A c \in Calls : bound[c] # None => job[c] \in {"poll", "deadline", "release"}

\* For a connect nothing disturbed, the only network that can be new is its
\* own, and once it has bound the process, the process is bound to that.
AloneOf(c) ==
    Undisturbed(c) =>
        /\ job[c] \in {"request", "poll", "deadline"} => NewWifi(c) \subseteq {c}
        /\ job[c] \in {"poll", "deadline"} /\ bound[c] # None =>
              bound[c] = c /\ binding = c
        /\ guard[c] \in {"output", "held"} => binding = c

AloneInv == \A c \in Calls : AloneOf(c)

-----------------------------------------------------------------------------
(* The invariant is inductive.                                             *)

LEMMA BoundStep ==
    ASSUME TypeOK, JobInv, BoundInv, [Next]_vars
    PROVE  BoundInv'
<1>1. ASSUME NEW c \in Calls, Step(c), NEW d \in Calls, bound'[d] # None
      PROVE  job'[d] \in {"poll", "deadline", "release"}
  <2>1. CASE d # c
    BY <1>1, <2>1, StepOthers DEF Spares, BoundInv
  <2>2. CASE d = c
    <3> USE <1>1, <2>2 DEF TypeOK, BoundInv, JobEnds, JobGoesOn, jobVars
    <3>1. CASE Thread(c)
      BY <3>1
      DEF Thread, TakeSnapshot, request_network, try_bind_new_wifi, network_has_ipv4,
          PollAgain, DeadlinePasses, TimesOut, Unregister, Unbind, CheckPermission, Listen,
          StartScan, StopWaiting, ReadResults, ReadContext
    <3>2. CASE Start(c) \/ AcquireLock(c) \/ FetchContext(c)
      BY <3>2 DEF Start, AcquireLock, FetchContext, JobInv, JobOf
    <3>3. CASE Cancel(c) \/ DropConnection(c) \/ LookUpSuggestion(c) \/ Finish(c)
      BY <3>3 DEF Cancel, DropConnection, LookUpSuggestion, Finish
    <3>4. QED
      BY <3>1, <3>2, <3>3 DEF Step, Task
  <2>3. QED
    BY <2>1, <2>2
<1>2. CASE UNCHANGED jobVars
  BY <1>2 DEF jobVars, BoundInv
<1>3. QED
  BY <1>1, <1>2 DEF Next, Step, vars, BoundInv

\* The step of the call itself.
LEMMA AloneOwnStep ==
    ASSUME IInv, BoundInv, NEW c \in Calls, AloneOf(c), Trying(c) => Undisturbed(c),
           Step(c), faults = 0, faults' = 0, Trying(c)'
    PROVE  AloneOf(c)'
<1>0. /\ TypeOK /\ JobOf(c) /\ GuardOf(c)
      /\ bound[c] # None => job[c] \in {"poll", "deadline", "release"}
  BY DEF IInv, JobInv, GuardInv, BoundInv
<1>1. Works /\ ~Fails
  BY DEF Works, Fails
<1>2. Trying(c) =>
          /\ job[c] \in {"request", "poll", "deadline"} => NewWifi(c) \subseteq {c}
          /\ job[c] \in {"poll", "deadline"} /\ bound[c] # None =>
                bound[c] = c /\ binding = c
          /\ guard[c] \in {"output", "held"} => binding = c
  BY DEF AloneOf
<1> SUFFICES
        /\ job'[c] \in {"request", "poll", "deadline"} => NewWifi(c)' \subseteq {c}
        /\ job'[c] \in {"poll", "deadline"} /\ bound'[c] # None =>
              bound'[c] = c /\ binding' = c
        /\ guard'[c] \in {"output", "held"} => binding' = c
  BY DEF AloneOf
<1> USE <1>0, <1>1, <1>2 DEF TypeOK, ServiceTypeOK, GuardOf, JobOf, Trying, Alive
<1>3. CASE TakeSnapshot(c)
  BY <1>3
  DEF TakeSnapshot, network_handles, NewWifi, Live, JobEnds, osVars, callVars
<1>4. CASE request_network(c)
  BY <1>4 DEF request_network, JobGoesOn, JobEnds, NewWifi, Live, scanVars, callVars
<1>5. CASE try_bind_new_wifi(c)
  BY <1>5 DEF try_bind_new_wifi, JobGoesOn, JobEnds, NewWifi, Live, scanVars, callVars
<1>6. CASE network_has_ipv4(c)
  BY <1>6 DEF network_has_ipv4, JobGoesOn, JobEnds, NewWifi, Live, osVars, callVars
<1>7. CASE PollAgain(c) \/ DeadlinePasses(c) \/ TimesOut(c)
  BY <1>7
  DEF PollAgain, DeadlinePasses, TimesOut, JobGoesOn, JobEnds, NewWifi, Live, osVars, callVars
<1>8. CASE Unregister(c) \/ Unbind(c)
  BY <1>8 DEF Unregister, Unbind, callVars, jobVars, scanVars
<1>9. CASE \/ CheckPermission(c) \/ Listen(c) \/ StartScan(c) \/ StopWaiting(c)
           \/ ReadResults(c) \/ ReadContext(c)
  BY <1>9
  DEF CheckPermission, Listen, StartScan, StopWaiting, ReadResults, ReadContext, NextStep,
      JobGoesOn, JobEnds, osVars, linkVars, callVars
<1>10. CASE Start(c) \/ Task(c)
  BY <1>10
  DEF Start, Task, AcquireLock, LookUpSuggestion, Finish, FetchContext, Await, Return,
      NewWifi, Live, osVars
<1>11. CASE Cancel(c) \/ DropConnection(c)
  BY <1>11
  DEF Cancel, DropConnection, OutputDropped, Return, NewWifi, Live, osVars, callVars, jobVars
<1>12. QED
  BY <1>3, <1>4, <1>5, <1>6, <1>7, <1>8, <1>9, <1>10, <1>11 DEF Step, Thread
\* The steps of another call, whose guard is not alive before or after.
LEMMA AloneOtherStep ==
    ASSUME IInv, NEW c \in Calls, NEW d \in Calls \ {c}, AloneOf(c), Undisturbed(c),
           Step(d), faults' = 0, ~Alive(d)
    PROVE  AloneOf(c)'
<1>1. Spares(d)
  BY StepOthers DEF IInv
<1>2. UNCHANGED binding
  BY BindingMoves DEF IInv, Alive
<1>3. UNCHANGED nets
  <2>1. ~Unregister(d)
    BY DEF Unregister, Alive
  <2>2. QED
    BY <2>1
    DEF Step, Thread, Start, Cancel, DropConnection, Task, AcquireLock, LookUpSuggestion,
        Finish, FetchContext, TakeSnapshot, request_network, try_bind_new_wifi,
        network_has_ipv4, PollAgain, DeadlinePasses, TimesOut, Unbind, CheckPermission,
        Listen, StartScan, StopWaiting, ReadResults, ReadContext, osVars, linkVars
<1>4. QED
  BY <1>1, <1>2, <1>3 DEF Spares, AloneOf, NewWifi, Live

\* What the system does: only the network the call asked for may come up.
LEMMA AloneEnvironment ==
    ASSUME IInv, NEW c \in Calls, AloneOf(c), Undisturbed(c), Environment,
           UNCHANGED <<jobVars, guard, faults>>,
           \A d \in Calls \ {c} : ~Alive(d),
           \A n \in Others : nets[n] = "absent" => nets'[n] = "absent"
    PROVE  AloneOf(c)'
<1>1. faults = 0
  BY DEF Undisturbed
<1>2. Live' \subseteq Live \cup {c}
  <2>1. ASSUME NEW n \in Networks, Appears(n), n # c
        PROVE  FALSE
    <3>1. nets'[n] = "up" /\ nets[n] = "absent"
      BY <2>1 DEF Appears, IInv, TypeOK, ServiceTypeOK
    <3>2. n \in Calls /\ n \in registered
      BY <2>1, <3>1 DEF Appears, Networks
    <3>3. Alive(n)
      BY <1>1, <3>2 DEF IInv, RequestInv, RequestOf, GuardInv, GuardOf, Alive
    <3>4. QED
      BY <2>1, <3>2, <3>3
  <2>2. ASSUME NEW n \in Networks, Appears(n) \/ GetsAddress(n) \/ Vanishes(n)
        PROVE  Live' \subseteq Live \cup {c}
    BY <2>1, <2>2 DEF Appears, GetsAddress, Vanishes, Live, IInv, TypeOK, ServiceTypeOK
  <2>3. CASE ScanEnds
    BY <2>3 DEF ScanEnds, linkVars, Live
  <2>4. QED
    BY <2>2, <2>3 DEF Environment
<1>3. UNCHANGED binding
  BY DEF Environment, Appears, GetsAddress, Vanishes, ScanEnds, linkVars
<1>4. QED
  BY <1>2, <1>3 DEF AloneOf, NewWifi, jobVars

LEMMA AloneStep ==
    ASSUME IInv, BoundInv, AloneInv, [HNext]_hvars
    PROVE  AloneInv'
<1>1. CASE UNCHANGED hvars
  BY <1>1
  DEF hvars, vars, osVars, jobVars, AloneInv, AloneOf, Undisturbed, Trying, Alive, NewWifi, Live
<1>2. CASE HNext
  <2> SUFFICES ASSUME NEW c \in Calls, Undisturbed(c)'
               PROVE  AloneOf(c)'
    BY DEF AloneInv, AloneOf
  <2>1. /\ Trying(c)' /\ faults' = 0 /\ c \notin disturbed /\ AloneOf(c)
        /\ \A d \in Calls \ {c} : ~Alive(d) /\ ~Alive(d)'
        /\ \A n \in Others : nets[n] = "absent" => nets'[n] = "absent"
    BY <1>2 DEF HNext, Undisturbed, AloneInv
  <2>2. ASSUME NEW d \in Calls, Step(d) PROVE AloneOf(c)'
    <3>1. faults = 0
      BY <2>1, <2>2, FaultsGrow DEF IInv
    <3>2. CASE d = c
      BY <2>1, <2>2, <3>1, <3>2, AloneOwnStep DEF Undisturbed
    <3>3. CASE d # c
      <4>1. Trying(c)
        BY <2>1, <2>2, <3>3, StepOthers DEF IInv, Spares, Trying, Alive
      <4>2. QED
        BY <2>1, <2>2, <3>1, <3>3, <4>1, AloneOtherStep DEF Undisturbed
    <3>4. QED
      BY <3>2, <3>3
  <2>3. CASE Environment /\ UNCHANGED <<callVars, jobVars, guard, faults>>
    <3>1. Undisturbed(c)
      BY <2>1, <2>3 DEF Undisturbed, Trying, Alive, jobVars
    <3>2. QED
      BY <2>1, <2>3, <3>1, AloneEnvironment
  <2>4. QED
    BY <1>2, <2>2, <2>3 DEF HNext, Next, Step
<1>3. QED
  BY <1>1, <1>2

-----------------------------------------------------------------------------
(* The theorem.                                                            *)

\* A connect that no other guard and no foreign network overlapped, and no
\* JNI call failed, binds the process to its own network, which stays bound
\* while the connection is held (backend.rs, "binds this process to it").
THEOREM AloneBinds == HSpec => []AloneIsBound
<1>1. HInit => IInv /\ BoundInv /\ AloneInv
  <2>1. Init => BoundInv /\ AloneInv
    BY DEF Init, BoundInv, AloneInv, AloneOf, Undisturbed
  <2>2. QED
    BY <2>1, InitIInv DEF HInit
<1>2. IInv /\ BoundInv /\ AloneInv /\ [HNext]_hvars => (IInv /\ BoundInv /\ AloneInv)'
  <2>1. [HNext]_hvars => [Next]_vars
    BY DEF HNext, hvars
  <2>2. QED
    BY <2>1, TypeStep, LockStep, CallsStep, ClearedStep, BoundStep, AloneStep
    DEF IInv
<1>3. IInv /\ AloneInv => AloneIsBound
  BY DEF AloneInv, AloneOf, AloneIsBound, Undisturbed, Trying, Alive
<1>4. QED
  BY <1>1, <1>2, <1>3, PTL DEF HSpec
=============================================================================
