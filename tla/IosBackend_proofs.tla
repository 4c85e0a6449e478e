------------------------- MODULE IosBackend_proofs ---------------------------
(***************************************************************************)
(* Proofs about IosBackend, for any sets of calls and SSIDs.               *)
(***************************************************************************)
EXTENDS IosBackend, TLAPS

-----------------------------------------------------------------------------
(* The inductive invariant.                                                *)

\* A future between acquisition and return.
Busy(c) == pc[c] \in {"probe", "apply"}

\* Whoever is busy holds op_lock, and a holder is busy.
LockInv == \A c \in Calls : holder = c <=> Busy(c)

\* What a call has before it asked for it, and a call that goes on has no result.
CallInv ==
    \A c \in Calls :
        /\ apply[c] # "none" => pc[c] \in {"apply", "done"}
        /\ pc[c] = "apply" => rx[c] # "ssids"
        /\ pc[c] # "done" => result[c] = "none"

\* Where a query found nothing, only the apply of an ended call put something
\* since: the lock keeps every other one out.
QueryInv ==
    \A c \in Calls :
        pc[c] = "probe" /\ rx[c] = "ssids" /\ Ssid(c) \notin configured[c] =>
            \/ installed[Ssid(c)] = None
            \/ installed[Ssid(c)] \in Calls /\ Orphan(installed[Ssid(c)])

IInv == TypeOK /\ LockInv /\ CallInv /\ QueryInv

-----------------------------------------------------------------------------
(* Type correctness.                                                       *)

LEMMA CallTypes ==
    ASSUME TypeOK, NEW c \in Calls
    PROVE  Ssid(c) \in Ssids /\ req[c] \in [kind : Kinds, ssid : Ssids]
BY DEF TypeOK, Ssid

\* The answer of an apply becomes a result.
LEMMA AnswerMapped ==
    ASSUME NEW answer \in Received \ {"none", "ssids"}
    PROVE  map_apply_received(answer) \in Results
BY DEF Received, map_apply_received, Results, ApplyErrors

\* Everything that changes when a call moves on or returns.
CallTypeOK ==
    /\ req \in [Calls -> [kind : Kinds, ssid : Ssids]]
    /\ pc \in [Calls -> {"idle", "locking", "probe", "apply", "done"}]
    /\ holder \in Calls \cup {None}
    /\ result \in [Calls -> Results \cup {"none"}]
    /\ rx \in [Calls -> Received]
    /\ configured \in [Calls -> SUBSET Ssids]

LEMMA ReturnTypes ==
    ASSUME TypeOK, NEW c \in Calls, NEW r \in Results, Return(c, r)
    PROVE  CallTypeOK'
BY DEF TypeOK, CallTypeOK, Return, FreshReceiver, Received

LEMMA AwaitTypes ==
    ASSUME TypeOK, NEW c \in Calls, NEW p \in {"probe", "apply"}, Await(c, p)
    PROVE  CallTypeOK'
BY DEF TypeOK, CallTypeOK, Await, FreshReceiver, Received

LEMMA ManagerTypes ==
    ASSUME TypeOK, NEW c \in Calls
    PROVE  /\ Apply(c) /\ UNCHANGED <<installed, asking, foreground>> => ManagerTypeOK'
           /\ Remove(Ssid(c)) /\ UNCHANGED <<apply, asking, foreground>> => ManagerTypeOK'
           /\ UNCHANGED managerVars => ManagerTypeOK'
BY CallTypes DEF TypeOK, ManagerTypeOK, Apply, Remove, managerVars

LEMMA TypeStep ==
    ASSUME TypeOK, CallInv, [Next]_vars
    PROVE  TypeOK'
<1>0. CallTypeOK /\ ManagerTypeOK
  BY DEF TypeOK, CallTypeOK
<1> SUFFICES CallTypeOK' /\ ManagerTypeOK'
  BY DEF TypeOK, CallTypeOK
<1> USE DEF Results, ApplyErrors
<1>1. ASSUME NEW c \in Calls, Start(c) PROVE CallTypeOK' /\ ManagerTypeOK'
  <2>1. CallTypeOK'
    BY <1>0, <1>1, ReturnTypes DEF Start, CallTypeOK, rxVars
  <2>2. QED
    BY <1>1, <2>1, ManagerTypes DEF Start
<1>2. ASSUME NEW c \in Calls, StartApply(c) PROVE CallTypeOK' /\ ManagerTypeOK'
  <2>1. CallTypeOK'
    BY <1>2, ReturnTypes, AwaitTypes DEF StartApply
  <2>2. QED
    BY <1>2, <2>1, ManagerTypes DEF StartApply, managerVars
<1>3. ASSUME NEW c \in Calls, StartProbe(c) PROVE CallTypeOK' /\ ManagerTypeOK'
  <2>1. CallTypeOK'
    BY <1>3, AwaitTypes DEF StartProbe
  <2>2. QED
    BY <1>0, <1>3, <2>1 DEF StartProbe, ManagerTypeOK
<1>4. ASSUME NEW c \in Calls, Disconnect(c) PROVE CallTypeOK' /\ ManagerTypeOK'
  <2>1. CallTypeOK'
    BY <1>4, ReturnTypes DEF Disconnect
  <2>2. QED
    BY <1>4, <2>1, ManagerTypes DEF Disconnect, managerVars
<1>5. ASSUME NEW c \in Calls, ListAdapters(c) \/ ProbeTimesOut(c) \/ Cancel(c)
      PROVE  CallTypeOK' /\ ManagerTypeOK'
  BY <1>5, ReturnTypes, ManagerTypes DEF ListAdapters, ProbeTimesOut, Cancel
<1>6. ASSUME NEW c \in Calls, ProbeReturns(c) PROVE CallTypeOK' /\ ManagerTypeOK'
  <2>1. CallTypeOK'
    BY <1>6, ReturnTypes, AwaitTypes DEF ProbeReturns
  <2>2. QED
    BY <1>6, <2>1, ManagerTypes DEF ProbeReturns, managerVars
<1>7. ASSUME NEW c \in Calls, ApplyReturns(c) PROVE CallTypeOK' /\ ManagerTypeOK'
  <2>1. rx[c] \in Received \ {"none", "ssids"}
    BY <1>7 DEF ApplyReturns, CallInv, TypeOK
  <2>2. map_apply_received(rx[c]) \in Results
    BY <2>1, AnswerMapped
  <2>3. QED
    BY <1>7, <2>2, ReturnTypes, ManagerTypes DEF ApplyReturns
<1>8. ASSUME NEW c \in Calls, ApplyTimesOut(c) PROVE CallTypeOK' /\ ManagerTypeOK'
  BY <1>8, ReturnTypes, ManagerTypes DEF ApplyTimesOut
<1>9. ASSUME NEW c \in Calls, InstallConfiguration(c)
      PROVE  CallTypeOK' /\ ManagerTypeOK'
  BY <1>0, <1>9, CallTypes
  DEF InstallConfiguration, Installs, CallTypeOK, ManagerTypeOK, callVars, rxVars
<1>10. ASSUME NEW c \in Calls, ApplyCompletes(c) PROVE CallTypeOK' /\ ManagerTypeOK'
  <2>1. ApplyAnswers(c) \cup {"RecvError"} \subseteq Received
    BY DEF ApplyAnswers, Received
  <2>2. QED
    BY <1>0, <1>10, <2>1
    DEF ApplyCompletes, Sends, CallTypeOK, ManagerTypeOK, callVars
<1>11. ASSUME NEW c \in Calls, QueryCompletes(c) PROVE CallTypeOK' /\ ManagerTypeOK'
  <2>1. Configured \in SUBSET Ssids /\ {"ssids", "RecvError"} \subseteq Received
    BY DEF Configured, Received
  <2>2. rx' \in [Calls -> Received]
    BY <1>0, <1>11, <2>1 DEF QueryCompletes, Sends, CallTypeOK
  <2>3. configured' \in [Calls -> SUBSET Ssids]
    BY <1>0, <1>11, <2>1 DEF QueryCompletes, CallTypeOK
  <2>4. UNCHANGED callVars /\ CallTypeOK'
    BY <1>0, <1>11, <2>2, <2>3 DEF QueryCompletes, CallTypeOK, callVars
  <2>5. ManagerTypeOK'
    BY <1>0, <1>11 DEF QueryCompletes, ManagerTypeOK
  <2>6. QED
    BY <2>4, <2>5
<1>12. CASE User
  BY <1>0, <1>12
  DEF User, SwitchApp, UserForgets, Remove, CallTypeOK, ManagerTypeOK, callVars, rxVars
<1>13. CASE UNCHANGED vars
  BY <1>0, <1>13
  DEF vars, managerVars, callVars, rxVars, CallTypeOK, ManagerTypeOK
<1>14. QED
  BY <1>1, <1>2, <1>3, <1>4, <1>5, <1>6, <1>7, <1>8, <1>9, <1>10, <1>11, <1>12, <1>13
  DEF Next, Task, Block

-----------------------------------------------------------------------------
(* The invariant is inductive.                                             *)

\* A step of call c leaves the futures of the other calls alone.
Others(c) ==
    \A d \in Calls \ {c} :
        /\ req'[d] = req[d] /\ pc'[d] = pc[d] /\ result'[d] = result[d]
        /\ rx'[d] = rx[d] /\ configured'[d] = configured[d]
        /\ apply'[d] = apply[d]

Step(c) == Start(c) \/ Cancel(c) \/ Task(c) \/ Block(c)

LEMMA StepOthers ==
    ASSUME TypeOK, NEW c \in Calls, Step(c)
    PROVE  Others(c) /\ UNCHANGED req
<1> USE DEF TypeOK, ManagerTypeOK, Others, Return, Await, FreshReceiver, Apply,
            managerVars, callVars, rxVars
<1>1. CASE Start(c) \/ Cancel(c)
  BY <1>1 DEF Start, Cancel
<1>2. CASE StartApply(c) \/ StartProbe(c) \/ Disconnect(c) \/ ListAdapters(c)
  BY <1>2 DEF StartApply, StartProbe, Disconnect, ListAdapters
<1>3. CASE ProbeReturns(c)
  BY <1>3 DEF ProbeReturns
<1>4. CASE ProbeTimesOut(c) \/ ApplyReturns(c) \/ ApplyTimesOut(c)
  BY <1>4 DEF ProbeTimesOut, ApplyReturns, ApplyTimesOut
<1>5. CASE InstallConfiguration(c) \/ ApplyCompletes(c) \/ QueryCompletes(c)
  BY <1>5
  DEF InstallConfiguration, Installs, ApplyCompletes, QueryCompletes, Sends
<1>6. QED
  BY <1>1, <1>2, <1>3, <1>4, <1>5 DEF Step, Task, Block

\* What a step does to its own future: it stays, awaits with a fresh receiver
\* and the lock, or ends and gives the lock back.
Moves(c) ==
    \/ /\ pc'[c] = pc[c] /\ result'[c] = result[c] /\ UNCHANGED holder
    \/ /\ pc[c] = "idle" /\ pc'[c] = "locking"
       /\ result'[c] = result[c] /\ UNCHANGED holder
    \/ /\ pc'[c] \in {"probe", "apply"} /\ holder' = c
       /\ holder = None \/ holder = c
       /\ pc[c] # "done" /\ pc'[c] # pc[c]
       /\ result'[c] = result[c] /\ rx'[c] = "none"
    \/ /\ pc[c] # "done" /\ pc'[c] = "done"
       /\ holder' = IF holder = c THEN None ELSE holder

LEMMA StepMoves ==
    ASSUME TypeOK, LockInv, NEW c \in Calls, Step(c)
    PROVE  Moves(c)
<1> USE DEF TypeOK, Moves, Return, Await, FreshReceiver, callVars
<1>1. CASE Start(c) \/ Cancel(c)
  BY <1>1 DEF Start, Cancel
<1>2. CASE StartApply(c) \/ StartProbe(c) \/ Disconnect(c) \/ ListAdapters(c)
  BY <1>2 DEF StartApply, StartProbe, Disconnect, ListAdapters, LockFree
<1>3. CASE ProbeReturns(c)
  BY <1>3 DEF ProbeReturns, LockInv, Busy
<1>4. CASE ProbeTimesOut(c) \/ ApplyReturns(c) \/ ApplyTimesOut(c)
  BY <1>4 DEF ProbeTimesOut, ApplyReturns, ApplyTimesOut
<1>5. CASE InstallConfiguration(c) \/ ApplyCompletes(c) \/ QueryCompletes(c)
  BY <1>5 DEF InstallConfiguration, ApplyCompletes, QueryCompletes
<1>6. QED
  BY <1>1, <1>2, <1>3, <1>4, <1>5 DEF Step, Task, Block

LEMMA LockStep ==
    ASSUME TypeOK, LockInv, [Next]_vars
    PROVE  LockInv'
<1>1. ASSUME NEW c \in Calls, Step(c) PROVE LockInv'
  <2>1. Others(c) /\ Moves(c)
    BY <1>1, StepOthers, StepMoves
  <2>2. QED
    BY <2>1, NamesAssumption DEF Others, Moves, LockInv, Busy, TypeOK
<1>2. CASE UNCHANGED callVars
  BY <1>2 DEF callVars, LockInv, Busy
<1>3. QED
  BY <1>1, <1>2 DEF Next, Step, User, vars

LEMMA CallStep ==
    ASSUME TypeOK, LockInv, CallInv, [Next]_vars
    PROVE  CallInv'
<1>1. ASSUME NEW c \in Calls, Step(c) PROVE CallInv'
  <2>1. Others(c) /\ Moves(c)
    BY <1>1, StepOthers, StepMoves
  <2>2. ASSUME apply'[c] # "none" PROVE pc'[c] \in {"apply", "done"}
    <3> USE <2>2 DEF CallInv, TypeOK, ManagerTypeOK
    <3>1. CASE UNCHANGED apply
      <4>1. pc[c] \in {"apply", "done"}
        BY <3>1
      <4>2. QED
        BY <1>1, <4>1
        DEF Step, Task, Block, Start, StartApply, StartProbe, Disconnect, ListAdapters,
            ProbeReturns, ProbeTimesOut, ApplyReturns, ApplyTimesOut, Cancel,
            InstallConfiguration, ApplyCompletes, QueryCompletes, Return, Await, callVars
    <3>2. CASE Apply(c) /\ Await(c, "apply")
      BY <3>2 DEF Await
    <3>3. CASE InstallConfiguration(c)
      BY <3>3 DEF InstallConfiguration, Installs, callVars
    <3>4. CASE ApplyCompletes(c)
      BY <3>4 DEF ApplyCompletes
    <3>5. QED
      BY <1>1, <3>1, <3>2, <3>3, <3>4
      DEF Step, Task, Block, Start, StartApply, StartProbe, Disconnect, ListAdapters,
          ProbeReturns, ProbeTimesOut, ApplyReturns, ApplyTimesOut, Cancel,
          QueryCompletes, managerVars
  <2>3. ASSUME pc'[c] = "apply" PROVE rx'[c] # "ssids"
    <3>1. CASE pc'[c] # pc[c]
      BY <2>1, <2>3, <3>1 DEF Moves
    <3>2. CASE ApplyCompletes(c)
      <4>1. PICK answer \in ApplyAnswers(c) \cup {"RecvError"} :
                Sends(c, "apply", answer)
        BY <3>2 DEF ApplyCompletes
      <4>2. answer # "ssids"
        BY DEF ApplyAnswers
      <4>3. QED
        BY <2>3, <3>2, <4>1, <4>2 DEF Sends, ApplyCompletes, CallInv, TypeOK, callVars
    <3>3. CASE QueryCompletes(c)
      BY <2>3, <3>3 DEF QueryCompletes, Sends, CallInv, TypeOK, callVars
    <3>4. CASE pc'[c] = pc[c] /\ ~ApplyCompletes(c) /\ ~QueryCompletes(c)
      <4>1. UNCHANGED rx
        BY <1>1, <2>3, <3>4
        DEF Step, Task, Block, Start, StartApply, StartProbe, Disconnect, ListAdapters,
            ProbeReturns, ProbeTimesOut, ApplyReturns, ApplyTimesOut, Cancel,
            InstallConfiguration, Return, Await, callVars, rxVars, TypeOK
      <4>2. QED
        BY <2>3, <3>4, <4>1 DEF CallInv
    <3>5. QED
      BY <3>1, <3>2, <3>3, <3>4
  <2>4. pc'[c] # "done" => result'[c] = "none"
    BY <2>1 DEF Moves, CallInv
  <2>5. QED
    BY <2>1, <2>2, <2>3, <2>4 DEF Others, CallInv
<1>2. CASE UNCHANGED <<callVars, rxVars, apply>>
  BY <1>2 DEF callVars, rxVars, CallInv
<1>3. QED
  BY <1>1, <1>2 DEF Next, Step, User, SwitchApp, UserForgets, vars, managerVars

\* What a step of call c does to the configurations: it removes the one of its
\* SSID, or its own apply installs one there.
Writes(c) ==
    \A s \in Ssids :
        \/ installed'[s] = installed[s]
        \/ s = Ssid(c) /\ installed'[s] = None
        \/ s = Ssid(c) /\ installed'[s] = c /\ InstallConfiguration(c)

LEMMA StepWrites ==
    ASSUME TypeOK, NEW c \in Calls, Step(c)
    PROVE  Writes(c)
<1>0. Ssid(c) \in Ssids /\ ManagerTypeOK
  BY CallTypes DEF TypeOK
<1> USE DEF Writes, ManagerTypeOK
<1>1. CASE UNCHANGED installed
  BY <1>1
<1>2. CASE Remove(Ssid(c))
  BY <1>0, <1>2 DEF Remove
<1>3. CASE InstallConfiguration(c)
  BY <1>0, <1>3 DEF InstallConfiguration, Installs
<1>4. QED
  BY <1>1, <1>2, <1>3
  DEF Step, Task, Block, Start, StartApply, StartProbe, Disconnect, ListAdapters,
      ProbeReturns, ProbeTimesOut, ApplyReturns, ApplyTimesOut, Cancel,
      ApplyCompletes, QueryCompletes, managerVars

\* A call whose apply can install something awaits it, and so holds the lock,
\* or has ended.
LEMMA InstallerHoldsOrEnded ==
    ASSUME IInv, NEW c \in Calls, InstallConfiguration(c)
    PROVE  /\ holder = c \/ Orphan(c)
           /\ pc'[c] = pc[c] /\ pc[c] \in {"apply", "done"}
BY DEF IInv, InstallConfiguration, Installs, CallInv, LockInv, Busy, Orphan, callVars

LEMMA QueryStep ==
    ASSUME IInv, [Next]_vars
    PROVE  QueryInv'
<1>0. TypeOK /\ LockInv /\ CallInv /\ QueryInv
  BY DEF IInv
<1>1. ASSUME NEW c \in Calls, Step(c), NEW d \in Calls,
             pc'[d] = "probe", rx'[d] = "ssids", Ssid(d)' \notin configured'[d],
             installed'[Ssid(d)'] # None
      PROVE  installed'[Ssid(d)'] \in Calls /\ pc'[installed'[Ssid(d)']] = "done"
  <2>1. Others(c) /\ Moves(c) /\ Writes(c) /\ UNCHANGED req
    BY <1>0, <1>1, StepOthers, StepMoves, StepWrites
  <2>2. Ssid(d)' = Ssid(d) /\ Ssid(d) \in Ssids
    BY <1>0, <2>1, CallTypes DEF Ssid
  <2>3. CASE c # d
    <3>1. /\ pc[d] = "probe" /\ rx[d] = "ssids" /\ Ssid(d) \notin configured[d]
          /\ holder = d
      BY <1>0, <1>1, <2>1, <2>2, <2>3 DEF Others, LockInv, Busy
    <3>2. CASE installed'[Ssid(d)] = installed[Ssid(d)]
      <4>1. installed[Ssid(d)] \in Calls /\ pc[installed[Ssid(d)]] = "done"
        BY <1>0, <1>1, <2>2, <3>1, <3>2 DEF QueryInv, Orphan
      <4>2. QED
        BY <2>1, <2>2, <3>2, <4>1 DEF Others, Moves
    <3>3. CASE installed'[Ssid(d)] = c /\ InstallConfiguration(c)
      BY <1>0, <2>2, <2>3, <3>1, <3>3, InstallerHoldsOrEnded DEF Orphan, LockInv, IInv
    <3>4. QED
      BY <1>1, <2>1, <2>2, <3>2, <3>3 DEF Writes
  <2>4. CASE c = d
    <3>1. pc[d] = "probe" /\ UNCHANGED callVars
      BY <1>0, <1>1, <2>1, <2>4
      DEF Moves, Step, Task, Block, Start, StartApply, StartProbe, Disconnect, ListAdapters,
          ProbeReturns, ProbeTimesOut, ApplyReturns, ApplyTimesOut, Cancel, Return, Await,
          InstallConfiguration, ApplyCompletes, QueryCompletes, FreshReceiver, TypeOK
    <3>2. apply[d] = "none"
      BY <1>0, <3>1 DEF CallInv
    <3>3. QueryCompletes(d)
      BY <1>0, <1>1, <2>4, <3>1, <3>2
      DEF Step, Task, Block, Start, StartApply, StartProbe, Disconnect, ListAdapters,
          ProbeReturns, ProbeTimesOut, ApplyReturns, ApplyTimesOut, Cancel, Return, Await,
          InstallConfiguration, Installs, ApplyCompletes, FreshReceiver, TypeOK, callVars
    <3>4. UNCHANGED installed
      BY <3>3 DEF QueryCompletes
    <3>5. CASE configured' = [configured EXCEPT ![d] = Configured]
      BY <1>0, <1>1, <2>2, <3>4, <3>5 DEF Configured, TypeOK
    <3>6. CASE Sends(d, "probe", "RecvError")
      BY <1>0, <1>1, <3>1, <3>6 DEF Sends, TypeOK
    <3>7. QED
      BY <3>1, <3>3, <3>5, <3>6 DEF QueryCompletes
  <2>5. QED
    BY <2>3, <2>4
<1>2. CASE UNCHANGED <<callVars, rxVars>>
           /\ \A s \in Ssids : installed'[s] \in {installed[s], None}
  <2>1. \A d \in Calls : Ssid(d)' = Ssid(d) /\ Ssid(d) \in Ssids
    BY <1>0, <1>2, CallTypes DEF Ssid, callVars
  <2>2. QED
    BY <1>0, <1>2, <2>1 DEF QueryInv, Orphan, callVars, rxVars
<1>3. CASE User
  BY <1>0, <1>2, <1>3 DEF User, SwitchApp, UserForgets, Remove, TypeOK, ManagerTypeOK
<1>4. CASE UNCHANGED vars
  BY <1>2, <1>4 DEF vars, managerVars
<1>5. QED
  BY <1>1, <1>3, <1>4 DEF Next, Step, QueryInv, Orphan

LEMMA InitIInv ==
    ASSUME Init PROVE IInv
<1>1. TypeOK
  BY DEF Init, TypeOK, ManagerInit, ManagerTypeOK, Received
<1>2. LockInv /\ CallInv /\ QueryInv
  BY NamesAssumption DEF Init, ManagerInit, LockInv, CallInv, QueryInv, Busy
<1>3. QED
  BY <1>1, <1>2 DEF IInv

\* The inductive invariant: types, who holds op_lock, which applies can still
\* install something, and what an answered query is worth.
THEOREM IosInvariantHolds == Spec => []IInv
<1>1. Init => IInv
  BY InitIInv
<1>2. IInv /\ [Next]_vars => IInv'
  BY TypeStep, LockStep, CallStep, QueryStep DEF IInv
<1>3. QED
  BY <1>1, <1>2, PTL DEF Spec

\* Every variable of the iOS backend keeps the type of its Rust counterpart.
THEOREM IosTypeCorrect == Spec => []TypeOK
<1>1. IInv => TypeOK
  BY DEF IInv
<1>2. QED
  BY <1>1, IosInvariantHolds, PTL

-----------------------------------------------------------------------------
(* What a step may never do.                                               *)

\* remove_profile says False only when it removed nothing, but for what the
\* late apply of an ended call installed after the query (mod.rs).
THEOREM FalseIsTrue == Spec => FalseRemovesNothing
<1>1. IInv /\ [Next]_vars =>
          [\A c \in Calls :
              pc[c] = "probe" /\ result'[c] = "False" /\ installed[Ssid(c)] # None =>
                  installed[Ssid(c)] # Before /\ Orphan(installed[Ssid(c)])]_vars
  <2> SUFFICES ASSUME IInv, Next, NEW c \in Calls,
                      pc[c] = "probe", result'[c] = "False", installed[Ssid(c)] # None
               PROVE  installed[Ssid(c)] # Before /\ Orphan(installed[Ssid(c)])
    BY DEF vars, callVars
  <2>0. TypeOK /\ CallInv /\ QueryInv /\ result[c] = "none"
    BY DEF IInv, CallInv
  <2>1. PICK d \in Calls : Step(d)
    BY <2>0 DEF Next, Step, User, callVars
  <2>2. c = d
    BY <2>0, <2>1, StepOthers DEF Others
  <2>3. rx[c] = "ssids" /\ Ssid(c) \notin configured[c]
    <3>1. ProbeReturns(c)
      BY <2>0, <2>1, <2>2
      DEF Step, Task, Block, Start, StartApply, StartProbe, Disconnect, ListAdapters,
          ProbeTimesOut, ApplyReturns, ApplyTimesOut, Cancel, Return, InstallConfiguration,
          ApplyCompletes, QueryCompletes, TypeOK, callVars
    <3>2. QED
      BY <2>0, <3>1 DEF ProbeReturns, Return, Await, TypeOK
  <2>4. installed[Ssid(c)] \in Calls /\ Orphan(installed[Ssid(c)])
    BY <2>0, <2>3 DEF QueryInv
  <2>5. QED
    BY <2>4, NamesAssumption
<1>2. QED
  BY <1>1, IosInvariantHolds, PTL DEF Spec, FalseRemovesNothing

\* A configuration goes by the user's hand or in the step in which a
\* disconnect, a remove_profile or a timed out connect returns.
THEOREM RemovalsAnswered == Spec => RemovalIsAnswered
<1> DEFINE Answers(c, s) ==
      /\ Ssid(c) = s /\ pc[c] # "done"
      /\ \/ req[c].kind = "disconnect" /\ result'[c] = "Ok"
         \/ req[c].kind = "remove" /\ result'[c] \in {"True", "False"}
         \/ pc[c] = "apply" /\ result'[c] = "Timeout"
<1>1. IInv /\ [Next]_vars =>
          [\A s \in Ssids : installed[s] # None /\ installed'[s] = None /\ ~User =>
              \E c \in Calls : Answers(c, s)]_vars
  <2> SUFFICES ASSUME IInv, Next, NEW s \in Ssids,
                      installed[s] # None, installed'[s] = None, ~User
               PROVE  \E c \in Calls : Answers(c, s)
    BY DEF vars, managerVars
  <2>0. TypeOK
    BY DEF IInv
  <2>1. PICK c \in Calls : Step(c)
    BY DEF Next, Step
  <2>2. Ssid(c) = s
    BY <2>0, <2>1, StepWrites DEF Writes
  <2>3. Disconnect(c) \/ ProbeReturns(c) \/ ApplyTimesOut(c)
    BY <2>1, NamesAssumption, <2>0, <2>2
    DEF Step, Task, Block, Start, StartApply, StartProbe, ListAdapters, ProbeTimesOut,
        ApplyReturns, Cancel, InstallConfiguration, Installs, ApplyCompletes,
        QueryCompletes, managerVars, TypeOK, ManagerTypeOK
  <2>4. CASE Disconnect(c)
    BY <2>0, <2>2, <2>4 DEF Disconnect, Return, TypeOK
  <2>5. CASE ProbeReturns(c)
    BY <2>0, <2>2, <2>5 DEF ProbeReturns, Return, TypeOK
  <2>6. CASE ApplyTimesOut(c)
    BY <2>0, <2>2, <2>6 DEF ApplyTimesOut, Return, TypeOK
  <2>7. QED
    BY <2>3, <2>4, <2>5, <2>6
<1>2. QED
  BY <1>1, IosInvariantHolds, PTL DEF Spec, RemovalIsAnswered

\* While a connect waits, only the user and the applies of ended calls touch
\* the configuration it installed (mod.rs, op_lock).
THEOREM NobodyTouches == Spec => NobodyTramples
<1>1. IInv /\ [Next]_vars =>
          [\A c \in Calls :
              (pc[c] = "apply" /\ pc'[c] = "apply"
               /\ installed[Ssid(c)] = c /\ installed'[Ssid(c)] # c) =>
                  \/ User
                  \/ installed'[Ssid(c)] \in Calls /\ Orphan(installed'[Ssid(c)])]_vars
  <2> SUFFICES ASSUME IInv, Next, ~User, NEW c \in Calls,
                      pc[c] = "apply", pc'[c] = "apply",
                      installed[Ssid(c)] = c, installed'[Ssid(c)] # c
               PROVE  installed'[Ssid(c)] \in Calls /\ Orphan(installed'[Ssid(c)])
    BY DEF vars, managerVars
  <2>0. TypeOK /\ LockInv /\ Ssid(c) \in Ssids /\ holder = c
    BY CallTypes DEF IInv, LockInv, Busy
  <2>1. PICK d \in Calls : Step(d)
    BY DEF Next, Step
  <2>2. CASE InstallConfiguration(d)
    BY <2>0, <2>2, InstallerHoldsOrEnded
    DEF InstallConfiguration, Installs, TypeOK, ManagerTypeOK
  <2>3. CASE Disconnect(d)
    BY <2>0, <2>3, NamesAssumption DEF Disconnect, LockFree
  <2>4. CASE ProbeReturns(d) \/ ApplyTimesOut(d)
    <3>1. d = c
      BY <2>0, <2>4 DEF ProbeReturns, ApplyTimesOut, LockInv, Busy
    <3>2. QED
      BY <2>0, <2>4, <3>1 DEF ProbeReturns, ApplyTimesOut, Return, TypeOK
  <2>5. QED
    BY <2>0, <2>1, <2>2, <2>3, <2>4
    DEF Step, Task, Block, Start, StartApply, StartProbe, ListAdapters, ProbeTimesOut,
        ApplyReturns, Cancel, ApplyCompletes, QueryCompletes, managerVars
<1>2. QED
  BY <1>1, IosInvariantHolds, PTL DEF Spec, NobodyTramples

-----------------------------------------------------------------------------
(* The backend implements AdapterLocks.                                    *)

\* A step moves one call's status as the abstract lock does, or not at all.
LEMMA StatusMoves ==
    ASSUME IInv, NEW c \in Calls, Step(c)
    PROVE  \/ Status(c)' = Status(c)
           \/ Status(c)' = "done" /\ Status(c) # "done"
           \/ Status(c) = "idle" /\ Status(c)' = "queued"
           \/ Status(c) = "queued" /\ Status(c)' = "inside" /\ LockFree
<1>0. TypeOK /\ LockInv
  BY DEF IInv
<1> USE <1>0 DEF Status, TypeOK, Await, Return, callVars
<1>1. CASE Start(c) \/ Cancel(c)
  BY <1>1 DEF Start, Cancel
<1>2. CASE StartApply(c) \/ StartProbe(c) \/ Disconnect(c) \/ ListAdapters(c)
  BY <1>2 DEF StartApply, StartProbe, Disconnect, ListAdapters
<1>3. CASE ProbeReturns(c)
  BY <1>3 DEF ProbeReturns
<1>4. CASE ProbeTimesOut(c) \/ ApplyReturns(c) \/ ApplyTimesOut(c)
  BY <1>4 DEF ProbeTimesOut, ApplyReturns, ApplyTimesOut
<1>5. CASE InstallConfiguration(c) \/ ApplyCompletes(c) \/ QueryCompletes(c)
  BY <1>5 DEF InstallConfiguration, ApplyCompletes, QueryCompletes
<1>6. QED
  BY <1>1, <1>2, <1>3, <1>4, <1>5 DEF Step, Task, Block

\* Calls never overlap: IosBackend implements AdapterLocks (op_lock, held over
\* every await).
THEOREM IosSerializes == Spec => CallsAreSerialized
<1> DEFINE on == [c \in Calls |-> "en0"]
           st == [c \in Calls |-> Status(c)]
<1>1. Init => Locks!Init
  <2> SUFFICES ASSUME Init PROVE Locks!Init
    OBVIOUS
  <2>1. st = [c \in Calls |-> "idle"]
    BY DEF Init, Status
  <2>2. QED
    BY <2>1 DEF Locks!Init
<1>2. IInv /\ [Next]_vars => [Locks!Next]_(Locks!vars)
  <2> SUFFICES ASSUME IInv, [Next]_vars PROVE [Locks!Next]_(Locks!vars)
    OBVIOUS
  <2>0. TypeOK /\ LockInv
    BY DEF IInv
  <2>1. ASSUME NEW c \in Calls, Step(c)
        PROVE  Locks!Ask(c) \/ Locks!Enter(c) \/ Locks!Finish(c) \/ UNCHANGED Locks!vars
    <3>0. Others(c)
      BY <2>0, <2>1, StepOthers
    <3>1. st' = [st EXCEPT ![c] = Status(c)']
      <4>1. \A d \in Calls \ {c} : Status(d)' = Status(d)
        BY <3>0 DEF Others, Status
      <4>2. QED
        BY <4>1
    <3>2. CASE Status(c)' = Status(c)
      BY <3>1, <3>2 DEF Locks!vars
    <3>3. CASE Status(c)' = "done" /\ Status(c) # "done"
      BY <3>1, <3>3 DEF Locks!Finish
    <3>4. CASE Status(c) = "idle" /\ Status(c)' = "queued"
      BY <3>1, <3>4 DEF Locks!Ask
    <3>5. CASE Status(c) = "queued" /\ Status(c)' = "inside" /\ LockFree
      <4>1. \A d \in Calls : Status(d) # "inside"
        BY <2>0, <3>5, NamesAssumption DEF LockInv, LockFree, Busy, Status, TypeOK
      <4>2. QED
        BY <3>1, <3>5, <4>1 DEF Locks!Enter
    <3>6. QED
      BY <2>1, <3>2, <3>3, <3>4, <3>5, StatusMoves
  <2>2. ASSUME UNCHANGED pc PROVE UNCHANGED Locks!vars
    BY <2>2 DEF Locks!vars, Status
  <2>3. QED
    BY <2>1, <2>2 DEF Next, Step, Locks!Next, User, vars, callVars
<1>3. QED
  BY <1>1, <1>2, IosInvariantHolds, PTL DEF Spec, CallsAreSerialized, Locks!Spec
=============================================================================
