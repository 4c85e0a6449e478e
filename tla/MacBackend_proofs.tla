------------------------- MODULE MacBackend_proofs ---------------------------
(***************************************************************************)
(* Proofs about MacBackend, for any sets of calls, SSIDs and timeouts, any *)
(* poll interval and any budget.                                           *)
(***************************************************************************)
EXTENDS MacBackend, TLAPS

-----------------------------------------------------------------------------
(* The inductive invariant.                                                *)

\* Whoever is past the adapter's mutex holds it, and a holder is.
Inside(c) == pc[c] \in {"preflight", "associate", "probe", "disconnect"}

LockInv == \A c \in Calls : holder = c <=> Inside(c)

\* What a future asks of a worker, and the call it belongs to.
FutureOf(c) ==
    /\ pc[c] \in {"idle", "locking", "check"} => work[c] = "none"
    /\ pc[c] = "preflight" => work[c] = "scan"
    /\ pc[c] \in {"associate", "probe", "disconnect", "remove", "bsses", "context"} =>
          work[c] = pc[c]
    /\ pc[c] = "done" => at[c] # "ended"

\* The answers of a worker.
Answers(w) ==
    CASE w = "scan" -> {"seen", "unseen", "failed"}
      [] w = "associate" -> {"Ok"} \cup AssociateErrors
      [] w = "remove" -> {"True", "False", "PermissionDenied", "Os"}
      [] w = "probe" -> {"True", "False"}
      [] OTHER -> {"Ok", "Os", "PermissionDenied", "AdapterNotFound"}

\* How far a worker can be, and what it has returned.
WorkerOf(c) ==
    /\ at[c] = "none" <=> work[c] = "none"
    /\ at[c] = "waiting" => work[c] \notin {"remove", "probe"}
    /\ at[c] = "using" =>
          work[c] \in {"scan", "associate", "disconnect", "bsses", "context"}
    /\ at[c] = "matched" => work[c] = "disconnect"
    /\ at[c] = "free" => work[c] \in {"remove", "probe", "context"}
    /\ at[c] = "ended" => out[c] \in Answers(work[c])

\* The clock of a call runs in its pre-flight; between two scans of it no
\* worker runs.
ClockOf(c) ==
    /\ pf[c] = "off" <=> pc[c] # "preflight"
    /\ pf[c] \in {"sleeping", "Visible", "NotVisible", "Skipped"} => at[c] = "ended"

\* A call's association is with its SSID, and what a disconnect has compared
\* with its own is not an association another call has made since.
JoinInv == joined # None => current = Ssid(joined)

MatchOf(c) == at[c] = "matched" /\ joined # None => Ssid(joined) = Ssid(c)

FutureInv == \A c \in Calls : FutureOf(c)
WorkerInv == \A c \in Calls : WorkerOf(c)
ClockInv == \A c \in Calls : ClockOf(c)
MatchInv == \A c \in Calls : MatchOf(c)

\* A pause that is not over ends within the budget.
PauseOf(c) ==
    pf[c] = "sleeping" /\ timer[c] # 0 => elapsed[c] + timer[c] <= budget[c]

PauseInv == \A c \in Calls : PauseOf(c)

IInv ==
    /\ TypeOK /\ LockInv /\ FutureInv /\ WorkerInv /\ ClockInv
    /\ ClientIsExclusive /\ JoinInv /\ MatchInv
    /\ PauseInv /\ TimeoutCoversPreflight
-----------------------------------------------------------------------------
(* Type correctness.                                                       *)

CallTypeOK ==
    /\ req \in [Calls -> Requests]
    /\ pc \in [Calls -> {"idle", "locking", "preflight", "associate", "probe",
                         "disconnect", "remove", "check", "bsses", "context", "done"}]
    /\ holder \in Calls \cup {None}
    /\ result \in [Calls -> Results \cup {"none"}]

WorkTypeOK ==
    /\ work \in [Calls -> Works]
    /\ at \in [Calls -> {"none", "waiting", "using", "matched", "free", "ended"}]
    /\ out \in [Calls -> Outcomes \cup {"none"}]

MacTypeOK ==
    /\ client \in Calls \cup {None}
    /\ current \in Ssids \cup {None}
    /\ joined \in Calls \cup {None}
    /\ keychain \in SUBSET Ssids
    /\ threads \in Nat

LEMMA TypeParts ==
    TypeOK <=> PreflightTypeOK /\ CallTypeOK /\ WorkTypeOK /\ MacTypeOK
BY DEF TypeOK, CallTypeOK, WorkTypeOK, MacTypeOK

\* The timeouts a call works with are numbers.
LEMMA CallTimes ==
    ASSUME TypeOK, NEW c \in Calls
    PROVE  /\ req[c].timeout \in Nat
           /\ elapsed[c] \in Nat /\ timer[c] \in Nat /\ budget[c] \in Nat
           /\ PreflightBudget(c) \in Nat
           /\ Remaining(c) \in Nat
           /\ Ssid(c) \in Ssids
<1>1. req[c] \in Requests /\ elapsed[c] \in 0..MaxElapsed
  BY DEF TypeOK, PreflightTypeOK
<1>2. req[c].timeout \in Nat /\ elapsed[c] \in Nat
  <2>1. req[c].timeout \in Timeouts
    BY <1>1 DEF Requests
  <2>2. req[c].timeout \in Nat
    BY <2>1, TimeoutsAssumption, Zenon
  <2>3. elapsed[c] \in Nat
    BY <1>1, ElapsedAssumption
  <2>4. QED
    BY <2>2, <2>3
<1>3. req[c].timeout \div 2 \in Nat
  BY <1>2
<1>4. QED
  BY <1>1, <1>2, <1>3, TimeoutsAssumption
  DEF TypeOK, PreflightTypeOK, PreflightBudget, Smaller, Remaining, SaturatingSub, Ssid, Requests

LEMMA ReturnTypes ==
    ASSUME TypeOK, NEW c \in Calls, NEW r \in Results, Return(c, r)
    PROVE  CallTypeOK' /\ WorkTypeOK'
BY DEF TypeOK, CallTypeOK, WorkTypeOK, Return, Idle, Works, workVars

LEMMA RunTypes ==
    ASSUME TypeOK, NEW c \in Calls, NEW w \in Works, Run(c, w)
    PROVE  WorkTypeOK'
BY DEF TypeOK, WorkTypeOK, Run

LEMMA WorkEndsTypes ==
    ASSUME TypeOK, NEW c \in Calls, NEW r \in Outcomes, WorkEnds(c, r)
    PROVE  WorkTypeOK' /\ client' \in Calls \cup {None}
BY DEF TypeOK, WorkTypeOK, WorkEnds, Idle, Works

LEMMA ClockTypes ==
    ASSUME TypeOK, NEW c \in Calls,
           \/ UNCHANGED clockVars
           \/ StopClock(c)
           \/ WakeUp(c)
           \/ Begin(c, PreflightBudget(c))
           \/ SetTimeout(c, Remaining(c))
           \/ out[c] \in Answers("scan") /\ ScanReturns(c, out[c])
    PROVE  PreflightTypeOK'
<1> USE CallTimes, ElapsedAssumption DEF TypeOK, PreflightTypeOK, ScanOutcome
<1>1. CASE UNCHANGED clockVars
  BY <1>1 DEF clockVars
<1>2. CASE StopClock(c) \/ WakeUp(c)
  <2>1. CASE StopClock(c)
    BY <2>1 DEF StopClock
  <2>2. CASE WakeUp(c)
    BY <2>2 DEF WakeUp
  <2>3. QED
    BY <1>2, <2>1, <2>2
<1>3. CASE Begin(c, PreflightBudget(c)) \/ SetTimeout(c, Remaining(c))
  BY <1>3 DEF Begin, SetTimeout
<1>4. CASE out[c] \in Answers("scan") /\ ScanReturns(c, out[c])
  <2> DEFINE remaining == SaturatingSub(budget[c], elapsed[c])
  <2>1. remaining \in Nat /\ Pause(remaining) \in Nat
    BY IntervalAssumption DEF SaturatingSub, Pause, Smaller
  <2>2. out[c] \in {"seen", "unseen", "failed"}
    BY <1>4 DEF Answers
  <2>3. QED
    BY <1>4, <2>1, <2>2 DEF ScanReturns
<1>5. QED
  BY <1>1, <1>2, <1>3, <1>4

\* The futures' steps.
LEMMA FutureTypes ==
    ASSUME TypeOK, FutureInv, WorkerInv, NEW c \in Calls, Start(c) \/ Cancel(c) \/ Task(c)
    PROVE  TypeOK'
<1>0. PreflightTypeOK /\ CallTypeOK /\ WorkTypeOK /\ MacTypeOK /\ FutureOf(c) /\ WorkerOf(c)
  BY TypeParts DEF FutureInv, WorkerInv
<1>1. MacTypeOK'
  BY <1>0
  DEF Start, Cancel, Task, AcquireLock, PreflightScan, PreflightAgain, Associate,
      AssociateReturns, AssociateTimesOut, ProbeReturns, WorkerReturns, EagerCheck,
      ListReturns, osVars, radio, MacTypeOK
<1> SUFFICES PreflightTypeOK' /\ CallTypeOK' /\ WorkTypeOK'
  BY <1>1 DEF TypeOK, CallTypeOK, WorkTypeOK, MacTypeOK
<1>2. \A r \in Results : Return(c, r) => CallTypeOK' /\ WorkTypeOK'
  BY ReturnTypes
<1>3. \A w \in Works : Run(c, w) => WorkTypeOK'
  BY RunTypes
<1>4. at[c] = "ended" /\ work[c] \in {"associate", "remove", "disconnect", "bsses", "context"} =>
          out[c] \in Results
  BY <1>0 DEF WorkerOf, Answers, Results, AssociateErrors
<1> USE <1>0, <1>2, <1>3, <1>4 DEF Results, AssociateErrors, Works, FutureOf
<1>5. CASE Start(c)
  BY <1>5, ClockTypes DEF Start, Await, CallTypeOK, WorkTypeOK, workVars
<1>6. CASE Cancel(c)
  BY <1>6, ClockTypes DEF Cancel
<1>7. CASE AcquireLock(c)
  BY <1>7, ClockTypes DEF AcquireLock, CallTypeOK
<1>8. CASE PreflightScan(c)
  <2>1. out[c] \in Answers("scan")
    BY <1>8 DEF PreflightScan, WorkerOf
  <2>2. PreflightTypeOK'
    BY <1>8, <2>1, ClockTypes DEF PreflightScan
  <2>3. QED
    BY <1>8, <2>2 DEF PreflightScan, callVars, workVars, CallTypeOK, WorkTypeOK
<1>9. CASE PreflightAgain(c)
  BY <1>9, ClockTypes DEF PreflightAgain, callVars, CallTypeOK
<1>10. CASE Associate(c)
  BY <1>10, ClockTypes DEF Associate, Await, CallTypeOK
<1>11. CASE AssociateReturns(c)
  BY <1>11, ClockTypes DEF AssociateReturns, Await, CallTypeOK
<1>12. CASE AssociateTimesOut(c)
  BY <1>12, ClockTypes DEF AssociateTimesOut
<1>13. CASE ProbeReturns(c)
  BY <1>13, ClockTypes DEF ProbeReturns, ProbeResult
<1>14. CASE WorkerReturns(c)
  BY <1>14, ClockTypes DEF WorkerReturns
<1>15. CASE EagerCheck(c)
  BY <1>15, ClockTypes DEF EagerCheck, Await, CallTypeOK
<1>16. CASE ListReturns(c)
  BY <1>16, ClockTypes DEF ListReturns, Await, CallTypeOK
<1>17. QED
  BY <1>5, <1>6, <1>7, <1>8, <1>9, <1>10, <1>11, <1>12, <1>13, <1>14, <1>15, <1>16 DEF Task

\* The workers' steps.
LEMMA WorkerTypes ==
    ASSUME TypeOK, NEW c \in Calls, Worker(c)
    PROVE  TypeOK'
<1>0. PreflightTypeOK /\ CallTypeOK /\ WorkTypeOK /\ MacTypeOK
  BY TypeParts
<1>1. PreflightTypeOK' /\ CallTypeOK'
  BY <1>0
  DEF Worker, EnterClient, Scan, ConnectBlocking, ReadCurrent, Disassociate, ReadInterface,
      Keychain, clockVars, callVars, PreflightTypeOK, CallTypeOK
<1> SUFFICES WorkTypeOK' /\ MacTypeOK'
  BY <1>1 DEF TypeOK, CallTypeOK, WorkTypeOK, MacTypeOK
<1>2. \A r \in Outcomes : WorkEnds(c, r) => WorkTypeOK' /\ client' \in Calls \cup {None}
  BY WorkEndsTypes
<1>8. Ssid(c) \in Ssids
  BY CallTimes
<1> USE <1>0, <1>2, <1>8 DEF Outcomes, AssociateErrors, MacTypeOK, radio
<1>3. CASE EnterClient(c)
  BY <1>3 DEF EnterClient, WorkTypeOK
<1>4. CASE Scan(c) \/ ConnectBlocking(c)
  BY <1>4 DEF Scan, ConnectBlocking
<1>5. CASE ReadCurrent(c) \/ Disassociate(c) \/ ReadInterface(c)
  BY <1>5 DEF ReadCurrent, Disassociate, ReadInterface, WorkTypeOK
<1>6. CASE Keychain(c)
  BY <1>6 DEF Keychain
<1>7. QED
  BY <1>3, <1>4, <1>5, <1>6 DEF Worker

LEMMA TypeStep ==
    ASSUME TypeOK, FutureInv, WorkerInv, [Next]_vars
    PROVE  TypeOK'
<1>0. PreflightTypeOK /\ CallTypeOK /\ WorkTypeOK /\ MacTypeOK
  BY TypeParts
<1>1. CASE SystemMoves \/ KeychainEdited \/ UNCHANGED vars
  BY <1>0, <1>1
  DEF SystemMoves, KeychainEdited, vars, clockVars, callVars, workVars, osVars, radio,
      TypeOK, CallTypeOK, WorkTypeOK, MacTypeOK, PreflightTypeOK
<1>2. CASE Tick
  <2>1. PreflightTypeOK'
    BY <1>0, <1>2, ElapsedAssumption DEF Tick, TimePasses, SaturatingSub, PreflightTypeOK
  <2>2. QED
    BY <1>0, <1>2, <2>1
    DEF Tick, callVars, workVars, osVars, radio, TypeOK, CallTypeOK, WorkTypeOK, MacTypeOK
<1>3. QED
  BY <1>1, <1>2, FutureTypes, WorkerTypes DEF Next
-----------------------------------------------------------------------------
(* The invariant is inductive: what a call says of itself.                 *)

Step(c) == Start(c) \/ Cancel(c) \/ Task(c) \/ Worker(c)

\* A step of call c leaves the other calls alone.
Spares(c) ==
    \A d \in Calls \ {c} :
        /\ pc'[d] = pc[d] /\ result'[d] = result[d]
        /\ work'[d] = work[d] /\ at'[d] = at[d] /\ out'[d] = out[d]
        /\ pf'[d] = pf[d] /\ budget'[d] = budget[d]
        /\ elapsed'[d] = elapsed[d] /\ timer'[d] = timer[d]

LEMMA StepSpares ==
    ASSUME TypeOK, NEW c \in Calls, Step(c)
    PROVE  Spares(c) /\ UNCHANGED <<req, threads>>
<1> USE DEF TypeOK, PreflightTypeOK, Spares, Return, Await, Idle, Run, StopClock, WorkEnds,
            clockVars, callVars, workVars, osVars
<1>1. CASE Start(c) \/ Cancel(c)
  BY <1>1 DEF Start, Cancel
<1>2. CASE AcquireLock(c)
  BY <1>2 DEF AcquireLock, Begin
<1>3. CASE PreflightScan(c) \/ PreflightAgain(c)
  BY <1>3 DEF PreflightScan, PreflightAgain, ScanReturns, WakeUp
<1>4. CASE Associate(c) \/ AssociateReturns(c) \/ AssociateTimesOut(c)
  BY <1>4 DEF Associate, AssociateReturns, AssociateTimesOut, SetTimeout
<1>5. CASE ProbeReturns(c) \/ WorkerReturns(c) \/ EagerCheck(c) \/ ListReturns(c)
  BY <1>5 DEF ProbeReturns, WorkerReturns, EagerCheck, ListReturns
<1>6. CASE EnterClient(c) \/ Scan(c) \/ ConnectBlocking(c)
  BY <1>6 DEF EnterClient, Scan, ConnectBlocking
<1>7. CASE ReadCurrent(c) \/ Disassociate(c) \/ ReadInterface(c)
  BY <1>7 DEF ReadCurrent, Disassociate, ReadInterface
<1>8. CASE Keychain(c)
  BY <1>8 DEF Keychain
<1>9. QED
  BY <1>1, <1>2, <1>3, <1>4, <1>5, <1>6, <1>7, <1>8 DEF Step, Task, Worker

\* The call's own future, worker and clock.
LEMMA OwnStep ==
    ASSUME IInv, NEW c \in Calls, Step(c)
    PROVE  FutureOf(c)' /\ WorkerOf(c)' /\ ClockOf(c)'
<1>0. TypeOK /\ FutureOf(c) /\ WorkerOf(c) /\ ClockOf(c)
  BY DEF IInv, FutureInv, WorkerInv, ClockInv
<1> USE <1>0 DEF TypeOK, PreflightTypeOK, FutureOf, WorkerOf, ClockOf,
                 clockVars, callVars, workVars, osVars
<1>1. CASE Start(c)
  BY <1>1 DEF Start, Await, Run
<1>2. CASE Cancel(c)
  BY <1>2 DEF Cancel, Return, Idle, StopClock
<1>3. CASE AcquireLock(c)
  BY <1>3 DEF AcquireLock, Return, Idle, Run, Begin
<1>4. CASE PreflightScan(c)
  <2>1. out[c] \in {"seen", "unseen", "failed"}
    BY <1>4 DEF PreflightScan, Answers
  <2>2. pf'[c] \in {"sleeping", "Visible", "NotVisible", "Skipped"}
    BY <1>4, <2>1 DEF PreflightScan, ScanReturns
  <2>3. QED
    BY <1>4, <2>2 DEF PreflightScan
<1>5. CASE PreflightAgain(c)
  BY <1>5 DEF PreflightAgain, WakeUp, Run
<1>6. CASE Associate(c)
  BY <1>6 DEF Associate, Return, Await, Idle, Run, StopClock, SetTimeout
<1>7. CASE AssociateReturns(c) \/ AssociateTimesOut(c)
  BY <1>7
  DEF AssociateReturns, AssociateTimesOut, Return, Await, Idle, Run, StopClock
<1>8. CASE ProbeReturns(c) \/ WorkerReturns(c)
  BY <1>8 DEF ProbeReturns, WorkerReturns, Return, Idle
<1>9. CASE EagerCheck(c) \/ ListReturns(c)
  BY <1>9 DEF EagerCheck, ListReturns, Return, Await, Idle, Run
<1>10. CASE EnterClient(c)
  BY <1>10 DEF EnterClient, Works
<1>11. CASE Scan(c)
  BY <1>11 DEF Scan, WorkEnds, Idle, Answers
<1>12. CASE ConnectBlocking(c)
  BY <1>12 DEF ConnectBlocking, WorkEnds, Idle, Answers
<1>13. CASE ReadCurrent(c) \/ Disassociate(c) \/ ReadInterface(c)
  BY <1>13 DEF ReadCurrent, Disassociate, ReadInterface, WorkEnds, Idle, Answers
<1>14. CASE Keychain(c)
  BY <1>14 DEF Keychain, WorkEnds, Idle, Answers
<1>15. QED
  BY <1>1, <1>2, <1>3, <1>4, <1>5, <1>6, <1>7, <1>8, <1>9, <1>10, <1>11, <1>12, <1>13, <1>14
  DEF Step, Task, Worker

LEMMA CallsStep ==
    ASSUME IInv, [Next]_vars
    PROVE  FutureInv' /\ WorkerInv' /\ ClockInv'
<1>0. FutureInv /\ WorkerInv /\ ClockInv
  BY DEF IInv
<1>1. ASSUME NEW c \in Calls, Step(c), NEW d \in Calls
      PROVE  FutureOf(d)' /\ WorkerOf(d)' /\ ClockOf(d)'
  <2>1. CASE d = c
    BY <1>1, <2>1, OwnStep
  <2>2. CASE d # c
    <3>1. Spares(c) /\ UNCHANGED req
      BY <1>1, StepSpares DEF IInv
    <3>2. FutureOf(d) /\ WorkerOf(d) /\ ClockOf(d)
      BY <1>0 DEF FutureInv, WorkerInv, ClockInv
    <3>3. QED
      BY <2>2, <3>1, <3>2 DEF Spares, FutureOf, WorkerOf, ClockOf
  <2>3. QED
    BY <2>1, <2>2
<1>2. CASE UNCHANGED <<pf, callVars, workVars>>
  BY <1>0, <1>2
  DEF callVars, workVars, FutureInv, WorkerInv, ClockInv, FutureOf, WorkerOf, ClockOf
<1>3. QED
  BY <1>1, <1>2
  DEF Next, Step, FutureInv, WorkerInv, ClockInv, SystemMoves, KeychainEdited, Tick, TimePasses, vars,
      clockVars
-----------------------------------------------------------------------------
(* The invariant is inductive: the lock, the client, the association and   *)
(* the keychain, which the calls share.                                    *)

\* What a step does to its own future and to the lock.
Moves(c) ==
    \/ UNCHANGED holder /\ (Inside(c)' <=> Inside(c))
    \/ holder = None /\ holder' = c /\ Inside(c)'
    \/ pc'[c] = "done" /\ holder' = IF holder = c THEN None ELSE holder

LEMMA StepMoves ==
    ASSUME TypeOK, NEW c \in Calls, Step(c)
    PROVE  Moves(c)
<1> USE DEF TypeOK, Moves, Inside, Return, Await, callVars
<1>1. CASE Start(c) \/ Cancel(c)
  BY <1>1 DEF Start, Cancel
<1>2. CASE AcquireLock(c)
  BY <1>2 DEF AcquireLock, LockFree
<1>3. CASE PreflightScan(c) \/ PreflightAgain(c) \/ Associate(c)
  BY <1>3 DEF PreflightScan, PreflightAgain, Associate
<1>4. CASE AssociateReturns(c) \/ AssociateTimesOut(c) \/ ProbeReturns(c)
  BY <1>4 DEF AssociateReturns, AssociateTimesOut, ProbeReturns
<1>5. CASE WorkerReturns(c) \/ EagerCheck(c) \/ ListReturns(c)
  BY <1>5 DEF WorkerReturns, EagerCheck, ListReturns
<1>6. CASE Worker(c)
  BY <1>6
  DEF Worker, EnterClient, Scan, ConnectBlocking, ReadCurrent, Disassociate, ReadInterface,
      Keychain
<1>7. QED
  BY <1>1, <1>2, <1>3, <1>4, <1>5, <1>6 DEF Step, Task

LEMMA LockStep ==
    ASSUME TypeOK, LockInv, [Next]_vars
    PROVE  LockInv'
<1>1. ASSUME NEW c \in Calls, Step(c) PROVE LockInv'
  <2>1. Spares(c) /\ Moves(c)
    BY <1>1, StepSpares, StepMoves
  <2>2. QED
    BY <2>1, AbsenceAssumption DEF Spares, Moves, LockInv, Inside, TypeOK
<1>2. CASE UNCHANGED callVars
  BY <1>2 DEF callVars, LockInv, Inside
<1>3. QED
  BY <1>1, <1>2 DEF Next, Step, SystemMoves, KeychainEdited, Tick, vars

\* What a step does to the client: a worker takes it when it is free, keeps
\* it, or gives it back.
Uses(c) == at[c] \in {"using", "matched"}

Holds(c) ==
    \/ UNCHANGED client /\ (Uses(c)' <=> Uses(c))
    \/ client = None /\ client' = c /\ Uses(c)'
    \/ client' = (IF client = c THEN None ELSE client) /\ ~Uses(c)'

LEMMA StepHolds ==
    ASSUME IInv, NEW c \in Calls, Step(c)
    PROVE  Holds(c)
<1>0. TypeOK /\ FutureOf(c) /\ WorkerOf(c) /\ ClockOf(c) /\ (Uses(c) <=> client = c)
  BY DEF IInv, FutureInv, WorkerInv, ClockInv, ClientIsExclusive, Uses
<1> USE <1>0 DEF TypeOK, Holds, Uses, workVars, osVars
<1>1. CASE Worker(c)
  BY <1>1
  DEF Worker, EnterClient, ClientFree, Scan, ConnectBlocking, ReadCurrent, Disassociate,
      ReadInterface, Keychain, WorkEnds, Idle
<1>2. CASE Start(c) \/ Cancel(c) \/ AcquireLock(c) \/ EagerCheck(c)
  BY <1>2 DEF Start, Cancel, AcquireLock, EagerCheck, Return, Idle, Run, FutureOf, WorkerOf
<1>3. CASE PreflightScan(c) \/ PreflightAgain(c) \/ Associate(c)
  BY <1>3
  DEF PreflightScan, PreflightAgain, WakeUp, Associate, Return, Idle, Run, ClockOf
<1>4. CASE AssociateReturns(c) \/ AssociateTimesOut(c) \/ ProbeReturns(c)
           \/ WorkerReturns(c) \/ ListReturns(c)
  BY <1>4
  DEF AssociateReturns, AssociateTimesOut, ProbeReturns, WorkerReturns, ListReturns, Return,
      Idle, Run
<1>5. QED
  BY <1>1, <1>2, <1>3, <1>4 DEF Step, Task

LEMMA ClientStep ==
    ASSUME IInv, [Next]_vars
    PROVE  ClientIsExclusive'
<1>0. ClientIsExclusive /\ TypeOK
  BY DEF IInv
<1>1. ASSUME NEW c \in Calls, Step(c) PROVE ClientIsExclusive'
  <2>1. Spares(c) /\ Holds(c)
    BY <1>0, <1>1, StepSpares, StepHolds
  <2>2. QED
    BY <1>0, <2>1, AbsenceAssumption DEF Spares, Holds, Uses, ClientIsExclusive, TypeOK
<1>2. CASE UNCHANGED <<at, client>>
  BY <1>0, <1>2 DEF ClientIsExclusive
<1>3. QED
  BY <1>1, <1>2 DEF Next, Step, SystemMoves, KeychainEdited, Tick, vars, workVars, osVars

\* The association changes only while a worker uses the client, and when the
\* system moves.
LEMMA StepJoins ==
    ASSUME IInv, NEW c \in Calls, Step(c)
    PROVE  \/ UNCHANGED radio
           \/ /\ client = c /\ at[c] = "matched" /\ work[c] = "disconnect"
              /\ current' = None /\ joined' = None
           \/ /\ client = c /\ at[c] = "using" /\ work[c] = "associate"
              /\ current' = Ssid(c) /\ joined' = c
BY DEF IInv, ClientIsExclusive, WorkerInv, WorkerOf, Step, Start, Cancel, Task, AcquireLock,
       PreflightScan, PreflightAgain, Associate, AssociateReturns, AssociateTimesOut,
       ProbeReturns, WorkerReturns, EagerCheck, ListReturns, Worker, EnterClient, Scan,
       ConnectBlocking, ReadCurrent, Disassociate, ReadInterface, Keychain, osVars

LEMMA JoinStep ==
    ASSUME IInv, [Next]_vars
    PROVE  JoinInv'
<1>0. TypeOK /\ JoinInv
  BY DEF IInv
<1>1. ASSUME NEW c \in Calls, Step(c) PROVE JoinInv'
  <2>1. UNCHANGED req
    BY <1>0, <1>1, StepSpares
  <2>2. QED
    BY <1>0, <1>1, <2>1, StepJoins DEF JoinInv, Ssid, radio
<1>2. CASE SystemMoves \/ KeychainEdited \/ Tick \/ UNCHANGED vars
  BY <1>0, <1>2
  DEF SystemMoves, KeychainEdited, Tick, vars, callVars, osVars, radio, JoinInv, Ssid
<1>3. QED
  BY <1>1, <1>2 DEF Next, Step

\* The comparison of a disconnect's worker is as good as when it was made.
LEMMA MatchStep ==
    ASSUME IInv, [Next]_vars
    PROVE  MatchInv'
<1>0. TypeOK /\ MatchInv /\ ClientIsExclusive /\ JoinInv
  BY DEF IInv
<1>1. ASSUME NEW c \in Calls, Step(c), NEW d \in Calls, at'[d] = "matched", joined' # None
      PROVE  Ssid(joined)' = Ssid(d)'
  <2>1. Spares(c) /\ UNCHANGED req
    BY <1>0, <1>1, StepSpares
  <2>2. CASE at[d] = "matched"
    <3>1. client = d
      BY <1>0, <2>2 DEF ClientIsExclusive
    <3>2. UNCHANGED joined
      BY <1>1, <2>2, <3>1, StepJoins DEF radio
    <3>3. QED
      BY <1>0, <1>1, <2>1, <2>2, <3>2 DEF MatchInv, MatchOf, Ssid
  <2>3. CASE at[d] # "matched"
    <3>1. c = d
      BY <1>1, <2>1, <2>3 DEF Spares
    <3>2. ReadCurrent(c) /\ OnNetwork(c)
      BY <1>0, <1>1, <2>3, <3>1
      DEF Step, Start, Cancel, Task, AcquireLock, PreflightScan, PreflightAgain, Associate,
          AssociateReturns, AssociateTimesOut, ProbeReturns, WorkerReturns, EagerCheck,
          ListReturns, Worker, EnterClient, Scan, ConnectBlocking, ReadCurrent, Disassociate,
          ReadInterface, Keychain, Return, Idle, Run, WorkEnds, TypeOK, callVars, workVars
    <3>3. QED
      BY <1>0, <1>1, <2>1, <3>1, <3>2 DEF ReadCurrent, OnNetwork, JoinInv, Ssid, radio
  <2>4. QED
    BY <2>2, <2>3
<1>2. CASE UNCHANGED <<req, at>> /\ joined' \in {joined, None}
  BY <1>0, <1>2 DEF MatchInv, MatchOf, Ssid
<1>3. QED
  BY <1>1, <1>2
  DEF Next, Step, MatchInv, MatchOf, SystemMoves, KeychainEdited, Tick, vars, callVars,
      workVars, osVars, radio
-----------------------------------------------------------------------------
(* The invariant is inductive: the clocks.                                 *)

TimeoutOf(c) ==
    pc[c] = "associate" =>
        elapsed[c] + timer[c] = req[c].timeout
            \/ (timer[c] = 0 /\ elapsed[c] > req[c].timeout)

\* A tick moves the timer of a pause with its clock.
LEMMA TickClocks ==
    ASSUME IInv, Tick, NEW c \in Calls
    PROVE  PauseOf(c)' /\ TimeoutOf(c)'
<1>0. TypeOK /\ ClockOf(c) /\ PauseOf(c) /\ TimeoutOf(c)
  BY DEF IInv, ClockInv, PauseInv, TimeoutCoversPreflight, TimeoutOf
<1>1. /\ req[c].timeout \in Nat /\ elapsed[c] \in Nat /\ timer[c] \in Nat
      /\ budget[c] \in Nat
  BY <1>0, CallTimes
<1>2. UNCHANGED <<pf, budget, pc, req>>
  BY DEF Tick, TimePasses, callVars
<1>3. c \in Counting =>
          /\ elapsed'[c] = elapsed[c] + 1
          /\ timer'[c] = IF timer[c] > 1 THEN timer[c] - 1 ELSE 0
  BY DEF Tick, TimePasses, SaturatingSub
<1>4. PauseOf(c)'
  <2> SUFFICES ASSUME pf[c] = "sleeping" PROVE PauseOf(c)'
    BY <1>2 DEF PauseOf
  <2>1. c \in Counting
    BY <1>0 DEF ClockOf, Counting
  <2>2. QED
    BY <1>0, <1>1, <1>2, <1>3, <2>1 DEF PauseOf
<1>5. TimeoutOf(c)'
  <2> SUFFICES ASSUME pc[c] = "associate" PROVE TimeoutOf(c)'
    BY <1>2 DEF TimeoutOf
  <2>1. c \in Counting
    BY DEF Counting
  <2>2. QED
    BY <1>0, <1>1, <1>2, <1>3, <2>1 DEF TimeoutOf
<1>6. QED
  BY <1>4, <1>5

\* The call's own steps: a pause is cut to what is left of the budget, and
\* the wait for associate to what is left of the timeout.
LEMMA OwnClocks ==
    ASSUME IInv, NEW c \in Calls, Step(c)
    PROVE  PauseOf(c)' /\ TimeoutOf(c)'
<1>0. TypeOK /\ FutureOf(c) /\ WorkerOf(c) /\ ClockOf(c) /\ PauseOf(c) /\ TimeoutOf(c)
  BY DEF IInv, FutureInv, WorkerInv, ClockInv, PauseInv, TimeoutCoversPreflight, TimeoutOf
<1>1. /\ req[c].timeout \in Nat /\ elapsed[c] \in Nat /\ timer[c] \in Nat
      /\ budget[c] \in Nat
  BY <1>0, CallTimes
<1>2. UNCHANGED <<req, threads>>
  BY <1>0, StepSpares
<1>4. CASE PreflightScan(c)
  <2> DEFINE remaining == SaturatingSub(budget[c], elapsed[c])
  <2>1. out[c] \in {"seen", "unseen", "failed"} /\ pc'[c] # "associate"
    BY <1>0, <1>4 DEF PreflightScan, FutureOf, WorkerOf, Answers, callVars
  <2>2. CASE out[c] = "unseen" /\ remaining # 0
    <3>1. timer'[c] = Pause(remaining) /\ elapsed'[c] = elapsed[c] /\ budget'[c] = budget[c]
      BY <1>0, <1>4, <2>2 DEF PreflightScan, ScanReturns, TypeOK, PreflightTypeOK
    <3>2. remaining = budget[c] - elapsed[c]
      BY <1>1, <2>2 DEF SaturatingSub
    <3>3. Pause(remaining) \in Nat /\ Pause(remaining) <= remaining
      BY <1>1, <3>2, <2>2, IntervalAssumption DEF Pause, Smaller, SaturatingSub
    <3>4. QED
      BY <1>1, <2>1, <3>1, <3>2, <3>3 DEF PauseOf, TimeoutOf
  <2>3. CASE ~(out[c] = "unseen" /\ remaining # 0)
    <3>1. pf'[c] # "sleeping"
      BY <1>0, <1>4, <2>1, <2>3 DEF PreflightScan, ScanReturns, TypeOK, PreflightTypeOK
    <3>2. QED
      BY <2>1, <3>1 DEF PauseOf, TimeoutOf
  <2>4. QED
    BY <2>2, <2>3
<1>5. CASE Associate(c)
  <2>1. pf'[c] = "off"
    BY <1>0, <1>5 DEF Associate, StopClock, SetTimeout, TypeOK, PreflightTypeOK
  <2>2. CASE pc'[c] = "associate"
    <3>1. timer'[c] = Remaining(c) /\ elapsed'[c] = elapsed[c]
      BY <1>0, <1>5, <2>2
      DEF Associate, Return, Await, SetTimeout, TypeOK, PreflightTypeOK
    <3>2. QED
      BY <1>1, <1>2, <2>1, <3>1 DEF PauseOf, TimeoutOf, Remaining, SaturatingSub
  <2>3. QED
    BY <2>1, <2>2 DEF PauseOf, TimeoutOf
<1>6. CASE AcquireLock(c)
  BY <1>0, <1>6
  DEF AcquireLock, Begin, Return, PauseOf, TimeoutOf, ClockOf, TypeOK, PreflightTypeOK,
      clockVars
<1>7. CASE PreflightAgain(c)
  BY <1>0, <1>7
  DEF PreflightAgain, WakeUp, PauseOf, TimeoutOf, TypeOK, PreflightTypeOK, callVars
<1>8. CASE AssociateReturns(c) \/ AssociateTimesOut(c) \/ Cancel(c)
  BY <1>0, <1>8
  DEF AssociateReturns, AssociateTimesOut, Cancel, Return, Await, StopClock, PauseOf,
      TimeoutOf, TypeOK, PreflightTypeOK
<1>9. CASE Start(c) \/ ProbeReturns(c) \/ WorkerReturns(c) \/ EagerCheck(c) \/ ListReturns(c)
           \/ Worker(c)
  <2>1. UNCHANGED clockVars /\ (pc'[c] = pc[c] \/ pc'[c] # "associate")
    BY <1>0, <1>9
    DEF Start, ProbeReturns, WorkerReturns, EagerCheck, ListReturns, Worker, EnterClient,
        Scan, ConnectBlocking, ReadCurrent, Disassociate, ReadInterface, Keychain, Return,
        Await, TypeOK, callVars
  <2>2. QED
    BY <1>0, <1>2, <2>1 DEF PauseOf, TimeoutOf, clockVars
<1>10. QED
  BY <1>4, <1>5, <1>6, <1>7, <1>8, <1>9 DEF Step, Task

LEMMA ClocksStep ==
    ASSUME IInv, [Next]_vars
    PROVE  PauseInv' /\ TimeoutCoversPreflight'
<1>0. TypeOK /\ \A c \in Calls : PauseOf(c) /\ TimeoutOf(c)
  BY DEF IInv, PauseInv, TimeoutCoversPreflight, TimeoutOf
<1> SUFFICES ASSUME NEW d \in Calls PROVE PauseOf(d)' /\ TimeoutOf(d)'
  BY DEF PauseInv, TimeoutCoversPreflight, TimeoutOf
<1>1. ASSUME NEW c \in Calls, Step(c) PROVE PauseOf(d)' /\ TimeoutOf(d)'
  <2>1. Spares(c) /\ UNCHANGED req
    BY <1>0, <1>1, StepSpares
  <2>2. CASE c # d
    BY <1>0, <2>1, <2>2 DEF Spares, PauseOf, TimeoutOf
  <2>3. QED
    BY <1>1, <2>2, OwnClocks
<1>2. CASE UNCHANGED <<clockVars, callVars>>
  BY <1>0, <1>2 DEF clockVars, callVars, PauseOf, TimeoutOf
<1>3. QED
  BY <1>1, <1>2, TickClocks DEF Next, Step, SystemMoves, KeychainEdited, vars

\* The clock of a pausing call moves only with a tick, and a pause begins only
\* with a scan that has returned.
LEMMA StepPauses ==
    ASSUME IInv, NEW c \in Calls, Step(c), pf'[c] = "sleeping"
    PROVE  \/ pf[c] = "sleeping" /\ elapsed'[c] = elapsed[c]
           \/ elapsed'[c] + timer'[c] <= budget'[c]
<1>0. TypeOK /\ FutureOf(c) /\ WorkerOf(c)
  BY DEF IInv, FutureInv, WorkerInv
<1>1. elapsed[c] \in Nat /\ budget[c] \in Nat
  BY <1>0, CallTimes
<1>2. CASE PreflightScan(c)
  <2> DEFINE remaining == SaturatingSub(budget[c], elapsed[c])
  <2>1. out[c] \in {"seen", "unseen", "failed"}
    BY <1>0, <1>2 DEF PreflightScan, FutureOf, WorkerOf, Answers
  <2>2. out[c] = "unseen" /\ remaining # 0
    BY <1>0, <1>2, <2>1 DEF PreflightScan, ScanReturns, TypeOK, PreflightTypeOK
  <2>3. timer'[c] = Pause(remaining) /\ elapsed'[c] = elapsed[c] /\ budget'[c] = budget[c]
    BY <1>0, <1>2, <2>2 DEF PreflightScan, ScanReturns, TypeOK, PreflightTypeOK
  <2>4. remaining = budget[c] - elapsed[c]
    BY <1>1, <2>2 DEF SaturatingSub
  <2>5. Pause(remaining) \in Nat /\ Pause(remaining) <= remaining
    BY <1>1, <2>2, <2>4, IntervalAssumption DEF Pause, Smaller, SaturatingSub
  <2>6. QED
    BY <1>1, <2>3, <2>4, <2>5
<1>3. CASE Start(c) \/ ProbeReturns(c) \/ WorkerReturns(c) \/ EagerCheck(c) \/ ListReturns(c)
           \/ Worker(c)
  BY <1>3
  DEF Start, ProbeReturns, WorkerReturns, EagerCheck, ListReturns, Worker, EnterClient,
      Scan, ConnectBlocking, ReadCurrent, Disassociate, ReadInterface, Keychain, clockVars
<1>4. CASE AcquireLock(c) \/ PreflightAgain(c)
  BY <1>0, <1>4
  DEF AcquireLock, Begin, PreflightAgain, WakeUp, TypeOK, PreflightTypeOK, clockVars
<1>5. CASE Associate(c) \/ AssociateReturns(c) \/ AssociateTimesOut(c) \/ Cancel(c)
  BY <1>0, <1>5
  DEF Associate, SetTimeout, AssociateReturns, AssociateTimesOut, Cancel, StopClock, TypeOK,
      PreflightTypeOK
<1>6. QED
  BY <1>2, <1>3, <1>4, <1>5 DEF Step, Task

-----------------------------------------------------------------------------
(* The theorems.                                                           *)

LEMMA InitIInv ==
    ASSUME Init PROVE IInv
<1>1. TypeOK
  BY ElapsedAssumption, ThreadsAssumption
  DEF Init, PreflightInit, TypeOK, PreflightTypeOK, Works
<1>2. LockInv /\ ClientIsExclusive /\ JoinInv
  BY AbsenceAssumption DEF Init, LockInv, Inside, ClientIsExclusive, JoinInv
<1>3. FutureInv /\ WorkerInv /\ ClockInv /\ MatchInv
  BY DEF Init, PreflightInit, FutureInv, WorkerInv, ClockInv, MatchInv, FutureOf, WorkerOf,
         ClockOf, MatchOf
<1>4. PauseInv /\ TimeoutCoversPreflight
  BY DEF Init, PreflightInit, PauseInv, PauseOf, TimeoutCoversPreflight
<1>5. QED
  BY <1>1, <1>2, <1>3, <1>4 DEF IInv

LEMMA MacIsInductive ==
    ASSUME IInv, [Next]_vars PROVE IInv'
<1>1. TypeOK /\ LockInv /\ FutureInv /\ WorkerInv
  BY DEF IInv
<1>2. TypeOK' /\ LockInv'
  BY <1>1, TypeStep, LockStep
<1>3. FutureInv' /\ WorkerInv' /\ ClockInv' /\ ClientIsExclusive'
  BY CallsStep, ClientStep
<1>4. JoinInv' /\ MatchInv' /\ PauseInv' /\ TimeoutCoversPreflight'
  BY JoinStep, MatchStep, ClocksStep
<1>5. QED
  BY <1>2, <1>3, <1>4 DEF IInv

\* The inductive invariant: types, the adapter's lock, what a future, its
\* worker and its clock say of each other, the client, the association and what
\* a disconnect has found out of it, and the pauses.
THEOREM MacInvariantHolds == Spec => []IInv
<1>1. Init => IInv
  BY InitIInv
<1>2. IInv /\ [Next]_vars => IInv'
  BY MacIsInductive
<1>3. QED
  BY <1>1, <1>2, PTL DEF Spec

\* Every variable of the macOS backend keeps the type of its counterpart.
THEOREM MacTypeCorrect == Spec => []TypeOK
<1>1. IInv => TypeOK
  BY DEF IInv
<1>2. QED
  BY <1>1, MacInvariantHolds, PTL

\* No two workers are inside CoreWLAN calls, those left behind by a dropped
\* future included (client.rs).
THEOREM ClientExclusive == Spec => []ClientIsExclusive
<1>1. IInv => ClientIsExclusive
  BY DEF IInv
<1>2. QED
  BY <1>1, MacInvariantHolds, PTL

\* A pre-flight pauses past its budget only by time that passes while lists
\* block every thread of the executor, however many there are (preflight.rs).
THEOREM PausesFit == Spec => PausesFitBudget
<1>1. IInv /\ [Next]_vars =>
          [\A c \in Calls :
              pf'[c] = "sleeping" /\ elapsed'[c] + timer'[c] > budget'[c] =>
                  \/ pf[c] = "sleeping" /\ elapsed'[c] = elapsed[c]
                  \/ ~ExecutorFree]_vars
  <2> SUFFICES ASSUME IInv, IInv', Next, NEW c \in Calls, pf'[c] = "sleeping",
                      elapsed'[c] + timer'[c] > budget'[c],
                      ~(pf[c] = "sleeping" /\ elapsed'[c] = elapsed[c])
               PROVE  ~ExecutorFree
    BY MacIsInductive
  <2>0. TypeOK /\ ClockOf(c) /\ PauseOf(c) /\ PauseOf(c)'
    BY DEF IInv, ClockInv, PauseInv
  <2>1. /\ elapsed[c] \in Nat /\ timer[c] \in Nat /\ budget[c] \in Nat
        /\ elapsed'[c] \in Nat /\ timer'[c] \in Nat /\ budget'[c] \in Nat
    BY DEF IInv, TypeOK, PreflightTypeOK
  <2>2. ASSUME NEW d \in Calls, Step(d) PROVE FALSE
    <3>1. CASE d = c
      BY <2>1, <2>2, <3>1, StepPauses
    <3>2. CASE d # c
      BY <2>0, <2>2, <3>2, StepSpares DEF Spares
    <3>3. QED
      BY <3>1, <3>2
  <2>3. Tick
    BY <2>2 DEF Next, Step, SystemMoves, KeychainEdited, clockVars
  <2>4. timer[c] = 0
    <3>1. c \in Counting /\ pf[c] = "sleeping" /\ UNCHANGED budget
      BY <2>0, <2>3 DEF Tick, TimePasses, ClockOf, Counting
    <3>2. /\ elapsed'[c] = elapsed[c] + 1
          /\ timer[c] # 0 => timer'[c] = timer[c] - 1
      BY <2>1, <2>3, <3>1 DEF Tick, TimePasses, SaturatingSub
    <3>3. QED
      BY <2>0, <2>1, <3>1, <3>2 DEF PauseOf
  <2>5. pf[c] = "sleeping"
    BY <2>3 DEF Tick, TimePasses
  <2>6. QED
    BY <2>3, <2>4, <2>5 DEF Tick, Due
<1>2. QED
  BY <1>1, MacInvariantHolds, PTL DEF Spec, PausesFitBudget

\* The wait for associate ends with the timeout of the whole operation
\* (connect.rs; types.rs, "for the overall operation").
THEOREM TimeoutCovers == Spec => []TimeoutCoversPreflight
<1>1. IInv => TimeoutCoversPreflight
  BY DEF IInv
<1>2. QED
  BY <1>1, MacInvariantHolds, PTL

\* While a connect that succeeded has not returned, no worker of another live
\* call takes part in what ends or replaces its association (connect.rs).
THEOREM OrphansOnly == Spec => OnlyOrphansInterfere
<1>1. IInv /\ [Next]_vars =>
          [\A c \in Calls :
              pc[c] = "associate" /\ joined = c /\ joined' # c =>
                  \A d \in Calls : at'[d] # at[d] => Orphan(d)]_vars
  <2> SUFFICES ASSUME IInv, Next, NEW c \in Calls, NEW d \in Calls,
                      pc[c] = "associate", joined = c, joined' # c, at'[d] # at[d]
               PROVE  Orphan(d)
    BY DEF vars, osVars, radio
  <2>0. TypeOK /\ LockInv /\ FutureInv
    BY DEF IInv
  <2>1. PICK e \in Calls : Step(e)
    BY DEF Next, Step, SystemMoves, KeychainEdited, Tick, workVars
  <2>2. e = d
    BY <2>0, <2>1, StepSpares DEF Spares
  <2>3. \/ at[d] = "matched" /\ work[d] = "disconnect"
        \/ at[d] = "using" /\ work[d] = "associate" /\ d # c
    BY <2>1, <2>2, StepJoins DEF radio
  <2>4. pc[d] \in {"associate", "disconnect", "done"} /\ d # c
    BY <2>0, <2>3 DEF FutureInv, FutureOf, TypeOK
  <2>5. pc[d] \notin {"associate", "disconnect"}
    BY <2>0, <2>4 DEF LockInv, Inside
  <2>6. QED
    BY <2>3, <2>4, <2>5 DEF Orphan
<1>2. QED
  BY <1>1, MacInvariantHolds, PTL DEF Spec, OnlyOrphansInterfere

\* A disconnect never ends an association that a connect of this backend made
\* with another SSID, although comparison and disassociate are two calls
\* (connect.rs).
THEOREM DisconnectTargeted == Spec => DisconnectIsTargeted
<1>1. IInv /\ [Next]_vars =>
          [\A c \in Calls : at[c] = "matched" /\ at'[c] # "matched" /\ joined # None =>
              Ssid(joined) = Ssid(c)]_vars
  BY DEF IInv, MatchInv, MatchOf
<1>2. QED
  BY <1>1, MacInvariantHolds, PTL DEF Spec, DisconnectIsTargeted
-----------------------------------------------------------------------------
(* The backend implements AdapterLocks.                                    *)

\* A step moves one call's status as the abstract lock does, or not at all.
LEMMA StatusMoves ==
    ASSUME IInv, NEW c \in Calls, Step(c)
    PROVE  \/ Status(c)' = Status(c)
           \/ Status(c)' = "done" /\ Status(c) # "done"
           \/ Status(c) = "idle" /\ Status(c)' = "queued"
           \/ Status(c) = "queued" /\ Status(c)' = "inside" /\ LockFree
<1>0. TypeOK
  BY DEF IInv
<1> USE <1>0 DEF Status, TypeOK, Await, Return, callVars
<1>1. CASE Start(c) \/ Cancel(c) \/ AcquireLock(c)
  BY <1>1 DEF Start, Cancel, AcquireLock
<1>2. CASE PreflightScan(c) \/ PreflightAgain(c) \/ Associate(c)
  BY <1>2 DEF PreflightScan, PreflightAgain, Associate
<1>3. CASE AssociateReturns(c) \/ AssociateTimesOut(c) \/ ProbeReturns(c)
  BY <1>3 DEF AssociateReturns, AssociateTimesOut, ProbeReturns
<1>4. CASE WorkerReturns(c) \/ EagerCheck(c) \/ ListReturns(c)
  BY <1>4 DEF WorkerReturns, EagerCheck, ListReturns
<1>5. CASE Worker(c)
  BY <1>5
  DEF Worker, EnterClient, Scan, ConnectBlocking, ReadCurrent, Disassociate, ReadInterface,
      Keychain
<1>6. QED
  BY <1>1, <1>2, <1>3, <1>4, <1>5 DEF Step, Task

\* The futures of two operations that change the radio are never inside
\* together: MacBackend implements AdapterLocks (op_locks).
THEOREM MacSerializes == Spec => CallsAreSerialized
<1> DEFINE on == [c \in Calls |-> "en0"]
           st == [c \in Calls |-> Status(c)]
<1>1. Init => Locks!Init
  <2> SUFFICES ASSUME Init PROVE Locks!Init
    OBVIOUS
  <2>1. st = [c \in Calls |-> "idle"]
    BY DEF Init, Status
  <2>2. QED
    BY <2>1 DEF Locks!Init
<1>2. IInv /\ [Next]_vars => [Locks!Next]_(Locks!vars)
  <2> SUFFICES ASSUME IInv, [Next]_vars PROVE [Locks!Next]_(Locks!vars)
    OBVIOUS
  <2>0. TypeOK /\ LockInv
    BY DEF IInv
  <2>1. ASSUME NEW c \in Calls, Step(c)
        PROVE  Locks!Ask(c) \/ Locks!Enter(c) \/ Locks!Finish(c) \/ UNCHANGED Locks!vars
    <3>0. Spares(c)
      BY <2>0, <2>1, StepSpares
    <3>1. st' = [st EXCEPT ![c] = Status(c)']
      <4>1. \A d \in Calls \ {c} : Status(d)' = Status(d)
        BY <3>0 DEF Spares, Status
      <4>2. QED
        BY <4>1
    <3>2. CASE Status(c)' = Status(c)
      BY <3>1, <3>2 DEF Locks!vars
    <3>3. CASE Status(c)' = "done" /\ Status(c) # "done"
      BY <3>1, <3>3 DEF Locks!Finish
    <3>4. CASE Status(c) = "idle" /\ Status(c)' = "queued"
      BY <3>1, <3>4 DEF Locks!Ask
    <3>5. CASE Status(c) = "queued" /\ Status(c)' = "inside" /\ LockFree
      <4>1. \A d \in Calls : Status(d) # "inside"
        BY <2>0, <3>5, AbsenceAssumption DEF LockInv, LockFree, Inside, Status, TypeOK
      <4>2. QED
        BY <3>1, <3>5, <4>1 DEF Locks!Enter
    <3>6. QED
      BY <2>1, <3>2, <3>3, <3>4, <3>5, StatusMoves
  <2>2. ASSUME UNCHANGED pc PROVE UNCHANGED Locks!vars
    BY <2>2 DEF Locks!vars, Status
  <2>3. QED
    BY <2>1, <2>2
    DEF Next, Step, Locks!Next, SystemMoves, KeychainEdited, Tick, vars, callVars
<1>3. QED
  BY <1>1, <1>2, MacInvariantHolds, PTL DEF Spec, CallsAreSerialized, Locks!Spec
=============================================================================
