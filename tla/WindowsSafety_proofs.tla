------------------------ MODULE WindowsSafety_proofs -------------------------
(***************************************************************************)
(* The safety invariant of WindowsBackend: IInv is inductive, and implies  *)
(* the properties that the runs check.  The argument, in its order:        *)
(*   - the adapter lock excludes (LockInv), and closures belong to lock    *)
(*     holders or cancelled calls (JobInv);                                *)
(*   - so at most one guard exists per interface, and the registry entry   *)
(*     is that of its owner (ConnRegInv, WaiterIsReachable, ScanRegInv);   *)
(*   - so, until a call gives up, what the service does at an interface it *)
(*     does for the call that waits there (OwnInv);                        *)
(*   - and an attempt in progress has been reported to nobody, while a     *)
(*     call returns what its receiver held (AttemptInv, AnswerInv).        *)
(***************************************************************************)
EXTENDS WindowsBackend_proofs
-----------------------------------------------------------------------------
(* The adapter lock.                                                       *)

\* A task that keeps running, or waits again, keeps its lock.
LEMMA MoveLock ==
    ASSUME TypeOK, LockInv, NEW c \in Calls, Busy(c), UNCHANGED <<req, holder>>,
           NEW p \in {"job", "scan_wait", "conn_wait"}, pc' = [pc EXCEPT ![c] = p]
    PROVE  LockInv'
<1>1. \A d \in Calls : Busy(d)' <=> Busy(d)
  BY DEF Busy, TypeOK, TaskTypeOK
<1>2. \A d : Iface(d)' = Iface(d)
  BY DEF Iface
<1>3. QED
  BY <1>1, <1>2 DEF LockInv, TypeOK, TaskTypeOK

\* The end of a call frees exactly the lock it held.
LEMMA EndLock ==
    ASSUME TypeOK, LockInv, NEW c \in Calls, NEW r, End(c, r)
    PROVE  LockInv'
<1>1. \A d \in Calls : Busy(d)' <=> Busy(d) /\ d # c
  BY DEF End, Busy, TypeOK, TaskTypeOK
<1>2. \A d : Iface(d)' = Iface(d)
  BY DEF End, Iface
<1>3. \A i \in Ifaces : holder'[i] = IF holder[i] = c THEN None ELSE holder[i]
  BY IfaceType DEF End, LockInv, TypeOK, TaskTypeOK
<1>4. QED
  BY <1>1, <1>2, <1>3, IfaceType, NoneAssumption DEF LockInv, TypeOK, TaskTypeOK

\* Taking a free lock makes the caller its only user.
LEMMA EnterLock ==
    ASSUME TypeOK, LockInv, NEW c \in Calls, pc[c] = "locking", LockFree(c),
           holder' = [holder EXCEPT ![Iface(c)] = c], pc' = [pc EXCEPT ![c] = "job"],
           UNCHANGED req
    PROVE  LockInv'
<1>1. \A d \in Calls : Busy(d)' <=> Busy(d) \/ d = c
  BY DEF Busy, TypeOK, TaskTypeOK
<1>2. \A d : Iface(d)' = Iface(d)
  BY DEF Iface
<1>3. \A i \in Ifaces : holder'[i] = IF i = Iface(c) THEN c ELSE holder[i]
  BY IfaceType DEF TypeOK, TaskTypeOK
<1>4. QED
  BY <1>1, <1>2, <1>3, IfaceType, NoneAssumption DEF LockInv, LockFree, TypeOK, TaskTypeOK

\* Steps outside the locked section leave the locks as they are.
LEMMA IdleLock ==
    ASSUME TypeOK, LockInv, UNCHANGED <<req, holder>>,
           \A d \in Calls : Busy(d)' <=> Busy(d)
    PROVE  LockInv'
BY DEF LockInv, Iface, TypeOK, TaskTypeOK

\* Mutual exclusion: the adapter lock is held by exactly the call that is
\* between its acquisition and its end.
LEMMA LockStep == ASSUME TypeOK, LockInv, [Next]_vars PROVE LockInv'
<1> USE DEF Awaits
<1>1. ASSUME NEW c \in Calls, Start(c) PROVE LockInv'
  BY <1>1, IdleLock DEF Start, Busy, TypeOK, TaskTypeOK
<1>2. ASSUME NEW c \in Calls, AcquireLock(c) PROVE LockInv'
  <2>1. CASE pc' = [pc EXCEPT ![c] = "done"] /\ UNCHANGED <<req, holder>>
    BY <1>2, <2>1, IdleLock DEF AcquireLock, Busy, TypeOK, TaskTypeOK
  <2>2. QED
    BY <1>2, <2>1, EnterLock DEF AcquireLock
<1>3. ASSUME NEW c \in Calls, Cancel(c) PROVE LockInv'
  BY <1>3, EndLock DEF Cancel
<1>4. ASSUME NEW c \in Calls, RunScan(c) \/ ScanWoken(c) \/ ScanTimeout(c) PROVE LockInv'
  BY <1>4, EndLock, MoveLock
  DEF RunScan, ScanWoken, ScanTimeout, WaitAt, Spawn, Return, Busy
<1>5. ASSUME NEW c \in Calls, RunCollect(c) PROVE LockInv'
  BY <1>5, EndLock, MoveLock DEF RunCollect, BeginScan, Spawn, Return, Busy
<1>6. ASSUME NEW c \in Calls,
             RunContext(c) \/ RunDisconnect(c) \/ RunDelete(c) \/ RunAbort(c) \/ ConnectWoken(c)
      PROVE LockInv'
  BY <1>6, EndLock
  DEF RunContext, RunDisconnect, RunDelete, RunAbort, ConnectWoken, Return
<1>7. ASSUME NEW c \in Calls,
             RunInstall(c) \/ RunExists(c) \/ RunConnect(c) \/ ConnectTimeout(c) \/ RunQuery(c)
      PROVE LockInv'
  BY <1>7, EndLock, MoveLock
  DEF RunInstall, RunExists, RunConnect, ConnectTimeout, RunQuery, BeginConnect, WaitAt,
      Spawn, Return, Busy
<1>8. ASSUME UNCHANGED <<req, pc, holder>> PROVE LockInv'
  BY <1>8, IdleLock DEF Busy
<1>9. QED
  BY <1>1, <1>2, <1>3, <1>4, <1>5, <1>6, <1>7, <1>8
  DEF Next, Task, RunDetached, DeliverConnection, DeliverScan, Service, vars, taskVars

\* Every call asks for one of the operations.
LEMMA KindOf == ASSUME TypeOK, NEW c \in Calls PROVE req[c].kind \in AllKinds
BY KindsAssumption DEF TypeOK, TaskTypeOK, Requests

\* A task that acquires the lock hands its first closure to the pool; that
\* closure is never a connect.
LEMMA EnterJob ==
    ASSUME TypeOK, NEW c \in Calls, AcquireLock(c), pc'[c] # "done"
    PROVE  \E j \in Jobs \ {"connect", "abort"} :
               /\ pc' = [pc EXCEPT ![c] = "job"]
               /\ job' = [job EXCEPT ![c] = j]
               /\ UNCHANGED <<req, result, connReg, connRx>>
<1>1. pc' = [pc EXCEPT ![c] = "job"] /\ UNCHANGED <<req, result, connReg, connRx>>
  BY DEF AcquireLock, TypeOK, TaskTypeOK, regVars, pending_scan
<1>2. CASE req[c].kind \in {"connect", "list"}
  BY <1>1, <1>2 DEF AcquireLock, Jobs, TypeOK, TaskTypeOK
<1>3. CASE req[c].kind \in {"stored", "disconnect", "remove", "list_cached"}
  <2>1. job' = [job EXCEPT ![c] =
                         CASE req[c].kind = "stored" -> "exists"
                           [] req[c].kind = "disconnect" -> "query"
                           [] req[c].kind = "remove" -> "delete"
                           [] req[c].kind = "list_cached" -> "collect"]
    BY <1>1, <1>3 DEF AcquireLock, TypeOK, TaskTypeOK
  <2>2. QED
    BY <1>1, <1>3, <2>1 DEF Jobs
<1>4. QED
  BY <1>2, <1>3, KindOf DEF AllKinds

\* Closures belong to running calls, or to cancelled ones.
LEMMA JobStep == ASSUME TypeOK, JobInv, [Next]_vars PROVE JobInv'
<1> USE DEF JobInv, Awaits
<1>1. ASSUME NEW c \in Calls, Start(c) PROVE JobInv'
  BY <1>1 DEF Start, TypeOK, TaskTypeOK
<1>2. ASSUME NEW c \in Calls, AcquireLock(c) PROVE JobInv'
  <2>1. CASE pc'[c] = "done"
    BY <1>2, <2>1 DEF AcquireLock, TypeOK, TaskTypeOK
  <2>2. CASE pc'[c] # "done"
    <3>1. pc[c] = "locking"
      BY <1>2 DEF AcquireLock
    <3>2. PICK j \in Jobs : /\ pc' = [pc EXCEPT ![c] = "job"]
                            /\ job' = [job EXCEPT ![c] = j]
                            /\ UNCHANGED result
      BY <1>2, <2>2, EnterJob
    <3>3. QED
      BY <3>1, <3>2 DEF Jobs, TypeOK, TaskTypeOK
  <2>3. QED
    BY <2>1, <2>2
<1>3. ASSUME NEW c \in Calls, Cancel(c) PROVE JobInv'
  BY <1>3 DEF Cancel, End, TypeOK, TaskTypeOK
<1>4. ASSUME NEW c \in Calls, RunScan(c) \/ ScanWoken(c) \/ ScanTimeout(c) PROVE JobInv'
  BY <1>4
  DEF RunScan, ScanWoken, ScanTimeout, WaitAt, Spawn, Return, End, TypeOK, TaskTypeOK
<1>5. ASSUME NEW c \in Calls, RunCollect(c) \/ RunContext(c) PROVE JobInv'
  BY <1>5 DEF RunCollect, RunContext, BeginScan, Spawn, Return, End, TypeOK, TaskTypeOK
<1>6. ASSUME NEW c \in Calls, RunInstall(c) \/ RunExists(c) \/ RunConnect(c) PROVE JobInv'
  BY <1>6
  DEF RunInstall, RunExists, RunConnect, BeginConnect, WaitAt, Spawn, Return, End,
      TypeOK, TaskTypeOK
<1>7. ASSUME NEW c \in Calls, ConnectWoken(c) \/ ConnectTimeout(c) \/ RunAbort(c)
      PROVE  JobInv'
  BY <1>7
  DEF ConnectWoken, ConnectTimeout, RunAbort, Spawn, Return, End, TypeOK, TaskTypeOK
<1>8. ASSUME NEW c \in Calls, RunQuery(c) \/ RunDisconnect(c) \/ RunDelete(c)
      PROVE  JobInv'
  BY <1>8 DEF RunQuery, RunDisconnect, RunDelete, Spawn, Return, End, TypeOK, TaskTypeOK
<1>9. ASSUME NEW c \in Calls, RunDetached(c) PROVE JobInv'
  BY <1>9 DEF RunDetached, TypeOK, TaskTypeOK
<1>10. ASSUME UNCHANGED taskVars PROVE JobInv'
  BY <1>10 DEF taskVars
<1>11. QED
  BY <1>1, <1>2, <1>3, <1>4, <1>5, <1>6, <1>7, <1>8, <1>9, <1>10
  DEF Next, Task, DeliverConnection, DeliverScan, Service, vars

ConnInv == ConnRegInv /\ WaiterIsReachable

Alive(c) == c \in ConnAlive

\* Only call c's task runs.
Frame(c) ==
    /\ UNCHANGED req
    /\ \A d \in Calls \ {c} : pc'[d] = pc[d] /\ job'[d] = job[d]

\* A task touches no other call's future.
LEMMA FrameOf ==
    ASSUME TypeOK, NEW c \in Calls, Start(c) \/ Cancel(c) \/ Task(c)
    PROVE  Frame(c)
<1> USE DEF Frame, TypeOK, TaskTypeOK, Spawn, WaitAt, Return, End
<1>1. ASSUME Start(c) \/ Cancel(c) \/ AcquireLock(c) PROVE Frame(c)
  BY <1>1 DEF Start, Cancel, AcquireLock
<1>2. ASSUME RunScan(c) \/ ScanWoken(c) \/ ScanTimeout(c) \/ RunCollect(c)
                 \/ RunContext(c)
      PROVE  Frame(c)
  BY <1>2 DEF RunScan, ScanWoken, ScanTimeout, RunCollect, RunContext, BeginScan
<1>3. ASSUME RunInstall(c) \/ RunExists(c) \/ RunConnect(c) \/ ConnectWoken(c)
                 \/ ConnectTimeout(c) \/ RunAbort(c)
      PROVE  Frame(c)
  BY <1>3
  DEF RunInstall, RunExists, RunConnect, ConnectWoken, ConnectTimeout, RunAbort,
      BeginConnect
<1>4. ASSUME RunQuery(c) \/ RunDisconnect(c) \/ RunDelete(c) \/ RunDetached(c)
      PROVE  Frame(c)
  BY <1>4 DEF RunQuery, RunDisconnect, RunDelete, RunDetached
<1>5. QED
  BY <1>1, <1>2, <1>3, <1>4 DEF Task

\* Hence it leaves the guards and receivers of other calls.
LEMMA FrameGuard ==
    ASSUME NEW c, Frame(c)
    PROVE  \A d \in Calls \ {c} : /\ Iface(d)' = Iface(d)
                                  /\ Guarded(d)' <=> Guarded(d)
                                  /\ Alive(d)' <=> Alive(d)
BY DEF Frame, Guarded, Alive, ConnAlive, Awaits, Iface

\* A receiver is guarded, and a guard lives inside the locked section.
LEMMA AliveBusy ==
    ASSUME NEW c \in Calls PROVE (Alive(c) => Guarded(c)) /\ (Guarded(c) => Busy(c))
BY DEF Alive, Guarded, ConnAlive, Awaits, Busy

\* The lock makes guards on an interface exclusive.
LEMMA OneGuard ==
    ASSUME TypeOK, LockInv, NEW c \in Calls, NEW d \in Calls, Busy(c), Busy(d),
           Iface(c) = Iface(d)
    PROVE  c = d
BY DEF LockInv

\* A step of c that leaves the connect registry alone.
LEMMA KeepConn ==
    ASSUME TypeOK, ConnInv, NEW c \in Calls, Frame(c), UNCHANGED <<connReg, connRx>>,
           Guarded(c) => Guarded(c)', Alive(c)' => Alive(c)
    PROVE  ConnInv'
<1>1. \A d \in Calls : /\ Iface(d)' = Iface(d)
                       /\ Guarded(d) => Guarded(d)'
                       /\ Alive(d)' => Alive(d)
  BY FrameGuard DEF Frame, Iface
<1>2. ConnRegInv'
  BY <1>1 DEF ConnInv, ConnRegInv, TypeOK, DispatcherTypeOK
<1>3. WaiterIsReachable'
  BY <1>1 DEF ConnInv, WaiterIsReachable, Alive, ConnAlive
<1>4. QED
  BY <1>2, <1>3 DEF ConnInv

\* A step of c that drops its guard, and its receiver with it.
LEMMA DropConn ==
    ASSUME TypeOK, LockInv, ConnInv, NEW c \in Calls, Frame(c), DropGuard(c),
           ~Alive(c)'
    PROVE  ConnInv'
<1>1. \A i \in Ifaces : connReg'[i] =
          IF connReg[i] = c \/ (i = Iface(c) /\ Guarded(c)) THEN None ELSE connReg[i]
  BY IfaceType
  DEF ConnInv, ConnRegInv, DropGuard, drop_pending_connect, regVars, TypeOK,
      DispatcherTypeOK
<1>2. UNCHANGED connRx
  BY DEF DropGuard, drop_pending_connect, regVars
<1>3. ConnRegInv'
  BY <1>1, FrameGuard, NoneAssumption DEF ConnInv, ConnRegInv, TypeOK, DispatcherTypeOK
<1>4. ASSUME NEW d \in Calls, Alive(d)', connRx'[d] = None PROVE connReg'[Iface(d)'] = d
  <2>1. d # c /\ Alive(d) /\ Iface(d)' = Iface(d) /\ connRx[d] = None
    BY <1>2, <1>4, FrameGuard
  <2>2. connReg[Iface(d)] = d
    BY <2>1 DEF ConnInv, WaiterIsReachable, Alive
  <2>3. Guarded(c) => Iface(c) # Iface(d)
    BY <2>1, AliveBusy, OneGuard
  <2>4. QED
    BY <1>1, <2>1, <2>2, <2>3, IfaceType
<1>5. QED
  BY <1>3, <1>4 DEF ConnInv, WaiterIsReachable, Alive, ConnAlive

\* A step of c that registers its sender.
LEMMA OpenConn ==
    ASSUME TypeOK, LockInv, ConnInv, NEW c \in Calls, Frame(c), Busy(c),
           pending_connect(c, Iface(c)), Guarded(c)'
    PROVE  ConnInv'
<1>1. \A i \in Ifaces : connReg'[i] = IF i = Iface(c) THEN c ELSE connReg[i]
  BY DEF pending_connect, TypeOK, DispatcherTypeOK
<1>2. \A d \in Calls \ {c} : connRx'[d] = connRx[d]
  BY DEF pending_connect, TypeOK, DispatcherTypeOK
<1>3. Iface(c)' = Iface(c) /\ Iface(c) \in Ifaces
  BY IfaceType DEF Frame, Iface
<1>4. ConnRegInv'
  <2>1. \A i \in Ifaces : connReg[i] # c \/ i = Iface(c)
    BY NoneAssumption DEF ConnInv, ConnRegInv, TypeOK, DispatcherTypeOK
  <2>2. \A i \in Ifaces : connReg'[i] # None => 
           \E d \in Calls : connReg'[i] = d /\ Iface(d)' = i /\ Guarded(d)'
    BY <1>1, <1>3, <2>1, FrameGuard DEF ConnInv, ConnRegInv, TypeOK, DispatcherTypeOK
  <2>3. QED
    BY <2>2 DEF ConnRegInv, Iface, Guarded, ConnAlive, Awaits
<1>5. ASSUME NEW d \in Calls, Alive(d)', connRx'[d] = None PROVE connReg'[Iface(d)'] = d
  <2>1. CASE d = c
    BY <1>1, <1>3, <2>1
  <2>2. CASE d # c
    <3>1. Alive(d) /\ Iface(d)' = Iface(d) /\ connRx[d] = None
      BY <1>2, <1>5, <2>2, FrameGuard
    <3>2. connReg[Iface(d)] = d
      BY <3>1 DEF ConnInv, WaiterIsReachable, Alive
    <3>3. Iface(c) # Iface(d)
      BY <2>2, <3>1, AliveBusy, OneGuard
    <3>4. QED
      BY <1>1, <3>1, <3>2, <3>3, IfaceType
  <2>3. QED
    BY <2>1, <2>2
<1>6. QED
  BY <1>4, <1>5 DEF ConnInv, WaiterIsReachable, Alive, ConnAlive

\* A delivered outcome removes the sender it is sent through.
LEMMA DispatchConn ==
    ASSUME TypeOK, ConnInv, NEW m \in ConnNotes, dispatch_connection(m, ConnAlive),
           UNCHANGED taskVars
    PROVE  ConnInv'
<1>1. \A d : Iface(d)' = Iface(d) /\ (Guarded(d)' <=> Guarded(d)) /\ (Alive(d)' <=> Alive(d))
  BY DEF taskVars, Iface, Guarded, Alive, ConnAlive, Awaits
<1>2. m.iface \in Ifaces /\ OutcomeOf(m) \in ConnMsgs
  BY DEF ConnNotes, ConnMsgs, OutcomeOf
<1>3. \A i \in Ifaces : connReg'[i] = IF i = m.iface THEN None ELSE connReg[i]
  BY <1>2 DEF dispatch_connection, TypeOK, DispatcherTypeOK
<1>4. ConnRegInv'
  BY <1>1, <1>3 DEF ConnInv, ConnRegInv
<1>5. ASSUME NEW d \in Calls, Alive(d)', connRx'[d] = None PROVE connReg'[Iface(d)'] = d
  <2>1. Alive(d) /\ Iface(d)' = Iface(d) /\ Iface(d) \in Ifaces
    BY <1>1, <1>5, IfaceType
  <2>2. connRx[d] = None
    BY <1>2, <1>5, NoneIsNoMessage DEF dispatch_connection, TypeOK, DispatcherTypeOK
  <2>3. connReg[Iface(d)] = d
    BY <2>1, <2>2 DEF ConnInv, WaiterIsReachable, Alive
  <2>4. Iface(d) # m.iface
    BY <1>2, <1>5, <2>1, <2>3, NoneAssumption, NoneIsNoMessage
    DEF dispatch_connection, TypeOK, DispatcherTypeOK, Alive
  <2>5. QED
    BY <1>3, <2>1, <2>3, <2>4
<1>6. QED
  BY <1>4, <1>5 DEF ConnInv, WaiterIsReachable, Alive, ConnAlive

\* A call that ends drops its guard if it had one.
LEMMA EndConn ==
    ASSUME TypeOK, LockInv, ConnInv, NEW c \in Calls, NEW r, Frame(c), End(c, r),
           DropGuard(c)
    PROVE  ConnInv'
<1>1. ~Alive(c)'
  BY DEF End, Alive, ConnAlive, Awaits, TypeOK, TaskTypeOK
<1>2. QED
  BY <1>1, DropConn

\* A step of c outside the guarded section.
LEMMA QuietConn ==
    ASSUME TypeOK, ConnInv, NEW c \in Calls, Frame(c), UNCHANGED <<connReg, connRx>>,
           ~Guarded(c), ~Alive(c)'
    PROVE  ConnInv'
BY KeepConn

\* Where a call has no guard.
LEMMA NoGuardAt ==
    ASSUME TypeOK, NEW c \in Calls
    PROVE  /\ pc[c] \notin {"job", "conn_wait"} => ~Guarded(c)
           /\ pc[c] = "job" /\ job[c] \notin {"connect", "abort"} => ~Guarded(c)
           /\ ~Guarded(c) => ~Alive(c)
BY DEF Guarded, Alive, ConnAlive, Awaits

\* Where a call has no receiver after a step.
LEMMA NotAliveNext ==
    ASSUME TypeOK, NEW c \in Calls
    PROVE  /\ \A r : End(c, r) => ~Alive(c)'
           /\ \A j : Spawn(c, j) /\ j # "connect" => ~Alive(c)'
           /\ WaitAt(c, "scan_wait") => ~Alive(c)'
BY DEF End, Spawn, WaitAt, Alive, ConnAlive, Awaits, TypeOK, TaskTypeOK

\* Every step keeps the connect registry in order.
LEMMA ConnStep == ASSUME TypeOK, LockInv, JobInv, ConnInv, [Next]_vars PROVE ConnInv'
<1>0. ASSUME NEW c \in Calls, Frame(c), UNCHANGED <<connReg, connRx>>, ~Guarded(c),
             (\E r : End(c, r)) \/ (\E j : Spawn(c, j) /\ j # "connect") \/ WaitAt(c, "scan_wait")
      PROVE  ConnInv'
  BY <1>0, QuietConn, NotAliveNext
<1>1. ASSUME NEW c \in Calls, Start(c) PROVE ConnInv'
  <2>1. ~Guarded(c) /\ ~Alive(c)'
    BY <1>1 DEF Start, Guarded, Alive, ConnAlive, Awaits, TypeOK, TaskTypeOK
  <2>2. QED
    BY <1>1, <2>1, FrameOf, QuietConn DEF Start, regVars
<1>2. ASSUME NEW c \in Calls, AcquireLock(c) PROVE ConnInv'
  <2>1. ~Guarded(c)
    BY <1>2, NoGuardAt DEF AcquireLock
  <2>2. UNCHANGED <<connReg, connRx>>
    BY <1>2 DEF AcquireLock, pending_scan, regVars
  <2>3. ~Alive(c)'
    <3>1. CASE pc'[c] = "done"
      BY <3>1 DEF Alive, ConnAlive, Awaits
    <3>2. CASE pc'[c] # "done"
      BY <1>2, <3>2, EnterJob DEF Alive, ConnAlive, Awaits, TypeOK, TaskTypeOK
    <3>3. QED
      BY <3>1, <3>2
  <2>4. QED
    BY <1>2, <2>1, <2>2, <2>3, FrameOf, QuietConn DEF Task
<1>3. ASSUME NEW c \in Calls, Cancel(c) PROVE ConnInv'
  BY <1>3, FrameOf, EndConn DEF Cancel
<1>4. ASSUME NEW c \in Calls, RunScan(c) \/ ScanWoken(c) \/ ScanTimeout(c) PROVE ConnInv'
  <2>1. ~Guarded(c)
    BY <1>4, NoGuardAt DEF RunScan, ScanWoken, ScanTimeout, Awaits
  <2>2. UNCHANGED <<connReg, connRx>>
    BY <1>4 DEF RunScan, ScanWoken, ScanTimeout, drop_pending_scan, regVars
  <2>3. (\E r : End(c, r)) \/ (\E j : Spawn(c, j) /\ j # "connect") \/ WaitAt(c, "scan_wait")
    BY <1>4 DEF RunScan, ScanWoken, ScanTimeout, Return
  <2>4. QED
    BY <1>0, <1>4, <2>1, <2>2, <2>3, FrameOf DEF Task
<1>5. ASSUME NEW c \in Calls, RunCollect(c) PROVE ConnInv'
  <2>1. ~Guarded(c)
    BY <1>5, NoGuardAt DEF RunCollect, Awaits
  <2>2. UNCHANGED <<connReg, connRx>>
    BY <1>5 DEF RunCollect, BeginScan, pending_scan, regVars
  <2>3. CASE BeginScan(c)
    <3>1. ~Alive(c)'
      BY <2>3 DEF BeginScan, Alive, ConnAlive, Awaits, TypeOK, TaskTypeOK
    <3>2. QED
      BY <1>5, <2>1, <2>2, <3>1, FrameOf, QuietConn DEF Task
  <2>4. CASE ~BeginScan(c)
    <3>1. (\E r : End(c, r)) \/ (\E j : Spawn(c, j) /\ j # "connect")
      BY <1>5, <2>4 DEF RunCollect, Return
    <3>2. QED
      BY <1>0, <1>5, <2>1, <2>2, <3>1, FrameOf DEF Task
  <2>5. QED
    BY <2>3, <2>4
<1>6. ASSUME NEW c \in Calls,
             RunContext(c) \/ RunQuery(c) \/ RunDisconnect(c) \/ RunDelete(c)
      PROVE  ConnInv'
  <2>1. ~Guarded(c)
    BY <1>6, NoGuardAt DEF RunContext, RunQuery, RunDisconnect, RunDelete, Awaits
  <2>2. UNCHANGED <<connReg, connRx>>
    BY <1>6 DEF RunContext, RunQuery, RunDisconnect, RunDelete, regVars
  <2>3. (\E r : End(c, r)) \/ (\E j : Spawn(c, j) /\ j # "connect")
    BY <1>6 DEF RunContext, RunQuery, RunDisconnect, RunDelete, Return
  <2>4. QED
    BY <1>0, <1>6, <2>1, <2>2, <2>3, FrameOf DEF Task
<1>7. ASSUME NEW c \in Calls, RunInstall(c) \/ RunExists(c) PROVE ConnInv'
  <2>1. ~Guarded(c) /\ Busy(c)
    BY <1>7, NoGuardAt DEF RunInstall, RunExists, Awaits, Busy
  <2>2. CASE BeginConnect(c)
    <3>1. Guarded(c)'
      BY <2>2 DEF BeginConnect, Spawn, Guarded, ConnAlive, Awaits, TypeOK, TaskTypeOK
    <3>2. QED
      BY <1>7, <2>1, <2>2, <3>1, FrameOf, OpenConn DEF BeginConnect, Task
  <2>3. CASE ~BeginConnect(c)
    <3>1. UNCHANGED <<connReg, connRx>> /\ \E r : End(c, r)
      BY <1>7, <2>3 DEF RunInstall, RunExists, Return, regVars
    <3>2. QED
      BY <1>0, <1>7, <2>1, <3>1, FrameOf DEF Task
  <2>4. QED
    BY <2>2, <2>3
<1>8. ASSUME NEW c \in Calls, RunConnect(c) PROVE ConnInv'
  <2>1. CASE WaitAt(c, "conn_wait") /\ UNCHANGED regVars
    <3>1. Alive(c) /\ Guarded(c)'
      BY <1>8, <2>1 DEF RunConnect, WaitAt, Alive, Guarded, ConnAlive, TypeOK, TaskTypeOK
    <3>2. QED
      BY <1>8, <2>1, <3>1, FrameOf, KeepConn DEF Task, regVars
  <2>2. CASE DropGuard(c) /\ Return(c, "Os")
    BY <1>8, <2>2, FrameOf, EndConn DEF Task, Return
  <2>3. QED
    BY <1>8, <2>1, <2>2 DEF RunConnect
<1>9. ASSUME NEW c \in Calls, ConnectWoken(c) \/ RunAbort(c) PROVE ConnInv'
  BY <1>9, FrameOf, EndConn DEF ConnectWoken, RunAbort, Task, Return
<1>10. ASSUME NEW c \in Calls, ConnectTimeout(c) PROVE ConnInv'
  <2>1. Guarded(c)' /\ ~Alive(c)'
    BY <1>10
    DEF ConnectTimeout, Spawn, Guarded, Alive, ConnAlive, Awaits, TypeOK, TaskTypeOK
  <2>2. QED
    BY <1>10, <2>1, FrameOf, KeepConn DEF ConnectTimeout, Task, regVars
<1>11. ASSUME NEW c \in Calls, RunDetached(c) PROVE ConnInv'
  <2>1. ~Guarded(c) /\ ~Alive(c)'
    BY <1>11, NoGuardAt DEF RunDetached, Alive, ConnAlive, Awaits
  <2>2. QED
    BY <1>11, <2>1, FrameOf, QuietConn DEF RunDetached, Task, regVars
<1>12. ASSUME NEW m \in connNotes, DeliverConnection(m) PROVE ConnInv'
  BY <1>12, DispatchConn DEF DeliverConnection, TypeOK, ServiceTypeOK
<1>13. ASSUME UNCHANGED taskVars, UNCHANGED <<connReg, connRx>> PROVE ConnInv'
  BY <1>13
  DEF ConnInv, ConnRegInv, WaiterIsReachable, taskVars, Guarded, ConnAlive, Awaits, Iface
<1>14. QED
  BY <1>1, <1>2, <1>3, <1>4, <1>5, <1>6, <1>7, <1>8, <1>9, <1>10, <1>11, <1>12, <1>13
  DEF Next, Task, DeliverScan, dispatch_scan, Service, vars, regVars

-----------------------------------------------------------------------------
\* A running call's registered scan is the one it waits for.
LEMMA ScanRegOf ==
    ASSUME TypeOK, JobInv, ScanRegInv, NEW c \in Calls, pc[c] # "done",
           NEW i \in Ifaces, ScanOf(i, c)
    PROVE  i = Iface(c) /\ scanReg[i] = ScanId(c) /\ AwaitsScan(c)
BY DEF JobInv, ScanRegInv

\* Nothing but call c's task state moves.
Local(c) ==
    /\ Frame(c)
    /\ \A d \in Calls \ {c} : scans'[d] = scans[d] /\ result'[d] = result[d]

\* A task touches no other call's scans and results.
LEMMA LocalOf ==
    ASSUME TypeOK, NEW c \in Calls, Start(c) \/ Cancel(c) \/ Task(c)
    PROVE  Local(c)
<1> USE DEF Local, TypeOK, TaskTypeOK, Spawn, WaitAt, Return, End
<1>0. Frame(c)
  BY FrameOf
<1>1. ASSUME Start(c) \/ Cancel(c) \/ AcquireLock(c) PROVE Local(c)
  BY <1>0, <1>1 DEF Start, Cancel, AcquireLock
<1>2. ASSUME RunScan(c) \/ ScanWoken(c) \/ ScanTimeout(c) \/ RunCollect(c)
                 \/ RunContext(c)
      PROVE  Local(c)
  BY <1>0, <1>2 DEF RunScan, ScanWoken, ScanTimeout, RunCollect, RunContext, BeginScan
<1>3. ASSUME RunInstall(c) \/ RunExists(c) \/ RunConnect(c) \/ ConnectWoken(c)
                 \/ ConnectTimeout(c) \/ RunAbort(c)
      PROVE  Local(c)
  BY <1>0, <1>3
  DEF RunInstall, RunExists, RunConnect, ConnectWoken, ConnectTimeout, RunAbort,
      BeginConnect
<1>4. ASSUME RunQuery(c) \/ RunDisconnect(c) \/ RunDelete(c) \/ RunDetached(c)
      PROVE  Local(c)
  BY <1>0, <1>4 DEF RunQuery, RunDisconnect, RunDelete, RunDetached
<1>5. QED
  BY <1>1, <1>2, <1>3, <1>4 DEF Task

\* A step of c that leaves the scan registry alone.
LEMMA KeepScan ==
    ASSUME TypeOK, JobInv, ScanRegInv, NEW c \in Calls, Local(c),
           UNCHANGED <<scanReg, scanRx>>,
           \/ \A i \in Ifaces : ~ScanOf(i, c)
           \/ result'[c] = "Cancelled"
           \/ pc[c] # "done" /\ AwaitsScan(c)' /\ scans'[c] = scans[c]
    PROVE  ScanRegInv'
<1> SUFFICES ASSUME NEW i \in Ifaces, NEW d \in Calls, ScanOf(i, d)'
             PROVE  /\ Iface(d)' = i
                    /\ \/ scanReg'[i] = ScanId(d)' /\ AwaitsScan(d)'
                       \/ result'[d] = "Cancelled"
  BY DEF ScanRegInv
<1>1. ScanOf(i, d) /\ Iface(d)' = Iface(d)
  BY DEF ScanOf, Local, Frame, Iface
<1>2. CASE d = c
  BY <1>1, <1>2, ScanRegOf DEF ScanId, ScanRegInv
<1>3. CASE d # c
  BY <1>1, <1>3 DEF ScanRegInv, ScanId, AwaitsScan, ScanAlive, Awaits, Local, Frame
<1>4. QED
  BY <1>2, <1>3

\* A step of c that clears the registration of its interface.
LEMMA DropScan ==
    ASSUME TypeOK, JobInv, ScanRegInv, NEW c \in Calls, pc[c] # "done", Local(c),
           drop_pending_scan(Iface(c))
    PROVE  ScanRegInv'
<1> SUFFICES ASSUME NEW i \in Ifaces, NEW d \in Calls, ScanOf(i, d)'
             PROVE  /\ Iface(d)' = i
                    /\ \/ scanReg'[i] = ScanId(d)' /\ AwaitsScan(d)'
                       \/ result'[d] = "Cancelled"
  BY DEF ScanRegInv
<1>1. i # Iface(c) /\ scanReg'[i] = scanReg[i] /\ scanRx' = scanRx
  BY IfaceType DEF ScanOf, drop_pending_scan, TypeOK, DispatcherTypeOK
<1>2. ScanOf(i, d) /\ Iface(d)' = Iface(d)
  BY <1>1 DEF ScanOf, Local, Frame, Iface
<1>3. d # c
  BY <1>1, <1>2, ScanRegOf
<1>4. QED
  BY <1>1, <1>2, <1>3 DEF ScanRegInv, ScanId, AwaitsScan, ScanAlive, Awaits, Local, Frame

\* A step of c that registers a new scan.
LEMMA OpenScan ==
    ASSUME TypeOK, JobInv, ScanRegInv, NEW c \in Calls, pc[c] # "done", Local(c),
           pending_scan(ScanId(c)', Iface(c)), c \in ScanAlive'
    PROVE  ScanRegInv'
<1> SUFFICES ASSUME NEW i \in Ifaces, NEW d \in Calls, ScanOf(i, d)'
             PROVE  /\ Iface(d)' = i
                    /\ \/ scanReg'[i] = ScanId(d)' /\ AwaitsScan(d)'
                       \/ result'[d] = "Cancelled"
  BY DEF ScanRegInv
<1>1. ScanId(c)'.call = c /\ Iface(c) \in Ifaces /\ Iface(d)' = Iface(d)
  BY IfaceType DEF ScanId, Local, Frame, Iface
<1>2. /\ scanRx' = [scanRx EXCEPT ![c] = None]
      /\ scanReg' = [scanReg EXCEPT ![Iface(c)] = ScanId(c)']
  BY <1>1 DEF pending_scan
<1>3. CASE i = Iface(c)
  <2>1. d = c
    BY <1>1, <1>2, <1>3 DEF ScanOf, TypeOK, DispatcherTypeOK
  <2>2. QED
    BY <1>1, <1>2, <1>3, <2>1 DEF AwaitsScan, TypeOK, DispatcherTypeOK
<1>4. CASE i # Iface(c)
  <2>1. ScanOf(i, d) /\ scanReg'[i] = scanReg[i]
    BY <1>1, <1>2, <1>4 DEF ScanOf, TypeOK, DispatcherTypeOK
  <2>2. d # c
    BY <1>4, <2>1, ScanRegOf
  <2>3. scanRx'[d] = scanRx[d]
    BY <1>2, <2>2 DEF TypeOK, DispatcherTypeOK
  <2>4. QED
    BY <1>1, <2>1, <2>2, <2>3
    DEF ScanRegInv, ScanId, AwaitsScan, ScanAlive, Awaits, Local, Frame
<1>5. QED
  BY <1>3, <1>4

\* A delivered completion removes the sender it is sent through.
LEMMA DispatchScan ==
    ASSUME TypeOK, ScanRegInv, NEW m \in ScanNotes, dispatch_scan(m, ScanAlive),
           UNCHANGED taskVars
    PROVE  ScanRegInv'
<1> SUFFICES ASSUME NEW i \in Ifaces, NEW d \in Calls, ScanOf(i, d)'
             PROVE  /\ Iface(d)' = i
                    /\ \/ scanReg'[i] = ScanId(d)' /\ AwaitsScan(d)'
                       \/ result'[d] = "Cancelled"
  BY DEF ScanRegInv
<1>1. i # m.iface /\ scanReg'[i] = scanReg[i] /\ ScanOf(i, d)
  BY DEF dispatch_scan, ScanOf, TypeOK, DispatcherTypeOK, ScanNotes
<1>2. Iface(d) = i
  BY <1>1 DEF ScanRegInv
<1>3. scanRx'[d] = scanRx[d]
  <2>1. CASE scanReg[m.iface] # None /\ scanReg[m.iface].call = d
    BY <1>1, <1>2, <2>1 DEF ScanRegInv, ScanOf, ScanNotes
  <2>2. CASE ~(scanReg[m.iface] # None /\ scanReg[m.iface].call = d)
    BY <2>2 DEF dispatch_scan, TypeOK, DispatcherTypeOK
  <2>3. QED
    BY <2>1, <2>2
<1>4. QED
  BY <1>1, <1>2, <1>3
  DEF ScanRegInv, taskVars, Iface, ScanId, AwaitsScan, ScanAlive, Awaits

\* A call whose task neither waits for a scan nor was cancelled has none registered.
LEMMA NoScanAt ==
    ASSUME TypeOK, JobInv, ScanRegInv, NEW c \in Calls, pc[c] # "done", ~AwaitsScan(c)
    PROVE  \A i \in Ifaces : ~ScanOf(i, c)
BY ScanRegOf

\* Every step keeps the scan registry in order.
LEMMA ScanStep == ASSUME TypeOK, JobInv, ScanRegInv, [Next]_vars PROVE ScanRegInv'
<1>0. ASSUME NEW c \in Calls, Start(c) \/ Task(c), pc[c] # "done",
             ~AwaitsScan(c), UNCHANGED <<scanReg, scanRx>>
      PROVE  ScanRegInv'
  BY <1>0, LocalOf, NoScanAt, KeepScan
<1>1. ASSUME NEW c \in Calls, Start(c) PROVE ScanRegInv'
  BY <1>0, <1>1 DEF Start, AwaitsScan, ScanAlive, Awaits, regVars
<1>2. ASSUME NEW c \in Calls, AcquireLock(c) PROVE ScanRegInv'
  <2>1. pc[c] = "locking" /\ ~AwaitsScan(c)
    BY <1>2 DEF AcquireLock, AwaitsScan, ScanAlive, Awaits
  <2>2. CASE UNCHANGED regVars
    BY <1>0, <1>2, <2>1, <2>2 DEF regVars, Task
  <2>3. CASE ~UNCHANGED regVars
    <3>1. /\ pending_scan([call |-> c, n |-> 1], Iface(c))
          /\ scans' = [scans EXCEPT ![c] = 1]
          /\ pc' = [pc EXCEPT ![c] = "job"]
          /\ job' = [job EXCEPT ![c] = "scan"]
      BY <1>2, <2>3 DEF AcquireLock
    <3>2. ScanId(c)' = [call |-> c, n |-> 1] /\ c \in ScanAlive'
      BY <3>1 DEF ScanId, ScanAlive, Awaits, TypeOK, TaskTypeOK
    <3>3. QED
      BY <1>2, <2>1, <3>1, <3>2, LocalOf, OpenScan DEF Task
  <2>4. QED
    BY <2>2, <2>3
<1>3. ASSUME NEW c \in Calls, Cancel(c) PROVE ScanRegInv'
  <2>1. result'[c] = "Cancelled"
    BY <1>3 DEF Cancel, End, TypeOK, TaskTypeOK
  <2>2. UNCHANGED <<scanReg, scanRx>>
    BY <1>3 DEF Cancel, DropGuard, drop_pending_connect, regVars
  <2>3. QED
    BY <1>3, <2>1, <2>2, LocalOf, KeepScan
<1>4. ASSUME NEW c \in Calls, RunScan(c) PROVE ScanRegInv'
  <2>1. pc[c] # "done"
    BY <1>4 DEF RunScan, Awaits
  <2>2. CASE drop_pending_scan(Iface(c))
    BY <1>4, <2>1, <2>2, LocalOf, DropScan DEF Task
  <2>3. CASE WaitAt(c, "scan_wait") /\ UNCHANGED regVars
    <3>1. AwaitsScan(c) => AwaitsScan(c)' /\ scans'[c] = scans[c]
      BY <2>3 DEF WaitAt, AwaitsScan, ScanAlive, regVars, TypeOK, TaskTypeOK
    <3>2. QED
      BY <1>4, <2>1, <2>3, <3>1, LocalOf, NoScanAt, KeepScan DEF Task, regVars
  <2>4. QED
    BY <1>4, <2>2, <2>3 DEF RunScan
<1>5. ASSUME NEW c \in Calls, ScanWoken(c) PROVE ScanRegInv'
  <2>1. \A i \in Ifaces : ~ScanOf(i, c)
    BY <1>5, ScanRegOf DEF ScanWoken, AwaitsScan
  <2>2. QED
    BY <1>5, <2>1, LocalOf, KeepScan DEF ScanWoken, Task, regVars
<1>6. ASSUME NEW c \in Calls, ScanTimeout(c) PROVE ScanRegInv'
  BY <1>6, LocalOf, DropScan DEF ScanTimeout, Task
<1>7. ASSUME NEW c \in Calls, RunCollect(c) PROVE ScanRegInv'
  <2>1. pc[c] # "done" /\ ~AwaitsScan(c)
    BY <1>7 DEF RunCollect, AwaitsScan, ScanAlive, Awaits
  <2>2. CASE BeginScan(c)
    <3>1. ScanId(c)' = [call |-> c, n |-> scans[c] + 1] /\ c \in ScanAlive'
      BY <2>2 DEF BeginScan, ScanId, ScanAlive, Awaits, TypeOK, TaskTypeOK
    <3>2. QED
      BY <1>7, <2>1, <2>2, <3>1, LocalOf, OpenScan DEF BeginScan, Task
  <2>3. CASE ~BeginScan(c)
    BY <1>0, <1>7, <2>1, <2>3 DEF RunCollect, Task, regVars
  <2>4. QED
    BY <2>2, <2>3
<1>8. ASSUME NEW c \in Calls,
             RunContext(c) \/ RunInstall(c) \/ RunExists(c) \/ RunConnect(c) \/ ConnectWoken(c) \/ ConnectTimeout(c)
               \/ RunAbort(c) \/ RunQuery(c) \/ RunDisconnect(c) \/ RunDelete(c)
      PROVE  ScanRegInv'
  <2>1. pc[c] # "done" /\ ~AwaitsScan(c)
    BY <1>8
    DEF RunContext, RunInstall, RunExists, RunConnect, ConnectWoken, ConnectTimeout,
        RunAbort, RunQuery,
                RunDisconnect, RunDelete, AwaitsScan, ScanAlive, Awaits
  <2>2. UNCHANGED <<scanReg, scanRx>>
    BY <1>8
    DEF RunContext, RunInstall, RunExists, RunConnect, ConnectWoken, ConnectTimeout,
        RunAbort, RunQuery,
                RunDisconnect, RunDelete, BeginConnect, pending_connect, DropGuard, drop_pending_connect, regVars
  <2>3. QED
    BY <1>0, <1>8, <2>1, <2>2 DEF Task
<1>9. ASSUME NEW c \in Calls, RunDetached(c) PROVE ScanRegInv'
  <2>1. result[c] = "Cancelled" /\ result'[c] = result[c]
    BY <1>9 DEF RunDetached, JobInv
  <2>2. QED
    BY <1>9, <2>1, LocalOf, KeepScan DEF RunDetached, Task, regVars
<1>10. ASSUME NEW m \in scanning, DeliverScan(m) PROVE ScanRegInv'
  BY <1>10, DispatchScan DEF DeliverScan, TypeOK, ServiceTypeOK
<1>11. ASSUME UNCHANGED taskVars, UNCHANGED <<scanReg, scanRx>> PROVE ScanRegInv'
  BY <1>11 DEF ScanRegInv, ScanOf, taskVars, AwaitsScan, ScanAlive, Awaits, Iface, ScanId
<1>12. QED
  BY <1>1, <1>2, <1>3, <1>4, <1>5, <1>6, <1>7, <1>8, <1>9, <1>10, <1>11
  DEF Next, Task, DeliverConnection, dispatch_connection, Service, vars, regVars

-----------------------------------------------------------------------------
\* A call resets no receiver but its own, and fills none.
LEMMA CallRx ==
    ASSUME TypeOK, NEW c \in Calls, Start(c) \/ Cancel(c) \/ Task(c)
    PROVE  /\ \A d \in Calls \ {c} : connRx'[d] = connRx[d]
           /\ connRx'[c] \in {connRx[c], None}
<1>1. \/ UNCHANGED connRx
      \/ connRx' = [connRx EXCEPT ![c] = None]
  BY
  DEF Start, Cancel, Task, AcquireLock, RunScan, ScanWoken, ScanTimeout, RunCollect,
      RunContext, RunInstall,
      RunExists, RunConnect, ConnectWoken, ConnectTimeout, RunAbort, RunQuery, RunDisconnect, RunDelete, RunDetached,
      BeginScan, BeginConnect, pending_connect, pending_scan, drop_pending_scan, drop_pending_connect, DropGuard, regVars
<1>2. QED
  BY <1>1 DEF TypeOK, DispatcherTypeOK

-----------------------------------------------------------------------------
(* The inductive invariant, and what follows from it.                      *)

\* The invariant holds initially.
LEMMA InitInvariant == Init => IInv
<1> SUFFICES ASSUME Init PROVE IInv
  OBVIOUS
<1>1. TypeOK
  BY InitType
<1>2. \A c \in Calls : ~Busy(c) /\ ~Guarded(c) /\ c \notin ConnAlive
  BY DEF Init, Busy, Guarded, ConnAlive, Awaits
<1>3. LockInv /\ JobInv /\ ConnRegInv /\ WaiterIsReachable /\ ScanRegInv
  BY <1>2
  DEF Init, DispatcherInit, LockInv, JobInv, ConnRegInv, WaiterIsReachable, ScanRegInv,
      ScanOf, ConnAlive
<1>4. QED
  BY <1>1, <1>3 DEF IInv

\* The invariant is inductive: lock, closures, registries and outcomes agree
\* in every reachable state.
THEOREM InvariantHolds == Spec => []IInv
<1>1. IInv /\ [Next]_vars => IInv'
  <2> SUFFICES ASSUME IInv, [Next]_vars PROVE IInv'
    OBVIOUS
  <2> USE DEF IInv
  <2>1. TypeOK'
    BY TypeStep
  <2>2. LockInv'
    BY LockStep
  <2>3. JobInv'
    BY JobStep
  <2>4. ConnRegInv' /\ WaiterIsReachable'
    BY ConnStep DEF ConnInv
  <2>5. ScanRegInv'
    BY ScanStep
  <2>6. QED
    BY <2>1, <2>2, <2>3, <2>4, <2>5
<1>2. QED
  BY <1>1, InitInvariant, PTL DEF Spec

\* No registration outlives its call, except a cancelled call's scan (the
\* cancel-on-drop guard of connect.rs and the adapter lock of mod.rs).
THEOREM RegistryOwned == Spec => []RegistryIsOwned
<1>1. IInv => RegistryIsOwned
  <2> SUFFICES ASSUME IInv, NEW i \in Ifaces
               PROVE  /\ connReg[i] # None => Guarded(connReg[i]) /\ holder[i] = connReg[i]
                      /\ scanReg[i] # None =>
                           \/ /\ scanReg[i] = ScanId(scanReg[i].call)
                              /\ scanReg[i].call \in ScanAlive
                              /\ holder[i] = scanReg[i].call
                           \/ result[scanReg[i].call] = "Cancelled"
    BY DEF RegistryIsOwned
  <2>1. ASSUME connReg[i] # None PROVE Guarded(connReg[i]) /\ holder[i] = connReg[i]
    <3>1. connReg[i] \in Calls /\ Iface(connReg[i]) = i /\ Guarded(connReg[i])
      BY <2>1 DEF IInv, ConnRegInv, TypeOK, DispatcherTypeOK
    <3>2. QED
      BY <3>1, AliveBusy DEF IInv, LockInv
  <2>2. ASSUME scanReg[i] # None, result[scanReg[i].call] # "Cancelled"
        PROVE  /\ scanReg[i] = ScanId(scanReg[i].call)
               /\ scanReg[i].call \in ScanAlive
               /\ holder[i] = scanReg[i].call
    <3>1. PICK c \in Calls : c = scanReg[i].call
      BY <2>2 DEF IInv, TypeOK, DispatcherTypeOK, ScanIds
    <3>2. Iface(c) = i /\ scanReg[i] = ScanId(c) /\ c \in ScanAlive
      BY <2>2, <3>1 DEF IInv, ScanRegInv, ScanOf, AwaitsScan
    <3>3. holder[i] = c
      BY <3>2 DEF IInv, LockInv, Busy, ScanAlive, Awaits
    <3>4. QED
      BY <3>1, <3>2, <3>3
  <2>3. QED
    BY <2>1, <2>2
<1>2. QED
  BY <1>1, InvariantHolds, PTL

\* A call that returns leaves no closure behind; only dropping its future
\* does (spawn_blocking under the adapter lock).
THEOREM DetachedAreCancelled == Spec => []OnlyCancelledCallsDetach
<1>1. IInv => OnlyCancelledCallsDetach
  BY DEF IInv, LockInv, JobInv, Busy, OnlyCancelledCallsDetach
<1>2. QED
  BY <1>1, InvariantHolds, PTL

\* The channel of a connect that waits never closes under it: no other call
\* and no earlier guard removes its sender (notifications.rs, connect.rs).
THEOREM WaiterReachable == Spec => []WaiterIsReachable
<1>1. IInv => WaiterIsReachable
  BY DEF IInv
<1>2. QED
  BY <1>1, InvariantHolds, PTL

-----------------------------------------------------------------------------
(* The backend implements AdapterLocks.                                    *)

\* A step of c moves at most the status of c.
LEMMA StatusFrame ==
    ASSUME NEW c \in Calls, Frame(c)
    PROVE  /\ [d \in Calls |-> Status(d)]' =
                  [[d \in Calls |-> Status(d)] EXCEPT ![c] = Status(c)']
           /\ [d \in Calls |-> Iface(d)]' = [d \in Calls |-> Iface(d)]
<1>1. \A d \in Calls \ {c} : Status(d)' = Status(d)
  BY DEF Frame, Status
<1>2. \A d \in Calls : Iface(d)' = Iface(d)
  BY DEF Frame, Iface
<1>3. QED
  BY <1>1, <1>2

\* Where a call's task can go in one step.
LEMMA StatusMoves ==
    ASSUME TypeOK, JobInv, NEW c \in Calls, Start(c) \/ Cancel(c) \/ Task(c)
    PROVE  \/ Status(c)' = Status(c)
           \/ Status(c)' = "done" /\ Status(c) # "done"
           \/ Status(c) = "idle" /\ Status(c)' = "queued"
           \/ Status(c) = "queued" /\ Status(c)' = "inside" /\ LockFree(c)
<1> USE DEF Status, TypeOK, TaskTypeOK, Places, Awaits
<1>1. CASE Start(c)
  BY <1>1 DEF Start
<1>2. CASE Cancel(c)
  BY <1>2 DEF Cancel, End
<1>3. CASE AcquireLock(c)
  BY <1>3, EnterJob DEF AcquireLock
<1>4. CASE RunDetached(c)
  BY <1>4 DEF RunDetached
<1>5. CASE RunScan(c) \/ ScanWoken(c) \/ ScanTimeout(c) \/ RunCollect(c) \/ RunContext(c)
  BY <1>5 DEF RunScan, ScanWoken, ScanTimeout, RunCollect, RunContext, BeginScan,
              WaitAt, Spawn, Return, End
<1>6. CASE RunInstall(c) \/ RunExists(c) \/ RunConnect(c) \/ ConnectWoken(c)
             \/ ConnectTimeout(c) \/ RunAbort(c)
  BY <1>6 DEF RunInstall, RunExists, RunConnect, ConnectWoken, ConnectTimeout, RunAbort,
              BeginConnect, WaitAt, Spawn, Return, End
<1>7. CASE RunQuery(c) \/ RunDisconnect(c) \/ RunDelete(c)
  BY <1>7 DEF RunQuery, RunDisconnect, RunDelete, Spawn, Return, End
<1>8. QED
  BY <1>1, <1>2, <1>3, <1>4, <1>5, <1>6, <1>7 DEF Task

\* Calls on one interface never overlap: WindowsBackend implements
\* AdapterLocks (the mutex of adapter_lock, held over every await).
THEOREM WindowsSerializes == Spec => CallsAreSerialized
<1> DEFINE on == [c \in Calls |-> Iface(c)]
           st == [c \in Calls |-> Status(c)]
<1>1. Init => Locks!Init
  <2> SUFFICES ASSUME Init PROVE Locks!Init
    OBVIOUS
  <2>1. TypeOK
    BY InitType
  <2>2. on \in [Calls -> Ifaces]
    BY <2>1, IfaceType
  <2>3. st = [c \in Calls |-> "idle"]
    BY DEF Init, Status
  <2>4. QED
    BY <2>2, <2>3 DEF Locks!Init
<1>2. IInv /\ [Next]_vars => [Locks!Next]_(Locks!vars)
  <2> SUFFICES ASSUME IInv, [Next]_vars PROVE [Locks!Next]_(Locks!vars)
    OBVIOUS
  <2>0. TypeOK /\ LockInv /\ JobInv
    BY DEF IInv
  <2>1. ASSUME NEW c \in Calls, Start(c) \/ Cancel(c) \/ Task(c)
        PROVE  Locks!Ask(c) \/ Locks!Enter(c) \/ Locks!Finish(c) \/ UNCHANGED Locks!vars
    <3>1. st' = [st EXCEPT ![c] = Status(c)'] /\ on' = on
      BY <2>0, <2>1, FrameOf, StatusFrame
    <3>2. CASE Status(c)' = Status(c)
      BY <3>1, <3>2 DEF Locks!vars
    <3>3. CASE Status(c)' = "done" /\ Status(c) # "done"
      BY <3>1, <3>3 DEF Locks!Finish
    <3>4. CASE Status(c) = "idle" /\ Status(c)' = "queued"
      BY <3>1, <3>4 DEF Locks!Ask
    <3>5. CASE Status(c) = "queued" /\ Status(c)' = "inside" /\ LockFree(c)
      <4>1. \A d \in Calls : Status(d) = "inside" => Iface(d) # Iface(c)
        BY <2>0, <3>5, NoneAssumption
        DEF LockInv, LockFree, Busy, Status, TypeOK, TaskTypeOK, Places
      <4>2. QED
        BY <3>1, <3>5, <4>1 DEF Locks!Enter
    <3>6. QED
      BY <2>0, <2>1, <3>2, <3>3, <3>4, <3>5, StatusMoves
  <2>2. ASSUME UNCHANGED taskVars PROVE UNCHANGED Locks!vars
    BY <2>2 DEF taskVars, Locks!vars, Status, Iface
  <2>3. QED
    BY <2>1, <2>2
    DEF Next, Locks!Next, DeliverConnection, DeliverScan, Service, vars
<1>3. QED
  BY <1>1, <1>2, InvariantHolds, PTL DEF Spec, CallsAreSerialized, Locks!Spec

-----------------------------------------------------------------------------
(* What a call answers.                                                    *)

\* Which closures a connect hands to the pool.
KindMatches(c) ==
    /\ IsConnect(c) => job[c] \notin {"context", "query", "disconnect", "delete"}
    /\ req[c].kind = "stored" => job[c] \notin {"scan", "collect"} /\ pc[c] # "scan_wait"

\* A receiver holds a message only from the registration on.
RxMatches(c) ==
    connRx[c] # None => pc[c] \in {"conn_wait", "done"} \/ Awaits(c, "connect")

ResultMatches(c) ==
    pc[c] = "done" /\ IsConnect(c) =>
        /\ result[c] = "Ok" =>
               /\ connRx[c] # None
               /\ connRx[c].outcome = "Connected" \/ connRx[c].reason = "SUCCESS"
        /\ result[c] = "Timeout" => connRx[c] = None
        /\ connRx[c] # None /\ result[c] \notin {"Cancelled", "Os"} =>
               result[c] = into_result(connRx[c])

AnswerOK(c) == KindMatches(c) /\ RxMatches(c) /\ ResultMatches(c)

AnswerInv == \A c \in Calls : AnswerOK(c)

\* "Ok" is the answer to Connected and to reason 0 only, and no outcome is
\* answered as a timeout.
LEMMA MappedReasons ==
    ASSUME NEW m
    PROVE  /\ into_result(m) = "Ok" => m.outcome = "Connected" \/ m.reason = "SUCCESS"
           /\ into_result(m) # "Timeout"
BY DEF into_result, map_reason_code

\* A call that goes on, its receiver not yet open.
LEMMA AnswerGoesOn ==
    ASSUME NEW c \in Calls, UNCHANGED req, pc'[c] # "done", KindMatches(c)',
           connRx'[c] = None
    PROVE  AnswerOK(c)'
BY DEF AnswerOK, RxMatches, ResultMatches

\* A call that ends without having opened its receiver, or with an OS error.
LEMMA AnswerEnds ==
    ASSUME NEW c \in Calls, UNCHANGED <<req, connRx>>, KindMatches(c)', pc'[c] = "done",
           \/ result'[c] \in {"Os", "Cancelled"}
           \/ connRx[c] = None /\ (IsConnect(c) => result'[c] # "Ok")
    PROVE  AnswerOK(c)'
BY DEF AnswerOK, RxMatches, ResultMatches, IsConnect

LEMMA AnswerOfCall ==
    ASSUME TypeOK, JobInv, NEW c \in Calls, AnswerOK(c), Start(c) \/ Cancel(c) \/ Task(c)
    PROVE  AnswerOK(c)'
<1> USE DEF TypeOK, TaskTypeOK, KindMatches, IsConnect, Awaits
<1>0. KindMatches(c) /\ RxMatches(c) /\ ResultMatches(c)
  BY DEF AnswerOK
<1>f. UNCHANGED req
  BY FrameOf DEF Frame
<1>1. CASE Start(c)
  <2>1. connRx[c] = None
    BY <1>0, <1>1 DEF Start, RxMatches
  <2>2. UNCHANGED <<connRx, job>>
    BY <1>1 DEF Start, regVars
  <2>3. CASE pc' = [pc EXCEPT ![c] = "locking"]
    <3>1. pc'[c] = "locking"
      BY <2>3
    <3>2. KindMatches(c)'
      BY <1>0, <1>f, <2>2, <3>1
    <3>3. QED
      BY <1>f, <2>1, <2>2, <3>1, <3>2, AnswerGoesOn
  <2>4. CASE /\ pc' = [pc EXCEPT ![c] = "done"]
             /\ result' = [result EXCEPT ![c] = "AdapterNotFound"]
    <3>1. pc'[c] = "done" /\ result'[c] = "AdapterNotFound"
      BY <2>4
    <3>2. KindMatches(c)'
      BY <1>0, <1>f, <2>2, <3>1
    <3>3. QED
      BY <1>f, <2>1, <2>2, <3>1, <3>2, AnswerEnds
  <2>5. QED
    BY <1>1, <2>3, <2>4 DEF Start
<1>2. CASE AcquireLock(c)
  <2>1. connRx[c] = None /\ job[c] = "none"
    BY <1>0, <1>2 DEF AcquireLock, RxMatches, JobInv
  <2>2. UNCHANGED connRx
    BY <1>2 DEF AcquireLock, regVars, pending_scan
  <2>3. CASE pc'[c] = "done"
    BY <1>f, <1>0, <1>2, <2>1, <2>2, <2>3, AnswerEnds DEF AcquireLock
  <2>4. CASE pc'[c] # "done"
    <3>1. KindMatches(c)'
      BY <1>f, <1>2, <2>4 DEF AcquireLock
    <3>2. QED
      BY <1>f, <2>1, <2>2, <2>4, <3>1, AnswerGoesOn
  <2>5. QED
    BY <2>3, <2>4
<1>3. CASE Cancel(c)
  <2>1. KindMatches(c)' /\ pc'[c] = "done" /\ result'[c] = "Cancelled"
    BY <1>0, <1>3, <1>f DEF Cancel, End
  <2>2. UNCHANGED connRx
    BY <1>3 DEF Cancel, DropGuard, drop_pending_connect, regVars
  <2>3. QED
    BY <1>f, <2>1, <2>2, AnswerEnds
<1>4. CASE RunScan(c) \/ ScanWoken(c) \/ ScanTimeout(c) \/ RunCollect(c) \/ RunContext(c)
  <2>1. connRx[c] = None /\ UNCHANGED connRx
    BY <1>0, <1>4
    DEF RunScan, ScanWoken, ScanTimeout, RunCollect, RunContext, RxMatches, BeginScan,
        pending_scan, drop_pending_scan, regVars
  <2>2. KindMatches(c)'
    BY <1>0, <1>4, <1>f
    DEF RunScan, ScanWoken, ScanTimeout, RunCollect, RunContext, BeginScan, Spawn, WaitAt,
        Return, End
  <2>3. CASE pc'[c] = "done"
    <3>1. IsConnect(c) => result'[c] \in {"Os", "SsidNotInRange"}
      BY <1>0, <1>4, <2>3
      DEF RunScan, ScanWoken, ScanTimeout, RunCollect, RunContext, BeginScan, Spawn,
          WaitAt, Return, End
    <3>2. IsConnect(c) => AnswerOK(c)'
      BY <1>f, <2>1, <2>2, <2>3, <3>1, AnswerEnds
    <3>3. ~IsConnect(c) => AnswerOK(c)'
      BY <1>f, <2>1, <2>2, <2>3 DEF AnswerOK, RxMatches, ResultMatches
    <3>4. QED
      BY <3>2, <3>3
  <2>4. QED
    BY <1>f, <2>1, <2>2, <2>3, AnswerGoesOn
<1>5. CASE RunInstall(c) \/ RunExists(c)
  <2>1. connRx[c] = None
    BY <1>0, <1>5 DEF RunInstall, RunExists, RxMatches
  <2>2. KindMatches(c)'
    BY <1>0, <1>5, <1>f DEF RunInstall, RunExists, BeginConnect, Spawn, Return, End
  <2>3. CASE BeginConnect(c)
    BY <1>f, <2>2, <2>3, AnswerGoesOn
    DEF BeginConnect, Spawn, pending_connect, DispatcherTypeOK
  <2>4. CASE ~BeginConnect(c)
    BY <1>5, <1>f, <2>1, <2>2, <2>4, AnswerEnds
    DEF RunInstall, RunExists, Return, End, regVars
  <2>5. QED
    BY <2>3, <2>4
<1>6. CASE RunConnect(c)
  <2>1. KindMatches(c)'
    BY <1>0, <1>6, <1>f DEF RunConnect, WaitAt, Return, End
  <2>2. UNCHANGED connRx
    BY <1>6 DEF RunConnect, DropGuard, drop_pending_connect, regVars
  <2>3. pc'[c] = "conn_wait" \/ (pc'[c] = "done" /\ result'[c] = "Os")
    <3>1. WaitAt(c, "conn_wait") \/ Return(c, "Os")
      BY <1>6, Zenon DEF RunConnect
    <3>2. WaitAt(c, "conn_wait") => pc'[c] = "conn_wait"
      BY DEF WaitAt
    <3>3. Return(c, "Os") => pc'[c] = "done" /\ result'[c] = "Os"
      BY DEF Return, End
    <3>4. QED
      BY <3>1, <3>2, <3>3
  <2>4. CASE pc'[c] = "conn_wait"
    BY <2>1, <2>4 DEF AnswerOK, RxMatches, ResultMatches
  <2>5. QED
    BY <1>f, <2>1, <2>2, <2>3, <2>4, AnswerEnds
<1>7. CASE ConnectWoken(c)
  <2>1. KindMatches(c)'
    BY <1>0, <1>7, <1>f DEF ConnectWoken, Return, End
  <2>2. UNCHANGED connRx /\ pc'[c] = "done"
    BY <1>7 DEF ConnectWoken, Return, End, DropGuard, drop_pending_connect, regVars
  <2>3. \/ connRx[c] # None /\ result'[c] = into_result(connRx[c])
        \/ result'[c] = "Os"
    BY <1>7 DEF ConnectWoken, Return, End
  <2>4. CASE connRx[c] # None /\ result'[c] = into_result(connRx[c])
    BY <2>1, <2>2, <2>4, MappedReasons DEF AnswerOK, RxMatches, ResultMatches
  <2>5. QED
    BY <1>f, <2>1, <2>2, <2>3, <2>4, AnswerEnds
<1>8. CASE ConnectTimeout(c)
  <2>1. KindMatches(c)' /\ pc'[c] # "done" /\ connRx'[c] = None
    BY <1>0, <1>8, <1>f DEF ConnectTimeout, Spawn, regVars
  <2>2. QED
    BY <1>f, <2>1, AnswerGoesOn
<1>9. CASE RunAbort(c)
  <2>1. KindMatches(c)' /\ pc'[c] = "done" /\ result'[c] = "Timeout" /\ connRx[c] = None
    BY <1>0, <1>9, <1>f DEF RunAbort, Return, End, RxMatches
  <2>2. UNCHANGED connRx
    BY <1>9 DEF RunAbort, DropGuard, drop_pending_connect, regVars
  <2>3. QED
    BY <1>f, <2>1, <2>2, AnswerEnds
<1>10. CASE RunQuery(c) \/ RunDisconnect(c) \/ RunDelete(c)
  <2>1. ~IsConnect(c) /\ connRx[c] = None /\ UNCHANGED connRx
    BY <1>0, <1>10 DEF RunQuery, RunDisconnect, RunDelete, RxMatches, regVars
  <2>2. req[c].kind # "stored"
    BY <2>1
  <2>3. QED
    BY <1>f, <2>1, <2>2 DEF AnswerOK, RxMatches, ResultMatches
<1>11. CASE RunDetached(c)
  <2>1. KindMatches(c)'
    BY <1>0, <1>11, <1>f DEF RunDetached
  <2>2. UNCHANGED <<connRx, pc, result>> /\ pc[c] = "done"
    BY <1>11 DEF RunDetached, regVars
  <2>3. QED
    BY <1>0, <1>f, <2>1, <2>2 DEF AnswerOK, RxMatches, ResultMatches
<1>12. QED
  BY <1>1, <1>2, <1>3, <1>4, <1>5, <1>6, <1>7, <1>8, <1>9, <1>10, <1>11 DEF Task

\* An outcome is sent to a call that still holds its receiver.
LEMMA AnswerDelivered ==
    ASSUME TypeOK, AnswerInv, NEW m \in ConnNotes, dispatch_connection(m, ConnAlive),
           UNCHANGED taskVars
    PROVE  AnswerInv'
<1> SUFFICES ASSUME NEW c \in Calls PROVE AnswerOK(c)'
  BY DEF AnswerInv
<1>0. AnswerOK(c)
  BY DEF AnswerInv
<1>1. c \notin ConnAlive => connRx'[c] = connRx[c]
  BY DEF dispatch_connection, TypeOK, DispatcherTypeOK
<1>2. CASE c \in ConnAlive
  <2>1. pc[c] # "done" /\ (pc[c] = "conn_wait" \/ Awaits(c, "connect"))
    BY <1>2 DEF ConnAlive, Awaits
  <2>2. QED
    BY <1>0, <2>1
    DEF AnswerOK, KindMatches, RxMatches, ResultMatches, taskVars, Awaits, IsConnect
<1>3. CASE c \notin ConnAlive
  BY <1>0, <1>1, <1>3
  DEF AnswerOK, KindMatches, RxMatches, ResultMatches, taskVars, Awaits, IsConnect
<1>4. QED
  BY <1>2, <1>3

LEMMA AnswerStep == ASSUME TypeOK, JobInv, AnswerInv, [Next]_vars PROVE AnswerInv'
<1>1. ASSUME NEW c \in Calls, Start(c) \/ Cancel(c) \/ Task(c) PROVE AnswerInv'
  <2> SUFFICES ASSUME NEW d \in Calls PROVE AnswerOK(d)'
    BY DEF AnswerInv
  <2>1. CASE d = c
    BY <1>1, <2>1, AnswerOfCall DEF AnswerInv
  <2>2. CASE d # c
    <3>1. /\ req'[d] = req[d] /\ pc'[d] = pc[d] /\ job'[d] = job[d] /\ result'[d] = result[d]
          /\ connRx'[d] = connRx[d]
      BY <1>1, <2>2, LocalOf, CallRx DEF Local, Frame
    <3>2. AnswerOK(d)
      BY DEF AnswerInv
    <3>3. QED
      BY <3>1, <3>2 DEF AnswerOK, KindMatches, RxMatches, ResultMatches, Awaits, IsConnect
  <2>3. QED
    BY <2>1, <2>2
<1>2. ASSUME NEW m \in connNotes, DeliverConnection(m) PROVE AnswerInv'
  BY <1>2, AnswerDelivered DEF DeliverConnection, TypeOK, ServiceTypeOK
<1>3. ASSUME UNCHANGED taskVars, UNCHANGED connRx PROVE AnswerInv'
  BY <1>3
  DEF AnswerInv, AnswerOK, KindMatches, RxMatches, ResultMatches, taskVars, Awaits, IsConnect
<1>4. QED
  BY <1>1, <1>2, <1>3
  DEF Next, DeliverScan, dispatch_scan, Service, vars, regVars

-----------------------------------------------------------------------------
(* Who hears of an attempt.                                                *)

\* What a step other than a delivery may do to the attempts: end, or replace by
\* one of a call that issues its only WlanConnect, the attempt on interface i;
\* and report it, for the last time when it ends it.
AttemptMoves(i) ==
    /\ \A j \in Ifaces \ {i} : attempt'[j] = attempt[j]
    /\ \/ attempt'[i] \in {attempt[i], None}
       \/ /\ attempt'[i] \in Calls /\ Iface(attempt'[i]) = i
          /\ Fresh(attempt'[i])
          /\ \A c \in Calls : c = attempt'[i] => ~Fresh(c)' /\ Attends(c)'
    /\ connNotes \subseteq connNotes'
    /\ \A m \in connNotes' \ connNotes :
          /\ attempt[i] # None /\ m.call = attempt[i] /\ m.iface = i
          /\ Complete(m) => attempt'[i] # attempt[i]
    /\ \A m, n \in connNotes' \ connNotes : m = n
    /\ \A d \in Calls : connRx'[d] \in {connRx[d], None}

\* Such a step keeps AttemptInv, as long as no call becomes fresh, none that has
\* deserted its attempt comes back to it, and none with an attempt turns away.
LEMMA AttemptKept ==
    ASSUME TypeOK, AttemptInv, NEW i \in Ifaces, AttemptMoves(i), UNCHANGED req,
           \A c \in Calls : Fresh(c)' => Fresh(c),
           \A c \in Calls : Deserted(c) /\ ~Fresh(c) => Deserted(c)',
           \A c \in Calls : Outstanding(c) => Attends(c)',
           UnusedSenders'
    PROVE  AttemptInv'
<1> USE DEF AttemptInv
<1> DEFINE Begins(c) == attempt'[i] = c /\ attempt[i] # c
<1>0. /\ \A j \in Ifaces : attempt[j] # None => attempt[j] \in Calls
      /\ \A d : Iface(d)' = Iface(d)
      /\ \A c \in Calls : Iface(c) \in Ifaces
      /\ connNotes \subseteq ConnNotes
      /\ \A c \in Calls : c # None
  BY IfaceType, NoneAssumption DEF TypeOK, ServiceTypeOK, Iface
<1>1. ASSUME NEW c \in Calls, Begins(c)
      PROVE  Iface(c) = i /\ Fresh(c) /\ ~Fresh(c)' /\ Attends(c)'
  BY <1>0, <1>1 DEF AttemptMoves
<1>2. ASSUME NEW c \in Calls, ~Outstanding(c), ~Begins(c) PROVE ~Outstanding(c)'
  <2>1. attempt[i] # c
    BY <1>0, <1>2 DEF Outstanding, PlaceInv
  <2>2. attempt'[Iface(c)] # c
    BY <1>0, <1>2, <2>1 DEF Outstanding, AttemptMoves
  <2>3. \A m \in connNotes' : m.call # c
    BY <1>2, <2>1 DEF Outstanding, AttemptMoves
  <2>4. QED
    BY <1>0, <2>2, <2>3 DEF Outstanding
<1>3. FreshInv'
  <2> SUFFICES ASSUME NEW c \in Calls, Fresh(c)'
               PROVE  ~Outstanding(c)' /\ \A d \in Calls : connRx'[d] # None => connRx'[d].from # c
    BY DEF FreshInv
  <2>1. ~Outstanding(c) /\ \A d \in Calls : connRx[d] # None => connRx[d].from # c
    BY DEF FreshInv
  <2>2. ~Begins(c)
    BY <1>1
  <2>3. \A d \in Calls : connRx'[d] # None => connRx'[d].from # c
    BY <2>1 DEF AttemptMoves
  <2>4. QED
    BY <1>2, <2>1, <2>2, <2>3
<1>4. PlaceInv'
  <2>1. ASSUME NEW j \in Ifaces, attempt'[j] # None PROVE Iface(attempt'[j]) = j
    BY <2>1 DEF AttemptMoves, PlaceInv
  <2>2. ASSUME NEW m \in connNotes' PROVE m.iface = Iface(m.call)
    BY <2>2 DEF AttemptMoves, PlaceInv
  <2>3. \A x : Iface(x)' = req'[x].iface /\ Iface(x) = req[x].iface
    BY DEF Iface
  <2>4. QED
    BY <2>1, <2>2, <2>3 DEF PlaceInv
<1>5. ASSUME NEW m \in connNotes', Complete(m) PROVE attempt'[Iface(m.call)] # m.call
  <2>1. CASE m \in connNotes
    <3>1. attempt[Iface(m.call)] # m.call /\ m.call \in Calls /\ Outstanding(m.call)
      BY <1>0, <1>5, <2>1 DEF LastWord, ConnNotes, Outstanding
    <3>2. ~Begins(m.call)
      BY <1>1, <3>1 DEF FreshInv
    <3>3. QED
      BY <1>0, <3>1, <3>2 DEF AttemptMoves
  <2>2. CASE m \notin connNotes
    BY <1>5, <2>2 DEF AttemptMoves, PlaceInv
  <2>3. QED
    BY <2>1, <2>2
<1>6. ASSUME NEW m \in connNotes', NEW n \in connNotes', Complete(m), Complete(n),
             m.call = n.call
      PROVE  m = n
  <2>1. ASSUME NEW a \in connNotes, NEW b \in connNotes' \ connNotes, Complete(a)
        PROVE  a.call # b.call
    BY <2>1 DEF AttemptMoves, PlaceInv, LastWord
  <2>2. QED
    BY <1>6, <2>1 DEF AttemptMoves, LastWord
<1>7. ASSUME NEW c \in Calls, Outstanding(c)', connRx'[c] # None, connRx'[c].from = c
      PROVE  connRx'[c].outcome = "Failed"
  <2>1. connRx'[c] = connRx[c]
    BY <1>7 DEF AttemptMoves
  <2>2. ~Begins(c)
    BY <1>1, <1>7, <2>1 DEF FreshInv
  <2>3. QED
    BY <1>2, <1>7, <2>1, <2>2 DEF LastWord
<1>8. LastWord'
  <2>1. \A m \in connNotes' : Complete(m) => attempt'[Iface(m.call)'] # m.call
    BY <1>0, <1>5
  <2>2. \A m, n \in connNotes' : Complete(m) /\ Complete(n) /\ m.call = n.call => m = n
    BY <1>6
  <2>3. QED
    BY <1>7, <2>1, <2>2 DEF LastWord, Complete, Iface
<1>9. ASSUME NEW c \in Calls, Outstanding(c)' PROVE Attends(c)'
  BY <1>1, <1>2, <1>9
<1>10. OutcomeIsOwn'
  <2> SUFFICES ASSUME NEW c \in Calls, connRx'[c] # None, connRx'[c].from # c
               PROVE  Deserted(connRx[c].from)'
    BY DEF OutcomeIsOwn
  <2>1. connRx'[c] = connRx[c]
    BY DEF AttemptMoves
  <2>2. PICK d \in Calls : d = connRx[c].from
    BY <2>1 DEF TypeOK, DispatcherTypeOK, ConnMsgs
  <2>3. Deserted(d) /\ ~Fresh(d)
    BY <2>1, <2>2 DEF OutcomeIsOwn, FreshInv
  <2>4. Deserted(d)'
    BY <2>3
  <2>5. connRx'[c].from = d
    BY <2>1, <2>2
  <2>6. QED
    BY <2>4, <2>5 DEF Deserted, Awaits
<1>11. QED
  BY <1>3, <1>4, <1>8, <1>9, <1>10 DEF Attended

\* Nothing happens to the attempts.
LEMMA MovesNone ==
    ASSUME TypeOK, NEW i \in Ifaces, UNCHANGED <<attempt, connNotes>>,
           \A d \in Calls : connRx'[d] \in {connRx[d], None}
    PROVE  AttemptMoves(i)
BY DEF AttemptMoves

\* Cutting an attempt short completes it.
LEMMA AbortReports ==
    ASSUME PlaceInv, NEW i \in Ifaces, Abort(i), attempt'[i] # attempt[i] \/ attempt[i] = None
    PROVE  /\ connNotes \subseteq connNotes'
           /\ \A m \in connNotes' \ connNotes :
                 /\ attempt[i] # None /\ m.call = attempt[i] /\ m.iface = i
                 /\ Complete(m) => attempt'[i] # attempt[i]
           /\ \A m, n \in connNotes' \ connNotes : m = n
<1>1. CASE attempt[i] = None
  BY <1>1 DEF Abort
<1>2. CASE attempt[i] # None
  BY <1>2 DEF Abort, Report
<1>3. QED
  BY <1>1, <1>2

\* The attempt on i, if any, is cut short.
LEMMA MovesEnd ==
    ASSUME TypeOK, PlaceInv, NEW i \in Ifaces, WlanDisconnect(i),
           \A d \in Calls : connRx'[d] \in {connRx[d], None}
    PROVE  AttemptMoves(i)
<1>1. attempt'[i] = None /\ \A j \in Ifaces \ {i} : attempt'[j] = attempt[j]
  BY DEF WlanDisconnect, TypeOK, ServiceTypeOK
<1>2. Abort(i)
  BY DEF WlanDisconnect
<1>3. QED
  BY <1>1, <1>2, AbortReports DEF AttemptMoves

\* A call that was fresh begins its attempt.
LEMMA MovesBegin ==
    ASSUME TypeOK, FreshInv, PlaceInv, NEW c \in Calls, WlanConnect(Iface(c), c), Fresh(c),
           ~Fresh(c)', Attends(c)',
           \A d \in Calls : connRx'[d] \in {connRx[d], None}
    PROVE  AttemptMoves(Iface(c))
<1> DEFINE i == Iface(c)
<1>1. i \in Ifaces /\ attempt[i] # c
  BY IfaceType DEF FreshInv, Outstanding
<1>2. attempt'[i] = c /\ \A j \in Ifaces \ {i} : attempt'[j] = attempt[j]
  BY <1>1 DEF WlanConnect, TypeOK, ServiceTypeOK
<1>3. Abort(i)
  BY DEF WlanConnect
<1>4. QED
  BY <1>1, <1>2, <1>3, AbortReports DEF AttemptMoves

\* A step of c keeps the other calls as they were.
LEMMA OthersAttend ==
    ASSUME TypeOK, NEW c \in Calls, Start(c) \/ Cancel(c) \/ Task(c), NEW d \in Calls \ {c}
    PROVE  /\ Fresh(d)' <=> Fresh(d)
           /\ Deserted(d)' <=> Deserted(d)
           /\ Attends(d)' <=> Attends(d)
<1>1. /\ pc'[d] = pc[d] /\ job'[d] = job[d] /\ result'[d] = result[d]
      /\ connRx'[d] = connRx[d]
  BY LocalOf, CallRx DEF Local, Frame
<1>2. QED
  BY <1>1 DEF Fresh, Deserted, Attends, Awaits

\* No call becomes fresh again.
LEMMA NoneFreshens ==
    ASSUME TypeOK, JobInv, NEW c \in Calls, Start(c) \/ Cancel(c) \/ Task(c), Fresh(c)'
    PROVE  Fresh(c)
<1> USE DEF TypeOK, TaskTypeOK, Fresh, Awaits
<1>1. CASE Start(c) \/ Cancel(c) \/ AcquireLock(c)
  BY <1>1 DEF Start, Cancel, End, AcquireLock, JobInv
<1>2. CASE RunScan(c) \/ ScanWoken(c) \/ ScanTimeout(c) \/ RunCollect(c)
  BY <1>2 DEF RunScan, ScanWoken, ScanTimeout, RunCollect
<1>3. CASE RunInstall(c) \/ RunExists(c) \/ RunConnect(c)
  BY <1>3 DEF RunInstall, RunExists, RunConnect
<1>4. CASE RunContext(c) \/ ConnectWoken(c) \/ ConnectTimeout(c) \/ RunAbort(c)
           \/ RunQuery(c) \/ RunDisconnect(c) \/ RunDelete(c)
  BY <1>4
  DEF RunContext, ConnectWoken, ConnectTimeout, RunAbort, RunQuery, RunDisconnect,
      RunDelete, Spawn, Return, End
<1>5. CASE RunDetached(c)
  BY <1>5 DEF RunDetached
<1>6. QED
  BY <1>1, <1>2, <1>3, <1>4, <1>5 DEF Task

\* A receiver keeps its message once its call has issued WlanConnect.
LEMMA MessageStays ==
    ASSUME TypeOK, JobInv, NEW c \in Calls, Start(c) \/ Cancel(c) \/ Task(c), ~Fresh(c)
    PROVE  connRx'[c] = connRx[c]
<1> USE DEF Fresh, Awaits
<1>1. ~RunInstall(c) /\ ~RunExists(c)
  BY DEF RunInstall, RunExists
<1>2. UNCHANGED connRx
  BY <1>1
  DEF Start, Cancel, Task, AcquireLock, RunScan, ScanWoken, ScanTimeout, RunCollect,
      RunContext, RunConnect, ConnectWoken, ConnectTimeout, RunAbort, RunQuery,
      RunDisconnect, RunDelete, RunDetached, BeginScan, pending_scan, drop_pending_scan,
      drop_pending_connect, DropGuard, regVars
<1>3. QED
  BY <1>2

\* A call that deserted its attempt stays so, and one that waits for an attempt
\* hears of it or deserts it: its channel does not close.
LEMMA NoneTurnsAway ==
    ASSUME TypeOK, JobInv, WaiterIsReachable, LastWord, NEW c \in Calls,
           Start(c) \/ Cancel(c) \/ Task(c), ~Fresh(c)
    PROVE  /\ Deserted(c) => Deserted(c)'
           /\ Outstanding(c) /\ Attends(c) => Attends(c)'
<1> USE DEF TypeOK, TaskTypeOK, Awaits
<1>0. /\ pc[c] \notin {"idle", "locking", "scan_wait"}
      /\ job[c] \notin {"scan", "collect", "install", "exists", "connect"}
      /\ connRx'[c] = connRx[c]
  BY MessageStays DEF Fresh
<1>1. connRx[c] # None /\ (connRx[c].from = c => connRx[c].outcome = "Failed") => Deserted(c)'
  BY <1>0 DEF Deserted
<1>2. CASE Cancel(c)
  BY <1>2 DEF Cancel, End, Deserted, Attends
<1>3. CASE ConnectWoken(c)
  <2>1. connRx[c] # None /\ pc[c] = "conn_wait" /\ result[c] = "none"
    BY <1>3 DEF ConnectWoken, WaiterIsReachable, ConnAlive, JobInv
  <2>2. Outstanding(c) => (connRx[c].from = c => connRx[c].outcome = "Failed")
    BY <2>1 DEF LastWord
  <2>3. QED
    BY <1>1, <2>1, <2>2 DEF Deserted, Attends
<1>4. CASE ConnectTimeout(c)
  BY <1>4 DEF ConnectTimeout, Spawn, Deserted, Attends
<1>5. CASE RunAbort(c)
  BY <1>5 DEF RunAbort, Return, End, Deserted, Attends
<1>6. CASE RunContext(c) \/ RunQuery(c) \/ RunDisconnect(c) \/ RunDelete(c)
  <2>1. result[c] = "none" /\ pc[c] = "job" /\ job[c] # "abort"
    BY <1>6 DEF RunContext, RunQuery, RunDisconnect, RunDelete, JobInv
  <2>2. QED
    BY <1>1, <2>1 DEF Deserted, Attends
<1>7. CASE RunDetached(c)
  <2>1. UNCHANGED <<pc, result>> /\ pc[c] = "done" /\ result[c] = "Cancelled"
    BY <1>7 DEF RunDetached, JobInv
  <2>2. QED
    BY <2>1 DEF Deserted, Attends
<1>8. QED
  BY <1>0, <1>2, <1>3, <1>4, <1>5, <1>6, <1>7
  DEF Task, Start, AcquireLock, RunScan, ScanWoken, ScanTimeout, RunCollect, RunInstall,
      RunExists, RunConnect

\* A call registers its own sender only, and that one is new.
LEMMA SendersKept ==
    ASSUME TypeOK, UnusedSenders, NEW c \in Calls, Start(c) \/ Cancel(c) \/ Task(c)
    PROVE  UnusedSenders'
<1>1. \/ UNCHANGED connReg
      \/ drop_pending_connect(Iface(c))
      \/ pending_connect(c, Iface(c))
  BY
  DEF Start, Cancel, Task, AcquireLock, RunScan, ScanWoken, ScanTimeout, RunCollect,
      RunContext, RunInstall, RunExists, RunConnect, ConnectWoken, ConnectTimeout,
      RunAbort, RunQuery, RunDisconnect, RunDelete, RunDetached, BeginScan, BeginConnect,
      pending_scan, drop_pending_scan, DropGuard, regVars
<1>2. Iface(c) \in Ifaces /\ \A d \in Calls : connRx'[d] \in {connRx[d], None}
  BY IfaceType, CallRx
<1>3. ASSUME NEW j \in Ifaces, connReg'[j] # None
      PROVE  \E d \in Calls : d = connReg'[j] /\ connRx'[d] = None
  <2>1. CASE connReg'[j] = connReg[j]
    BY <1>2, <1>3, <2>1 DEF UnusedSenders, TypeOK, DispatcherTypeOK
  <2>2. CASE connReg'[j] # connReg[j]
    <3>1. pending_connect(c, Iface(c)) /\ connReg'[j] = c
      BY <1>1, <1>2, <1>3, <2>2 DEF drop_pending_connect, pending_connect, TypeOK, DispatcherTypeOK
    <3>2. QED
      BY <3>1 DEF pending_connect, TypeOK, DispatcherTypeOK
  <2>3. QED
    BY <2>1, <2>2
<1>4. QED
  BY <1>3 DEF UnusedSenders

\* What a call does to the attempts.
LEMMA CallMoves ==
    ASSUME TypeOK, JobInv, FreshInv, PlaceInv, NEW c \in Calls,
           Start(c) \/ Cancel(c) \/ Task(c)
    PROVE  AttemptMoves(Iface(c))
<1>0. Iface(c) \in Ifaces /\ \A d \in Calls : connRx'[d] \in {connRx[d], None}
  BY IfaceType, CallRx
<1>1. UNCHANGED <<attempt, connNotes>> => AttemptMoves(Iface(c))
  BY <1>0, MovesNone
<1>2. WlanDisconnect(Iface(c)) => AttemptMoves(Iface(c))
  BY <1>0, MovesEnd
<1>3. ASSUME NEW s, NEW id,
             \/ WlanSetProfile(Iface(c), s) \/ WlanDeleteProfile(Iface(c), s)
             \/ WlanScan(Iface(c), id)
      PROVE  AttemptMoves(Iface(c))
  BY <1>1, <1>3 DEF WlanSetProfile, WlanDeleteProfile, WlanScan
<1>4. CASE Start(c) \/ Cancel(c) \/ AcquireLock(c) \/ ScanWoken(c) \/ ScanTimeout(c)
           \/ RunCollect(c) \/ RunContext(c) \/ RunExists(c) \/ ConnectWoken(c)
           \/ ConnectTimeout(c) \/ RunQuery(c)
  BY <1>1, <1>4
  DEF Start, Cancel, AcquireLock, ScanWoken, ScanTimeout, RunCollect, RunContext,
      RunExists, ConnectWoken, ConnectTimeout, RunQuery, svcVars
<1>5. CASE RunScan(c) \/ RunInstall(c) \/ RunDelete(c)
  BY <1>1, <1>3, <1>5 DEF RunScan, RunInstall, RunDelete, svcVars
<1>6. CASE RunAbort(c) \/ RunDisconnect(c)
  BY <1>1, <1>2, <1>6 DEF RunAbort, RunDisconnect, svcVars
<1>7. CASE RunConnect(c)
  <2>1. CASE UNCHANGED svcVars
    BY <1>1, <2>1 DEF svcVars
  <2>2. CASE WlanConnect(Iface(c), c) /\ WaitAt(c, "conn_wait")
    <3>1. Fresh(c)
      BY <1>7 DEF RunConnect, Fresh, Awaits
    <3>2. pc'[c] = "conn_wait" /\ job'[c] = "none"
      BY <2>2 DEF WaitAt, TypeOK, TaskTypeOK
    <3>3. ~Fresh(c)' /\ Attends(c)'
      BY <3>2 DEF Fresh, Attends
    <3>4. QED
      BY <1>0, <2>2, <3>1, <3>3, MovesBegin
  <2>3. QED
    BY <1>7, <2>1, <2>2, Zenon DEF RunConnect
<1>8. CASE RunDetached(c)
  <2>1. UNCHANGED <<pc, result>> /\ pc[c] = "done" /\ job[c] # "none"
    BY <1>8 DEF RunDetached
  <2>2. CASE job[c] = "connect" /\ WlanConnect(Iface(c), c)
    <3>1. Fresh(c)
      BY <2>2 DEF Fresh
    <3>2. job'[c] = "none"
      BY <1>8, <2>2 DEF RunDetached, TypeOK, TaskTypeOK
    <3>3. ~Fresh(c)' /\ Attends(c)'
      BY <2>1, <3>2 DEF Fresh, Attends, Deserted, JobInv
    <3>4. QED
      BY <1>0, <2>2, <3>1, <3>3, MovesBegin
  <2>3. CASE ~(job[c] = "connect" /\ WlanConnect(Iface(c), c))
    BY <1>1, <1>2, <1>3, <1>8, <2>3 DEF RunDetached, svcVars
  <2>4. QED
    BY <2>2, <2>3
<1>9. QED
  BY <1>4, <1>5, <1>6, <1>7, <1>8 DEF Task

\* What the service does to the attempts.
LEMMA ServiceMoves ==
    ASSUME TypeOK, PlaceInv, NEW i \in Ifaces, Service(i)
    PROVE  AttemptMoves(i)
<1>0. \A d \in Calls : connRx'[d] \in {connRx[d], None}
  BY DEF Service, regVars
<1>1. CASE LinkLost(i)
  BY <1>0, <1>1, MovesNone DEF LinkLost
<1>2. CASE AttemptFails(i)
  BY <1>0, <1>2 DEF AttemptFails, Report, AttemptMoves, Complete
<1>3. CASE AttemptEnds(i, Profile(attempt[i]))
  <2>1. attempt[i] # None
    BY <1>3 DEF AttemptEnds
  <2>2. attempt'[i] = None /\ \A j \in Ifaces \ {i} : attempt'[j] = attempt[j]
    BY <1>3 DEF AttemptEnds, TypeOK, ServiceTypeOK
  <2>3. \E r : Report(i, "COMPLETE", r)
    BY <1>3 DEF AttemptEnds
  <2>4. /\ connNotes \subseteq connNotes'
        /\ \A m \in connNotes' \ connNotes : m.call = attempt[i] /\ m.iface = i
        /\ \A m, n \in connNotes' \ connNotes : m = n
    BY <2>3 DEF Report
  <2>5. QED
    BY <1>0, <2>1, <2>2, <2>4 DEF AttemptMoves
<1>4. QED
  BY <1>1, <1>2, <1>3 DEF Service

\* A delivered notification hands on what was reported: to the call of the
\* attempt, or to another one if that call had deserted it.
LEMMA Delivered ==
    ASSUME IInv, AttemptInv, NEW m \in connNotes, DeliverConnection(m)
    PROVE  AttemptInv'
<1> USE DEF AttemptInv
<1> DEFINE w == connReg[m.iface]
           Filled(c) == c = w /\ w \in ConnAlive
<1>0. /\ TypeOK /\ WaiterIsReachable /\ ConnRegInv
      /\ m \in ConnNotes /\ OutcomeOf(m) \in ConnMsgs /\ OutcomeOf(m) # None
      /\ UNCHANGED <<attempt, taskVars>> /\ connNotes' = connNotes \ {m}
  <2>1. TypeOK /\ WaiterIsReachable /\ ConnRegInv /\ m \in ConnNotes
    BY DEF IInv, TypeOK, ServiceTypeOK
  <2>2. OutcomeOf(m) \in ConnMsgs
    BY <2>1 DEF OutcomeOf, ConnNotes, ConnMsgs
  <2>3. QED
    BY <2>1, <2>2, NoneIsNoMessage DEF DeliverConnection
<1>1. /\ m.call \in Calls /\ m.iface \in Ifaces /\ m.iface = Iface(m.call)
      /\ Outstanding(m.call)
  BY <1>0 DEF ConnNotes, PlaceInv, Outstanding
<1>2. /\ \A x : Iface(x)' = Iface(x) /\ (Fresh(x)' <=> Fresh(x))
      /\ \A c \in Calls : Outstanding(c)' => Outstanding(c)
  BY <1>0 DEF taskVars, Iface, Fresh, Outstanding
<1>3. \A i \in Ifaces : connReg'[i] = IF i = m.iface THEN None ELSE connReg[i]
  BY <1>0, <1>1 DEF DeliverConnection, dispatch_connection, TypeOK, DispatcherTypeOK
<1>4. \A c \in Calls : connRx'[c] = IF Filled(c) THEN OutcomeOf(m) ELSE connRx[c]
  BY <1>0, <1>1, NoneAssumption
  DEF DeliverConnection, dispatch_connection, TypeOK, DispatcherTypeOK
<1>5. ASSUME NEW c \in Calls, Filled(c) PROVE connRx[c] = None /\ Iface(c) = m.iface
  BY <1>0, <1>1, <1>5, NoneAssumption DEF UnusedSenders, ConnRegInv
<1>6. ASSUME NEW c \in Calls
      PROVE  (Deserted(c) => Deserted(c)') /\ (Attends(c) => Attends(c)')
  <2>1. Deserted(c) => Deserted(c)'
    BY <1>0, <1>4, <1>5 DEF Deserted, Awaits, taskVars
  <2>2. QED
    BY <1>0, <2>1 DEF Attends, taskVars
<1>7. FreshInv'
  BY <1>1, <1>2, <1>4 DEF FreshInv, OutcomeOf
<1>8. PlaceInv'
  BY <1>0, <1>2 DEF PlaceInv
\* The last word leaves nothing outstanding.
<1>9. ASSUME NEW c \in Calls, Outstanding(c)', c = m.call PROVE OutcomeOf(m).outcome = "Failed"
  <2> SUFFICES ASSUME Complete(m) PROVE FALSE
    BY DEF OutcomeOf, Complete
  <2>1. attempt[Iface(c)] # c
    BY <1>9 DEF LastWord
  <2>2. PICK n \in connNotes : n # m /\ n.call = c
    BY <1>0, <1>2, <1>9, <2>1 DEF Outstanding
  <2>3. ~Complete(n) /\ n.code \in ConnCodes
    BY <1>9, <2>2 DEF LastWord, IInv, TypeOK, ServiceTypeOK, ConnNotes
  <2>4. QED
    BY <1>9, <2>2, <2>3 DEF DeliverConnection, Complete, ConnCodes
<1>10. LastWord'
  <2>1. \A n \in connNotes' : Complete(n) => attempt'[Iface(n.call)'] # n.call
    BY <1>0, <1>2 DEF LastWord
  <2>2. \A n, k \in connNotes' : Complete(n) /\ Complete(k) /\ n.call = k.call => n = k
    BY <1>0 DEF LastWord
  <2>3. ASSUME NEW c \in Calls, Outstanding(c)', connRx'[c] # None, connRx'[c].from = c
        PROVE  connRx'[c].outcome = "Failed"
    <3>1. CASE Filled(c)
      <4>1. connRx'[c] = OutcomeOf(m) /\ m.call = c
        BY <1>4, <2>3, <3>1 DEF OutcomeOf
      <4>2. QED
        BY <1>9, <2>3, <4>1
    <3>2. CASE ~Filled(c)
      BY <1>2, <1>4, <2>3, <3>2 DEF LastWord
    <3>3. QED
      BY <3>1, <3>2
  <2>4. QED
    BY <2>1, <2>2, <2>3 DEF LastWord, Complete
<1>11. UnusedSenders'
  <2>1. ASSUME NEW i \in Ifaces, connReg'[i] # None
        PROVE  \E d \in Calls : d = connReg'[i] /\ connRx'[d] = None
    <3>1. i # m.iface /\ connReg'[i] = connReg[i]
      BY <1>3, <2>1
    <3>2. PICK d \in Calls : d = connReg[i]
      BY <1>0, <2>1, <3>1 DEF TypeOK, DispatcherTypeOK
    <3>3. connRx[d] = None /\ Iface(d) = i
      BY <1>0, <2>1, <3>1, <3>2 DEF UnusedSenders, ConnRegInv
    <3>4. ~Filled(d)
      BY <1>5, <3>1, <3>3
    <3>5. QED
      BY <1>4, <3>1, <3>2, <3>3, <3>4
  <2>2. QED
    BY <2>1 DEF UnusedSenders
<1>12. Attended'
  BY <1>2, <1>6 DEF Attended
<1>13. OutcomeIsOwn'
  <2> SUFFICES ASSUME NEW c \in Calls, connRx'[c] # None, NEW d \in Calls,
                      d = connRx'[c].from, d # c
               PROVE  Deserted(d)'
    <3>1. \A c \in Calls : connRx'[c] # None => connRx'[c].from \in Calls
      BY <1>0, <1>4 DEF ConnMsgs, TypeOK, DispatcherTypeOK
    <3>2. QED
      BY <3>1 DEF OutcomeIsOwn, Deserted, Awaits
  <2>1. CASE ~Filled(c)
    BY <1>4, <1>6, <2>1 DEF OutcomeIsOwn
  <2>2. CASE Filled(c)
    <3>1. d = m.call
      BY <1>4, <2>2 DEF OutcomeOf
    <3>2. CASE Deserted(d)
      BY <1>6, <3>2
    <3>3. CASE pc[d] = "conn_wait"
      <4>1. connRx[d] # None
        <5>1. connReg[Iface(d)] # d
          BY <1>1, <2>2, <3>1
        <5>2. QED
          BY <1>0, <3>3, <5>1 DEF WaiterIsReachable, ConnAlive
      <4>2. connRx[d].from = d => connRx[d].outcome = "Failed"
        BY <1>1, <3>1, <4>1 DEF LastWord
      <4>3. Deserted(d)
        BY <4>1, <4>2 DEF Deserted
      <4>4. QED
        BY <1>6, <4>3
    <3>4. QED
      BY <1>1, <3>1, <3>2, <3>3 DEF Attended, Attends
  <2>3. QED
    BY <2>1, <2>2
<1>14. QED
  BY <1>7, <1>8, <1>10, <1>11, <1>12, <1>13

LEMMA AttemptStep == ASSUME IInv, AttemptInv, [Next]_vars PROVE AttemptInv'
<1>0. /\ TypeOK /\ JobInv /\ WaiterIsReachable
      /\ FreshInv /\ PlaceInv /\ LastWord /\ UnusedSenders
  BY DEF IInv, AttemptInv
<1>1. ASSUME NEW c \in Calls, Start(c) \/ Cancel(c) \/ Task(c) PROVE AttemptInv'
  <2>1. UNCHANGED req /\ Iface(c) \in Ifaces
    BY <1>0, <1>1, FrameOf, IfaceType DEF Frame
  <2>2. AttemptMoves(Iface(c))
    BY <1>0, <1>1, CallMoves
  <2>3. \A d \in Calls : Fresh(d)' => Fresh(d)
    BY <1>0, <1>1, OthersAttend, NoneFreshens
  <2>4. \A d \in Calls : Deserted(d) /\ ~Fresh(d) => Deserted(d)'
    BY <1>0, <1>1, OthersAttend, NoneTurnsAway
  <2>5. \A d \in Calls : Outstanding(d) => ~Fresh(d) /\ Attends(d)
    BY <1>0 DEF FreshInv, AttemptInv, Attended
  <2>6. \A d \in Calls : Outstanding(d) => Attends(d)'
    BY <1>0, <1>1, <2>5, OthersAttend, NoneTurnsAway
  <2>7. UnusedSenders'
    BY <1>0, <1>1, SendersKept
  <2>8. QED
    BY <1>0, <2>1, <2>2, <2>3, <2>4, <2>6, <2>7, AttemptKept
<1>2. ASSUME NEW i \in Ifaces, Service(i) PROVE AttemptInv'
  <2>1. AttemptMoves(i) /\ UNCHANGED <<taskVars, regVars>>
    BY <1>0, <1>2, ServiceMoves DEF Service
  <2>2. /\ UNCHANGED req /\ UnusedSenders'
        /\ \A d \in Calls : Fresh(d)' => Fresh(d)
        /\ \A d \in Calls : Deserted(d) => Deserted(d)'
        /\ \A d \in Calls : Attends(d) => Attends(d)'
    BY <1>0, <2>1 DEF taskVars, regVars, Fresh, Deserted, Attends, Awaits, UnusedSenders
  <2>3. \A d \in Calls : Outstanding(d) => Attends(d)'
    BY <2>2 DEF AttemptInv, Attended
  <2>4. QED
    BY <1>0, <1>2, <2>1, <2>2, <2>3, AttemptKept
<1>3. ASSUME NEW m \in connNotes, DeliverConnection(m) PROVE AttemptInv'
  BY <1>3, Delivered
<1>4. ASSUME UNCHANGED <<taskVars, attempt, connNotes, connReg, connRx>> PROVE AttemptInv'
  BY <1>4
  DEF AttemptInv, FreshInv, PlaceInv, LastWord, UnusedSenders, Attended, OutcomeIsOwn,
      Outstanding, Complete, Fresh, Deserted, Attends, Awaits, Iface, taskVars
<1>5. QED
  BY <1>1, <1>2, <1>3, <1>4
  DEF Next, DeliverScan, dispatch_scan, vars, svcVars, regVars

\* The answers and the attempts are in order, whatever the calls, the service
\* and the notification thread do.
THEOREM AnswersHold == Spec => [](AnswerInv /\ AttemptInv)
<1>1. Init => AnswerInv /\ AttemptInv
  <2> SUFFICES ASSUME Init PROVE AnswerInv /\ AttemptInv
    OBVIOUS
  <2>1. \A c \in Calls : AnswerOK(c)
    BY DEF Init, DispatcherInit, AnswerOK, KindMatches, RxMatches, ResultMatches
  <2>2. TypeOK
    BY InitType
  <2>3. \A c \in Calls : ~Outstanding(c)
    BY <2>2, NoneAssumption, IfaceType DEF Init, ServiceInit, Outstanding
  <2>4. AttemptInv
    BY <2>3
    DEF Init, ServiceInit, DispatcherInit, AttemptInv, FreshInv, PlaceInv, LastWord,
        UnusedSenders, Attended, OutcomeIsOwn
  <2>5. QED
    BY <2>1, <2>4 DEF AnswerInv
<1>2. IInv /\ AnswerInv /\ AttemptInv /\ [Next]_vars => AnswerInv' /\ AttemptInv'
  BY AnswerStep, AttemptStep DEF IInv
<1>3. QED
  BY <1>1, <1>2, InvariantHolds, PTL DEF Spec

\* What a connect returns is what its receiver held, and a timeout is only
\* reported when no outcome had been delivered (run_connect, into_result).
THEOREM ResultMatched == Spec => []ResultMatchesOutcome
<1>1. AnswerInv => ResultMatchesOutcome
  BY DEF AnswerInv, AnswerOK, ResultMatches, ResultMatchesOutcome
<1>2. QED
  BY <1>1, AnswersHold, PTL

\* A connect that is answered by the notification of another call's attempt got
\* it because that call had stopped listening before the service was done
\* (notifications.rs dispatch).
THEOREM OutcomeOwned == Spec => []OutcomeIsOwn
<1>1. AttemptInv => OutcomeIsOwn
  BY DEF AttemptInv
<1>2. QED
  BY <1>1, AnswersHold, PTL

\* What the service does or has to tell for an attempt has a waiter, unless its
\* call had stopped listening (connect.rs).
THEOREM AttemptHeard == Spec => []AttemptHasWaiter
<1>1. IInv /\ AttemptInv => AttemptHasWaiter
  <2> SUFFICES ASSUME IInv, AttemptInv PROVE AttemptHasWaiter
    OBVIOUS
  <2>1. ASSUME NEW c \in Calls, Outstanding(c) PROVE pc[c] = "conn_wait" \/ Deserted(c)
    BY <2>1 DEF AttemptInv, Attended, Attends
  <2>2. ASSUME NEW i \in Ifaces, attempt[i] # None
        PROVE  pc[attempt[i]] = "conn_wait" \/ Deserted(attempt[i])
    <3>1. attempt[i] \in Calls /\ Outstanding(attempt[i])
      BY <2>2 DEF IInv, TypeOK, ServiceTypeOK, AttemptInv, PlaceInv, Outstanding
    <3>2. QED
      BY <2>1, <3>1
  <2>3. ASSUME NEW m \in connNotes PROVE pc[m.call] = "conn_wait" \/ Deserted(m.call)
    <3>1. m.call \in Calls /\ Outstanding(m.call)
      BY DEF IInv, TypeOK, ServiceTypeOK, ConnNotes, Outstanding
    <3>2. QED
      BY <2>1, <3>1
  <2>4. QED
    BY <2>2, <2>3 DEF AttemptHasWaiter
<1>2. QED
  BY <1>1, InvariantHolds, AnswersHold, PTL
=============================================================================
