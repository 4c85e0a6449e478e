----------------------- MODULE WindowsBackend_proofs -------------------------
(***************************************************************************)
(* Proofs about WindowsBackend, for any sets of calls, interfaces, SSIDs   *)
(* and reason codes.                                                       *)
(***************************************************************************)
EXTENDS WindowsBackend, TLAPS

-----------------------------------------------------------------------------
(* Types of the building blocks: each preserves the part of TypeOK that it *)
(* changes.                                                                *)

\* map_reason_code yields a result for every reason code.
LEMMA ReasonMapped == ASSUME NEW r PROVE map_reason_code(r) \in Results
BY DEF map_reason_code, Results, Errors

LEMMA OutcomeMapped == ASSUME NEW m PROVE into_result(m) \in Results
BY ReasonMapped DEF into_result, Results

\* The interface of a call is an interface.
LEMMA IfaceType ==
    ASSUME TypeOK, NEW c \in Calls
    PROVE  /\ Iface(c) \in Ifaces
           /\ req[c].ssid \in Ssids
           /\ Profile(c) \in Names
BY ProfileNameAssumption DEF TypeOK, TaskTypeOK, Requests, Iface, Profile

\* The service reports well-formed notifications.
LEMMA ReportType ==
    ASSUME ServiceTypeOK, NEW i \in Ifaces, attempt[i] # None, NEW code \in ConnCodes,
           NEW r \in Reasons, Report(i, code, r)
    PROVE  connNotes' \subseteq ConnNotes
BY DEF ServiceTypeOK, Report, ConnNotes

\* An aborted attempt adds at most one.
LEMMA AbortType ==
    ASSUME ServiceTypeOK, NEW i \in Ifaces, Abort(i)
    PROVE  connNotes' \subseteq ConnNotes
BY ReportType DEF ServiceTypeOK, Abort, ConnCodes

\* The service's steps keep its types.
LEMMA ServiceTypes ==
    ASSUME ServiceTypeOK, NEW i \in Ifaces
    PROVE  /\ \A c \in Calls : WlanConnect(i, c) => ServiceTypeOK'
           /\ WlanDisconnect(i) => ServiceTypeOK'
           /\ \A name \in Names : WlanSetProfile(i, name) => ServiceTypeOK'
           /\ \A name \in Names : WlanDeleteProfile(i, name) => ServiceTypeOK'
           /\ \A id \in ScanIds : WlanScan(i, id) => ServiceTypeOK'
           /\ AttemptFails(i) => ServiceTypeOK'
           /\ \A name : AttemptEnds(i, name) => ServiceTypeOK'
           /\ LinkLost(i) => ServiceTypeOK'
<1>1. ASSUME NEW c \in Calls, WlanConnect(i, c) PROVE ServiceTypeOK'
  BY <1>1, AbortType DEF WlanConnect, ServiceTypeOK
<1>2. ASSUME WlanDisconnect(i) PROVE ServiceTypeOK'
  BY <1>2, AbortType DEF WlanDisconnect, ServiceTypeOK
<1>3. ASSUME NEW name \in Names, WlanSetProfile(i, name) \/ WlanDeleteProfile(i, name)
      PROVE  ServiceTypeOK'
  BY <1>3 DEF WlanSetProfile, WlanDeleteProfile, ServiceTypeOK
<1>4. ASSUME NEW id \in ScanIds, WlanScan(i, id) PROVE ServiceTypeOK'
  BY <1>4 DEF WlanScan, ServiceTypeOK, ScanNotes
<1>5. ASSUME NEW name, AttemptEnds(i, name) PROVE ServiceTypeOK'
  <2>1. connNotes' \subseteq ConnNotes
    BY <1>5, ReportType, ReasonsAssumption DEF AttemptEnds, ConnCodes
  <2>2. assoc' \in [Ifaces -> Ssids \cup {None}]
    BY <1>5 DEF AttemptEnds, ServiceTypeOK
  <2>3. QED
    BY <1>5, <2>1, <2>2 DEF AttemptEnds, ServiceTypeOK
<1>7. ASSUME AttemptFails(i) PROVE ServiceTypeOK'
  BY <1>7, ReportType DEF AttemptFails, ServiceTypeOK, ConnCodes
<1>6. ASSUME LinkLost(i) PROVE ServiceTypeOK'
  BY <1>6 DEF LinkLost, ServiceTypeOK
<1>8. QED
  BY <1>1, <1>2, <1>3, <1>4, <1>5, <1>6, <1>7

LEMMA ServiceStutters ==
    ASSUME ServiceTypeOK, UNCHANGED svcVars PROVE ServiceTypeOK'
BY DEF ServiceTypeOK, svcVars

\* The dispatcher's steps keep its types.
LEMMA RegistryTypes ==
    ASSUME DispatcherTypeOK, NEW i \in Ifaces
    PROVE  /\ \A c \in Calls : pending_connect(c, i) => DispatcherTypeOK'
           /\ \A id \in ScanIds : pending_scan(id, i) => DispatcherTypeOK'
           /\ drop_pending_connect(i) => DispatcherTypeOK'
           /\ drop_pending_scan(i) => DispatcherTypeOK'
<1>1. ASSUME NEW c \in Calls, pending_connect(c, i) PROVE DispatcherTypeOK'
  BY <1>1 DEF pending_connect, DispatcherTypeOK
<1>2. ASSUME NEW id \in ScanIds, pending_scan(id, i) PROVE DispatcherTypeOK'
  BY <1>2 DEF pending_scan, DispatcherTypeOK, ScanIds
<1>3. ASSUME drop_pending_connect(i) \/ drop_pending_scan(i)
      PROVE  DispatcherTypeOK'
  BY <1>3 DEF drop_pending_connect, drop_pending_scan, DispatcherTypeOK
<1>4. QED
  BY <1>1, <1>2, <1>3

LEMMA DispatchTypes ==
    ASSUME DispatcherTypeOK, NEW alive
    PROVE  /\ \A m \in ConnNotes : dispatch_connection(m, alive) => DispatcherTypeOK'
           /\ \A n \in ScanNotes : dispatch_scan(n, alive) => DispatcherTypeOK'
<1>1. ASSUME NEW m \in ConnNotes, dispatch_connection(m, alive)
      PROVE  DispatcherTypeOK'
  <2>1. OutcomeOf(m) \in ConnMsgs
    BY DEF OutcomeOf, ConnNotes, ConnMsgs
  <2>2. QED
    BY <1>1, <2>1 DEF dispatch_connection, DispatcherTypeOK, ConnNotes
<1>2. ASSUME NEW n \in ScanNotes, dispatch_scan(n, alive)
      PROVE  DispatcherTypeOK'
  BY <1>2 DEF dispatch_scan, DispatcherTypeOK, ScanNotes, ScanIds
<1>3. QED
  BY <1>1, <1>2

LEMMA RegistryStutters ==
    ASSUME DispatcherTypeOK, UNCHANGED regVars PROVE DispatcherTypeOK'
BY DEF DispatcherTypeOK, regVars

\* The scheduling steps keep the types of the task variables.
LEMMA SpawnTypes ==
    ASSUME TypeOK, NEW c \in Calls, NEW j \in Jobs, Spawn(c, j)
    PROVE  TaskTypeOK'
BY DEF TypeOK, TaskTypeOK, Spawn, Places

LEMMA WaitTypes ==
    ASSUME TypeOK, NEW c \in Calls, NEW p \in Places, WaitAt(c, p)
    PROVE  TaskTypeOK'
BY DEF TypeOK, TaskTypeOK, WaitAt

LEMMA EndTypes ==
    ASSUME TypeOK, NEW c \in Calls, NEW r \in Results, End(c, r),
           job' \in [Calls -> Jobs \cup {"none"}]
    PROVE  TaskTypeOK'
BY IfaceType DEF TypeOK, TaskTypeOK, End, Places

LEMMA ReturnTypes ==
    ASSUME TypeOK, NEW c \in Calls, NEW r \in Results, Return(c, r)
    PROVE  TaskTypeOK'
BY EndTypes DEF TypeOK, TaskTypeOK, Return

\* A guard's Drop is a step of the dispatcher.
LEMMA DropGuardTypes ==
    ASSUME TypeOK, NEW c \in Calls, DropGuard(c)
    PROVE  DispatcherTypeOK'
BY IfaceType
DEF TypeOK, DropGuard, drop_pending_connect, regVars, DispatcherTypeOK

LEMMA BeginConnectTypes ==
    ASSUME TypeOK, NEW c \in Calls, BeginConnect(c)
    PROVE  DispatcherTypeOK' /\ TaskTypeOK'
<1>1. "connect" \in Jobs
  BY DEF Jobs
<1>2. DispatcherTypeOK'
  BY IfaceType DEF BeginConnect, pending_connect, DispatcherTypeOK, TypeOK
<1>3. QED
  BY <1>1, <1>2, SpawnTypes DEF BeginConnect

LEMMA BeginScanTypes ==
    ASSUME TypeOK, NEW c \in Calls, scans[c] < MaxScans, BeginScan(c)
    PROVE  DispatcherTypeOK' /\ TaskTypeOK'
<1>1. scans[c] + 1 \in 0..MaxScans
  BY MaxScansAssumption DEF TypeOK, TaskTypeOK
<1>2. DispatcherTypeOK'
  BY <1>1, IfaceType
  DEF BeginScan, pending_scan, DispatcherTypeOK, TypeOK, ScanIds
<1>3. TaskTypeOK'
  BY <1>1 DEF BeginScan, TypeOK, TaskTypeOK, Places, Jobs
<1>4. QED
  BY <1>2, <1>3

LEMMA ScanIdType == ASSUME TypeOK, NEW c \in Calls PROVE ScanId(c) \in ScanIds
BY DEF TypeOK, TaskTypeOK, ScanId, ScanIds

\* The initial states are well typed.
LEMMA InitType == Init => TypeOK
BY MaxScansAssumption
DEF Init, TypeOK, ServiceInit, DispatcherInit, ServiceTypeOK,
    DispatcherTypeOK, TaskTypeOK, Places, ConnNotes, ScanNotes

\* Every step keeps the types.
LEMMA TypeStep == ASSUME TypeOK, [Next]_vars PROVE TypeOK'
<1> USE DEF TypeOK
<1>k. /\ Jobs = {"scan", "collect", "context", "install", "exists", "connect",
                 "abort", "query", "disconnect", "delete"}
      /\ Results = {"Ok", "True", "False", "Cancelled"} \cup Errors
      /\ Errors = {"AuthenticationFailed", "SsidNotInRange", "UserCancelled",
                   "Os", "Timeout", "NoStoredCredentials", "AdapterNotFound"}
      /\ Places = {"idle", "locking", "job", "scan_wait", "conn_wait", "done"}
  BY DEF Jobs, Results, Errors, Places
<1>1. ASSUME NEW c \in Calls, Start(c) PROVE TypeOK'
  BY <1>1, <1>k DEF Start, ServiceTypeOK, DispatcherTypeOK, TaskTypeOK,
                    svcVars, regVars
<1>2. ASSUME NEW c \in Calls, AcquireLock(c) PROVE TypeOK'
  <2>1. ServiceTypeOK'
    BY <1>2 DEF AcquireLock, ServiceTypeOK, svcVars
  <2>2. [call |-> c, n |-> 1] \in ScanIds /\ 1 \in 0..MaxScans
    BY MaxScansAssumption DEF ScanIds
  <2>3. DispatcherTypeOK'
    BY <1>2, <2>2, IfaceType
    DEF AcquireLock, DispatcherTypeOK, pending_scan, regVars
  <2>4. req[c].kind \in AllKinds
    BY KindsAssumption DEF TaskTypeOK, Requests
  <2>5. TaskTypeOK'
    BY <1>2, <2>2, <2>4, <1>k, IfaceType DEF AcquireLock, TaskTypeOK, AllKinds
  <2>6. QED
    BY <2>1, <2>3, <2>5
<1>3. ASSUME NEW c \in Calls, Cancel(c) PROVE TypeOK'
  <2>1. TaskTypeOK'
    BY <1>3, <1>k, EndTypes DEF Cancel, TaskTypeOK
  <2>2. QED
    BY <1>3, <2>1, DropGuardTypes DEF Cancel, ServiceTypeOK, svcVars
<1>t. ServiceTypeOK /\ DispatcherTypeOK
  OBVIOUS
<1>4. ASSUME NEW c \in Calls, RunScan(c) PROVE TypeOK'
  BY <1>4, <1>k, <1>t, IfaceType, ScanIdType, ServiceTypes, ServiceStutters,
     RegistryTypes, RegistryStutters, SpawnTypes, WaitTypes, ReturnTypes
  DEF RunScan
<1>5. ASSUME NEW c \in Calls, ScanWoken(c) \/ ScanTimeout(c) PROVE TypeOK'
  BY <1>5, <1>k, <1>t, IfaceType, ServiceStutters, RegistryTypes, RegistryStutters,
     SpawnTypes
  DEF ScanWoken, ScanTimeout
<1>6. ASSUME NEW c \in Calls, RunCollect(c) PROVE TypeOK'
  BY <1>6, <1>k, <1>t, IfaceType, ServiceStutters, RegistryStutters, SpawnTypes,
     ReturnTypes, BeginScanTypes
  DEF RunCollect
<1>7. ASSUME NEW c \in Calls, RunContext(c) PROVE TypeOK'
  BY <1>7, <1>k, <1>t, IfaceType, ServiceStutters, RegistryStutters, ReturnTypes
  DEF RunContext
<1>8. ASSUME NEW c \in Calls, RunInstall(c) PROVE TypeOK'
  BY <1>8, <1>k, <1>t, IfaceType, ServiceTypes, ServiceStutters, RegistryStutters,
     ReturnTypes, BeginConnectTypes
  DEF RunInstall
<1>9. ASSUME NEW c \in Calls, RunExists(c) PROVE TypeOK'
  BY <1>9, <1>k, <1>t, IfaceType, ServiceStutters, RegistryStutters, ReturnTypes,
     BeginConnectTypes
  DEF RunExists
<1>10. ASSUME NEW c \in Calls, RunConnect(c) PROVE TypeOK'
  BY <1>10, <1>k, <1>t, IfaceType, ServiceTypes, ServiceStutters, RegistryStutters,
     DropGuardTypes, WaitTypes, ReturnTypes
  DEF RunConnect
<1>11. ASSUME NEW c \in Calls, ConnectWoken(c) PROVE TypeOK'
  BY <1>11, <1>k, <1>t, IfaceType, OutcomeMapped, ServiceStutters, DropGuardTypes,
     ReturnTypes
  DEF ConnectWoken
<1>12. ASSUME NEW c \in Calls, ConnectTimeout(c) PROVE TypeOK'
  BY <1>12, <1>k, <1>t, IfaceType, ServiceStutters, RegistryStutters, SpawnTypes
  DEF ConnectTimeout
<1>13. ASSUME NEW c \in Calls, RunAbort(c) PROVE TypeOK'
  BY <1>13, <1>k, <1>t, IfaceType, ServiceTypes, ServiceStutters, DropGuardTypes,
     ReturnTypes
  DEF RunAbort
<1>14. ASSUME NEW c \in Calls, RunQuery(c) PROVE TypeOK'
  BY <1>14, <1>k, <1>t, IfaceType, ServiceStutters, RegistryStutters, SpawnTypes,
     ReturnTypes
  DEF RunQuery
<1>15. ASSUME NEW c \in Calls, RunDisconnect(c) PROVE TypeOK'
  BY <1>15, <1>k, <1>t, IfaceType, ServiceTypes, ServiceStutters, RegistryStutters,
     ReturnTypes
  DEF RunDisconnect
<1>16. ASSUME NEW c \in Calls, RunDelete(c) PROVE TypeOK'
  BY <1>16, <1>k, <1>t, IfaceType, ServiceTypes, ServiceStutters, RegistryStutters,
     ReturnTypes
  DEF RunDelete
<1>17. ASSUME NEW c \in Calls, RunDetached(c) PROVE TypeOK'
  <2>1. ServiceTypeOK'
    BY <1>17, IfaceType, ScanIdType, ServiceTypes, ServiceStutters
    DEF RunDetached
  <2>2. TaskTypeOK'
    BY <1>17, <1>k DEF RunDetached, TaskTypeOK
  <2>3. QED
    BY <1>17, <2>1, <2>2, RegistryStutters DEF RunDetached
<1>18. ASSUME NEW m \in connNotes, DeliverConnection(m) PROVE TypeOK'
  <2>1. m \in ConnNotes
    BY DEF ServiceTypeOK
  <2>2. DispatcherTypeOK'
    BY <1>18, <2>1, DispatchTypes DEF DeliverConnection
  <2>3. QED
    BY <1>18, <2>2 DEF DeliverConnection, ServiceTypeOK, TaskTypeOK, taskVars
<1>19. ASSUME NEW m \in scanning, DeliverScan(m) PROVE TypeOK'
  <2>1. m \in ScanNotes
    BY DEF ServiceTypeOK
  <2>2. DispatcherTypeOK'
    BY <1>19, <2>1, DispatchTypes DEF DeliverScan
  <2>3. QED
    BY <1>19, <2>2 DEF DeliverScan, ServiceTypeOK, TaskTypeOK, taskVars
<1>20. ASSUME NEW i \in Ifaces, Service(i) PROVE TypeOK'
  <2>1. ServiceTypeOK'
    BY <1>20, ServiceTypes DEF Service
  <2>2. QED
    BY <1>20, <2>1, RegistryStutters DEF Service, TaskTypeOK, taskVars
<1>21. CASE UNCHANGED vars
  BY <1>21, ServiceStutters, RegistryStutters DEF vars, TaskTypeOK, taskVars
<1>22. QED
  BY <1>1, <1>2, <1>3, <1>4, <1>5, <1>6, <1>7, <1>8, <1>9, <1>10, <1>11, <1>12, <1>13, <1>14, <1>15, <1>16,
     <1>17, <1>18, <1>19, <1>20, <1>21
  DEF Next, Task

\* Every reachable state is well typed.
THEOREM TypeCorrect == Spec => []TypeOK
<1>1. TypeOK /\ [Next]_vars => TypeOK'
  BY TypeStep
<1>2. QED
  BY <1>1, InitType, PTL DEF Spec
=============================================================================
