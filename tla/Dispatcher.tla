----------------------------- MODULE Dispatcher ------------------------------
(***************************************************************************)
(* platform/windows/notifications.rs: the registry that turns WLAN         *)
(* notifications, delivered on a service thread, into oneshot messages to  *)
(* the call that waits on the interface.                                   *)
(*                                                                         *)
(* A sender lives in the registry under its interface only, so it is named *)
(* by the call (or the scan) that inserted it.  A oneshot receiver is the  *)
(* message it holds, or None; its channel is closed when it holds nothing  *)
(* and its sender is no longer in the registry.                            *)
(***************************************************************************)
EXTENDS WlanService

VARIABLES
    connReg,    \* Registry.connect: per interface, the call that inserted the sender
    scanReg,    \* Registry.scan: per interface, the scan that inserted the sender
    connRx,     \* per call, the message its connect receiver holds
    scanRx      \* per call, the scan whose completion its scan receiver holds

regVars == <<connReg, scanReg, connRx, scanRx>>

\* ConnectOutcome: Connected (whose reason is always "SUCCESS") or Failed(reason).
\* from is the call whose attempt the message reports (history).
ConnMsgs == [from : Calls, outcome : {"Connected", "Failed"}, reason : Reasons]

ASSUME NoneIsNoMessage == None \notin ConnMsgs

DispatcherTypeOK ==
    /\ connReg \in [Ifaces -> Calls \cup {None}]
    /\ scanReg \in [Ifaces -> ScanIds \cup {None}]
    /\ connRx \in [Calls -> ConnMsgs \cup {None}]
    /\ scanRx \in [Calls -> ScanIds \cup {None}]

DispatcherInit ==
    /\ connReg = [i \in Ifaces |-> None]
    /\ scanReg = [i \in Ifaces |-> None]
    /\ connRx = [c \in Calls |-> None]
    /\ scanRx = [c \in Calls |-> None]

\* Dispatcher::pending_connect: a sender already there is dropped.
pending_connect(c, i) ==
    /\ connReg' = [connReg EXCEPT ![i] = c]
    /\ connRx' = [connRx EXCEPT ![c] = None]
    /\ UNCHANGED <<scanReg, scanRx>>

\* Dispatcher::pending_scan.
pending_scan(id, i) ==
    /\ scanReg' = [scanReg EXCEPT ![i] = id]
    /\ scanRx' = [scanRx EXCEPT ![id.call] = None]
    /\ UNCHANGED <<connReg, connRx>>

\* Dispatcher::drop_pending_connect: whatever sender the interface has.
drop_pending_connect(i) ==
    /\ connReg' = [connReg EXCEPT ![i] = None]
    /\ UNCHANGED <<scanReg, connRx, scanRx>>

\* Dispatcher::drop_pending_scan.
drop_pending_scan(i) ==
    /\ scanReg' = [scanReg EXCEPT ![i] = None]
    /\ UNCHANGED <<connReg, connRx, scanRx>>

\* MUTANT: the reason alone decides.
ReasonDecides(m) ==
    [from |-> m.call,
     outcome |-> IF m.reason = "SUCCESS" THEN "Connected" ELSE "Failed",
     reason |-> m.reason]

\* The outcome made of a notification: everything but a COMPLETE with code 0 is
\* a failure, and every notification is the last word on the attempt.
OutcomeOf(m) ==
    [from |-> m.call,
     outcome |-> IF m.code = "COMPLETE" /\ m.reason = "SUCCESS"
                 THEN "Connected" ELSE "Failed",
     reason |-> m.reason]

\* Dispatcher::dispatch for a CONNECTION_* notification.  alive are the calls
\* that still hold their receiver; a send to any other is lost.
dispatch_connection(m, alive) ==
    LET w == connReg[m.iface] IN
    /\ connReg' = [connReg EXCEPT ![m.iface] = None]
    /\ connRx' = IF w # None /\ w \in alive
                 THEN [connRx EXCEPT ![w] = OutcomeOf(m)]
                 ELSE connRx
    /\ UNCHANGED <<scanReg, scanRx>>

\* Dispatcher::dispatch for a SCAN_* notification; complete and fail wake the
\* waiter alike.
dispatch_scan(m, alive) ==
    LET w == scanReg[m.iface] IN
    /\ scanReg' = [scanReg EXCEPT ![m.iface] = None]
    /\ scanRx' = IF w # None /\ w.call \in alive
                 THEN [scanRx EXCEPT ![w.call] = m.id]
                 ELSE scanRx
    /\ UNCHANGED <<connReg, connRx>>
=============================================================================
