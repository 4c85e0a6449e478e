----------------------------- MODULE Preflight -------------------------------
(***************************************************************************)
(* preflight.rs: wait_until_ssid_visible, with its clock.  The helper      *)
(* scans, and scans again after a pause, until the SSID is seen, a scan    *)
(* fails or its budget is used up.  It looks at the clock only between     *)
(* scans: nothing bounds a scan.                                           *)
(*                                                                         *)
(* Time is counted per call, in ticks since the call began to count; timer *)
(* is what is left of the sleep or the timeout the call is in.             *)
(***************************************************************************)
EXTENDS Integers

CONSTANTS
    Calls,
    POLL_INTERVAL,  \* ticks between two scans
    MaxElapsed      \* bound: ticks a call can count

ASSUME IntervalAssumption == POLL_INTERVAL \in Nat \ {0}
ASSUME ElapsedAssumption == MaxElapsed \in Nat

VARIABLES
    pf,         \* per call, where its pre-flight is, or its ScanOutcome
    budget,     \* per call, the time its pre-flight may take
    elapsed,    \* per call, ticks since it began to count
    timer       \* per call, ticks left of its sleep or its timeout

clockVars == <<pf, budget, elapsed, timer>>

ScanOutcome == {"Visible", "NotVisible", "Skipped"}

PreflightTypeOK ==
    /\ pf \in [Calls -> ScanOutcome \cup {"off", "scanning", "sleeping"}]
    /\ budget \in [Calls -> Nat]
    /\ elapsed \in [Calls -> 0..MaxElapsed]
    /\ timer \in [Calls -> Nat]

PreflightInit ==
    /\ pf = [c \in Calls |-> "off"]
    /\ budget = [c \in Calls |-> 0]
    /\ elapsed = [c \in Calls |-> 0]
    /\ timer = [c \in Calls |-> 0]

\* Duration's saturating_sub, and the smaller of two durations.
SaturatingSub(a, b) == IF a > b THEN a - b ELSE 0
Smaller(a, b) == IF a < b THEN a ELSE b

\* The budget is zero: no scan at all.  Otherwise the first scan starts.
Begin(c, b) ==
    /\ pf' = [pf EXCEPT ![c] = IF b = 0 THEN "NotVisible" ELSE "scanning"]
    /\ budget' = [budget EXCEPT ![c] = b]
    /\ elapsed' = [elapsed EXCEPT ![c] = 0]
    /\ timer' = [timer EXCEPT ![c] = 0]

\* MUTANT: the pause is not cut to what remains of the budget.
FullPause(remaining) == POLL_INTERVAL

\* The pause before the next scan.
Pause(remaining) == Smaller(POLL_INTERVAL, remaining)

\* A scan returns: the SSID is in it, the scan failed, or the loop goes on.
ScanReturns(c, answer) ==
    LET remaining == SaturatingSub(budget[c], elapsed[c]) IN
    /\ pf' = [pf EXCEPT ![c] =
           CASE answer = "seen" -> "Visible"
             [] answer = "failed" -> "Skipped"
             [] answer = "unseen" /\ remaining = 0 -> "NotVisible"
             [] answer = "unseen" /\ remaining # 0 -> "sleeping"]
    /\ timer' = [timer EXCEPT ![c] =
           IF answer = "unseen" THEN Pause(remaining) ELSE 0]
    /\ UNCHANGED <<budget, elapsed>>

\* The sleep is over: scan again.
WakeUp(c) ==
    /\ pf[c] = "sleeping" /\ timer[c] = 0
    /\ pf' = [pf EXCEPT ![c] = "scanning"]
    /\ UNCHANGED <<budget, elapsed, timer>>

\* The caller's own timeout, for the step after the pre-flight.
SetTimeout(c, left) ==
    /\ pf' = [pf EXCEPT ![c] = "off"]
    /\ budget' = [budget EXCEPT ![c] = 0]
    /\ timer' = [timer EXCEPT ![c] = left]
    /\ UNCHANGED elapsed

\* The call stops counting.
StopClock(c) ==
    /\ pf' = [pf EXCEPT ![c] = "off"]
    /\ budget' = [budget EXCEPT ![c] = 0]
    /\ elapsed' = [elapsed EXCEPT ![c] = 0]
    /\ timer' = [timer EXCEPT ![c] = 0]

\* One tick passes for the calls that count.
TimePasses(counting) ==
    /\ counting # {}
    /\ \A c \in counting : elapsed[c] < MaxElapsed
    /\ elapsed' = [c \in Calls |-> elapsed[c] + IF c \in counting THEN 1 ELSE 0]
    /\ timer' = [c \in Calls |->
           IF c \in counting THEN SaturatingSub(timer[c], 1) ELSE timer[c]]
    /\ UNCHANGED <<pf, budget>>
=============================================================================
