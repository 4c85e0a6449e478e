# uniwifi: a TLA+ verification project

uniwifi is a cross-platform Wi-Fi library: one `Backend` trait (list, connect,
connect with stored credentials, disconnect, remove a profile, list visible
networks) and one backend per operating system. The code is small and the
interfaces below it are not: notifications that name an interface but not an
attempt, closures that cannot be interrupted, daemons that go on after the
caller gave up, futures that may be dropped at any `await`. These modules model
that control and say what survives it.

## 1. Inventory

| part | state | operations | what makes it hard |
|---|---|---|---|
| Public API (`api.rs`, `backend.rs`, `connection.rs`) | none; a guard whose drop disconnects (Android only) | forwards to a backend | the contracts all backends owe are in its docs |
| Windows backend (`platform/windows`) | one tokio mutex per interface; registry of oneshot senders per interface, shared with the notification thread; profiles and association in the WLAN service | all six | callbacks on a service thread, closures in the blocking pool that outlive a dropped future, deadlines racing notifications |
| Linux backend (`platform/linux`) | one tokio mutex per adapter; lazily built D-Bus proxies; profiles and activations in NetworkManager | all six | every step is a D-Bus round trip; signals of activations; other clients of the daemon; a timeout does not stop the daemon |
| macOS backend (`platform/macos`) | mutex per adapter (remove and list do not take it); a CoreWLAN client behind a std mutex; keychain | all six | `associate` is synchronous and cannot be interrupted: its worker outlives timeouts; both lists block a thread of the executor on the client's mutex; the system joins networks too |
| Android backend (`platform/android`) | mutex per adapter; a suggestion cache nothing fills; network request and process-wide binding held by a guard | all six | the binding is global to the process, guards drop in any order, polling threads outlive futures, JNI calls fail half way |
| iOS backend (`platform/ios`) | one mutex; configurations of the app | all but list_visible_networks (Unsupported) | completion handlers racing timeouts, clean-up after a timeout |
| Pre-flight (`preflight.rs`) | a deadline | polls a scan until the SSID is seen | budgets, zero timeouts, scans that are not bounded |
| Scan roll-up (`scan_rollup.rs`) | none | merges BSSs into networks | ties, clamping, ordering |
| Mock backend (`platform/mock.rs`) | visible networks, profiles, current association | all six | a sequential reference for the desktop contract |
| BSS decoding (`*/scan.rs`, `security.rs`) | none | what the system reports of an access point to a `RawBss` | readings that fail half way, modes that contradict each other, ranges |
| Types, errors, stub, XML | none | | no control |

**Interactions.** The caller owns the futures and may drop one at any await.
Inside a backend, calls meet in the per-adapter mutex. On Windows a call hands
closures to tokio's blocking pool and waits for the dispatcher, which the WLAN
service calls on its own thread, to send on a oneshot channel. On Linux a call
and the daemon exchange D-Bus messages, and the daemon emits signals. macOS and Android run blocking work on
workers that go on when the future is dropped and meet the next call in the
client's mutex or in the process binding. On iOS a completion block sends to a
oneshot whose future may be gone. In every
backend the operating system has state of its own that other programs and the
radio change.

**What would make it correct**: operations on one adapter do not overlap; a
connect reports the outcome of its own attempt; an outcome is never lost
between the request and the wait; every call returns and releases the lock;
nothing keeps running for a call that returned; a call that was dropped leaves
nothing that harms a later one; disconnect and remove touch only what they were
asked to. The `hazards` of `PROJECT.json` list, line by line, where each of
these could fail, with the property that covers it or the reason none does.

## 2. Modules

| module | models | built on |
|---|---|---|
| `AdapterLocks` | abstract: what all backends promise about concurrent calls | |
| `WlanService` | the Windows WLAN service (external) | |
| `Dispatcher` | `windows/notifications.rs`, the registry and `dispatch` | `WlanService` |
| `WindowsBackend` | the calls of `windows/*.rs` | `Dispatcher`; implements `AdapterLocks` |
| `WindowsBackend_proofs` | type correctness | `WindowsBackend` |
| `WindowsSafety_proofs` | the inductive invariants and what follows from them | `WindowsBackend_proofs` |
| `NetworkManager` | the daemon and other clients (external) | |
| `LinuxBackend` | the calls of `linux/*.rs` | `NetworkManager`; implements `AdapterLocks` |
| `LinuxBackend_proofs` | types, the inductive invariant and what follows from it | `LinuxBackend` |
| `Preflight` | `preflight.rs`, with its clock | |
| `MacBackend` | the calls and workers of `macos/*.rs` | `Preflight`; implements `AdapterLocks` |
| `MacBackend_proofs` | types, the inductive invariant and what follows from it | `MacBackend` |
| `ConnectivityService` | Android's ConnectivityManager, WifiManager and broadcasts (external) | |
| `AndroidBackend` | the calls, jobs and guards of `android/*.rs` | `ConnectivityService`; implements `AdapterLocks` |
| `AndroidBackend_proofs` | types, the inductive invariant and what follows from it | `AndroidBackend` |
| `AndroidBinding_proofs` | that an undisturbed connect is bound to its own network | `MCAndroidBackend`, `AndroidBackend_proofs` |
| `HotspotManager` | Apple's configuration manager, the user and the app's state (external) | |
| `IosBackend` | the calls and completion blocks of `ios/*.rs` | `HotspotManager`; implements `AdapterLocks` |
| `IosBackend_proofs` | types, the inductive invariant and what follows from it | `IosBackend` |
| `BssDecoding` | one reported entry to a `RawBss`, per platform | |
| `ScanRollup` | `scan_rollup.rs`, and the listings of the platforms and the mock | `BssDecoding` |
| `ScanRollup_proofs` | types, the decoders' rule on OPEN, the ranking of the pass, the order of the listing | `ScanRollup` |
| `MCWindowsBackend`, `MCLinuxBackend`, `MCMacBackend` | symmetry sets | |
| `MCIosBackend` | the instance of the run | |
| `MCAndroidBackend` | symmetry, and a history variable: the connects something disturbed | |
| `MCScanRollup` | the reports that are decoded and rolled up | |

In all five backends a call is a member of `Calls` with a request chosen in `Init`,
a `pc` naming the await its future is suspended at, and a `result`. `Start`
polls it for the first time, `Cancel` drops the future at any await, the other
actions are what happens when an await completes: everything the Rust code does
up to the next await is one action, since a task runs uninterrupted until then
and nothing it touches without a lock is shared. `holder` is the map of mutexes.

### Windows

`WlanService` keeps the association, the attempt in progress and the profiles
of an interface, and the notifications not yet delivered, in a set, so they may
arrive in any order and late. A notification carries the call whose attempt it
reports; the real one does not, and no action of the backend looks at it: it
is history for the properties. `Dispatcher` holds `connReg` and `scanReg`, the
senders per interface (named by the call or scan that inserted them), and
`connRx` and `scanRx`, what the receivers hold. `WindowsBackend` adds the
tasks. `job` is the closure a call has in the blocking pool; `Cancel` leaves it
there, and `RunDetached` runs it with nobody waiting. `RunAbort` is the
`WlanDisconnect` after a timeout. `End` drops the guards in the order of the
code, the lock last.

An attempt is told of by any number of ATTEMPT_FAILs (`AttemptFails`; at most
`MaxReports` wait for delivery) and one COMPLETE (`AttemptEnds`), each with a
reason code, 0 ("SUCCESS") included: `dispatch` takes any of them as the end, and
`OutcomeOf` makes Connected of a COMPLETE with code 0 and Failed(code) of all
others, whose code 0 `into_result` maps to Ok. Assumed of the service: a COMPLETE
is the last it tells of an attempt, and a request that replaces an attempt
completes it with a failure. `ProfileName` is the lossy decode of an SSID: several
SSIDs may have one profile name, and the service joins any network of the name.
`OsMayFail` lets every `Wlan*` function fail.

### Linux

`NetworkManager` keeps saved profiles (named by the connect that added them)
and activations (named by the call that asked for them, or one of `Autos` when
the daemon or another client did). An activation goes from activating to
activated or deactivated, and then its object leaves the bus ("gone"). A new
activation of a device ends the one it has; deleting a profile ends the
activations that use it. `LinuxBackend` sends at most one state-changing
request per call (`sent`). `Handle` is the daemon's handling of it together with
the reply that wakes the caller, if it is still there: requests of different
calls are handled in any order, because the daemon authorizes them
asynchronously, and the request of a dropped future is handled all the same.
`Emit` puts a terminal `StateChanged` into the stream of the call subscribed on
that activation's path. Snapshot and walk are two steps (`Snapshot`, `Walk`):
what the list returned may have changed when it is looked at, and again when
the request is handled; an entry that cannot be read is skipped, a match too, so
a walk may end with nothing found. `ReplyFails` is an error in place of a reply
that is not the daemon's answer: the caller returns, and the request, handled
before or to be handled, has its effect all the same. `ReadState` may fail for any
reason, and the call then waits without knowing the state (the place `blind`).

### macOS

`Preflight` is the poll loop with a clock: ticks `elapsed` since the call began,
the `timer` of the sleep or timeout it is in, and its `budget`. It looks at the
clock between scans only, as the code does. `MacBackend` starts it under the
lock, runs each scan on a worker, and gives `associate` what the pre-flight left
of the timeout. A worker (`work`, `at`, `out`) waits for the mutex of the shared
client, uses it, and ends; `Cancel` and `AssociateTimesOut` leave it running
with no future to take its result. `current` is the SSID the interface is on,
`joined` the call whose `associate` made that association (history), `keychain` the
stored entries. In `SystemMoves` the user, auto-join or another program joins a
network or leaves one, at any time, between the two calls of a disconnect too; in
`KeychainEdited` others add and remove entries; and a keychain probe may answer
False for an entry that is there, as every error does. `EagerCheck` is the lookup
`list_adapters` and `list_visible_networks` make inside the future: while it waits
for the client it keeps one of the executor's `threads`, and when no thread is
left (`ExecutorFree`) no other future is polled and no timer fires. Time advances
only when a free executor has fired what is due.

### Android

A call's future awaits a `job` on the blocking pool; a step of the job is what
it does between two points at which another thread may act. A connect's job
takes a snapshot of the network handles, requests a network, and polls for one
that is not in the snapshot. `guard` follows the `SpecifierGuard` from the
registration of its callback to its end: a local of the job (`poller`), an
output nobody has taken (`output`), the caller's connection (`held`), the two
calls of Drop (`unregister`, `unbind`), and `dropped`, or `lost` when an error
left the callback registered for ever. `Fails` is a JNI call that throws.
`ConnectivityService` names a network after the call whose request brought it
up (history: the backend sees handles only) or one of `Others`. A receiver is
registered for an action, and `ScanEnds` tells those of the action the system
broadcasts. The crate registers for another one, so no receiver hears of a scan
and every list waits its six seconds out: the model shows that too.

### iOS

A connect applies a configuration and awaits the oneshot its completion block
sends to, under a timeout; remove_profile and stored credentials query first.
`HotspotManager` keeps who `installed` the configuration of an SSID: a call,
`Before` or `None`. An apply that was asked for may be installed at any time,
also after the call ended, and its block may run later or never. The user may
forget a network and move the app to the background. Hops to the main queue
belong to the step that makes them.

### Scans

A report is the list of entries a system returns; `BssDecoding` says for each
platform which entries there are (`MacEntries`, `LinuxEntries`, `AndroidEntries`,
`WindowsEntries`), and `ReportsAssumption` that a report consists of them.
`FetchEntry` decodes one entry, or skips it; then `FilterHidden` and
`RollIn`, one BSS a step, and `Emit`, as in `rollup`. The mock lists its map
(`MockListing`): its keys are distinct and nobody filters them, so an empty SSID
may be among them, and `ListingIsOrdered` asks a name and a BSS count of rolled
up listings only; its sort is a definition of its own (`MockSorted`). Android's
capabilities may be null, which the code reads as an empty string. Readings are numbers, an SSID is a sequence of bytes, and
security modes are sets of the names the code tells apart. A macOS network
without a channel, or with one of no known band, has `None` for its band.

## 3. Runs

| run | instance | shows |
|---|---|---|
| `win_calls` | 2 calls of any kind, 1 interface, 1 SSID, 2 reasons, 2 scans a call, one pending at a time, 1 undelivered ATTEMPT_FAIL an attempt, failing OS | seven invariants and that the backend implements `AdapterLocks` |
| `win_live` | the same with 1 scan a call, an OS that does not fail | `CallsReturn` |
| `win_late_outcome` | 2 connects, explicit or stored credentials, 2 SSIDs with one profile name | a second or late notification of an attempt answers a later connect (violation) |
| `win_disconnect_idle` | 2 disconnects | disconnect when idle is not a no-op success (violation) |
| `linux_calls` | 2 calls of any kind, 1 device, 2 SSIDs, 1 stored profile, 1 foreign activation, 1 reason | the five properties of section 4 and that the backend implements `AdapterLocks` |
| `linux_live` | 2 calls, 1 SSID, no foreign activation, 2 reasons | `CallsReturn` |
| `linux_remove` | as `linux_calls`, 2 reasons | remove_profile returns true and leaves a profile (violation) |
| `mac_calls` | 2 calls of any kind, 2 SSIDs, timeouts 0 and 6, pre-flight cap 5, pause 2, 7 ticks, executors of 1 and 2 threads | six properties and that the backend implements `AdapterLocks` |
| `android_calls` | 2 calls of any kind, 1 foreign network, 1 failing JNI call | six properties and that the backend implements `AdapterLocks` |
| `android_guard` | 2 connects, nothing foreign, nothing fails | a connect is Ok on the network of a dropped one (violation) |
| `ios_calls` | 2 calls of any kind, 2 SSIDs and one that is not UTF-8 | four properties, `CallsReturn` among them, and that the backend implements `AdapterLocks` |
| `scan_rollup` | up to 3 entries (Windows: 2 networks) that meet in SSID, quality and reading; single entries with every pair of modes; null capabilities | `PassKeepsRanking`, `ListingIsOrdered`, `OpenStandsAlone`, `ListingIsFaithful` |

**Bounds.** Two calls on one adapter are the smallest instance in which a call
meets what an earlier one left behind: its lock, registration, closure,
request, attempt or notification. A third call only meets more of the same,
and the proofs of section 5 hold for any number of calls and interfaces.
`MaxScans = 2` (in `win_calls`; 1 in the others) allows a pre-flight that gives up,
one that succeeds at once and one that scans again. `MaxPending` bounds the scans
whose answer the service owes: 1 in `win_calls`, where no property is about scans
and a call behind a scan that is never answered can still be cancelled, and 2 in
the others, where two calls of one scan never reach it. `MaxReports = 1` is enough for
an ATTEMPT_FAIL to answer a connect and for another, or the COMPLETE, to follow
it. One SSID serves in `win_calls` and `win_live`: no property of theirs looks at
one, and the code compares SSIDs only in disconnect; `win_late_outcome` has two. Two reasons tell a mapped reason from another; `linux_calls`, whose properties
look at no reason, has one. Calls,
SSIDs and devices are symmetric: no definition names one. `CHECK_DEADLOCK` is off
because the system stops when all calls have returned.

On macOS a tick stands for a second or so, and only the order of the numbers
matters: the budget is half the timeout (3, the cap of 5 does not bind; the
theorems hold for every cap), and not a multiple of the pause (2), so the last
pause is cut; the budget is below the timeout (6), so `associate` has time left;
and `MaxElapsed` (7) is above the timeout, so a scan overruns both. One error
(`Os`) stands for all the errors of associate that nothing tells apart.
A timeout of 0 gives the zero budget. With one thread a single list stops the
executor while a worker holds the client; with two it takes two lists, which the
two calls can be, but then the client is free; a worker of a third call is left
to the theorem `PausesFit`, of any number of threads and calls. One failing JNI call a behaviour puts a
failure at every step; the properties that premise none (`faults = 0`) are
checked over the others in the same run. Without a foreign network an Android
connect has only its own and an earlier call's to bind; one is enough for the
snapshot to be wrong. Three entries in a scan allow a tie, a better one and
another SSID between two of the same; pairs of security modes are enough
because the decoders map each mode alone and then apply one rule about a pair.

**Fairness.** `FairSpec` is weakly fair for each call's `Task`: tokio polls a
task that was woken, runs the closures of its blocking pool and fires its
timers. Nothing is assumed of the caller (`Cancel`, `Start`), of the radio, or of
notifications and signals. On Linux `Handle` is fair too: the daemon answers
every request. That is an assumption about the environment and the code has no
deadline for it; without it a call can hang with the lock held (a listed
hazard). On iOS nothing is assumed of completion blocks, and `CallsReturn` holds
because every wait has a timeout. macOS and Android have no liveness run: an
`associate` or a JNI call that never returns hangs its caller by design, and
the safety instances are as large as a run can be. Time is abstract, but for macOS: a deadline may pass whenever what it bounds has not
happened. A result already delivered wins over the deadline, as
`tokio::time::timeout` polls the inner future first.

## 4. Properties

Windows. `OutcomeIsOwn`: although `dispatch` matches by interface, what wakes a
connect is a notification of its own attempt, or of one whose call had stopped
listening (`Deserted`: timed out, cancelled, answered by an ATTEMPT_FAIL or by
another's notification) before the service was done with it. `WaiterIsReachable`: a waiter with an empty receiver is
registered, so its channel never closes under it. `RegistryIsOwned`: a connect
registration is always the lock holder's; a scan registration, which has no
guard, is the lock holder's or a cancelled call's. `OnlyCancelledCallsDetach`: returning
leaves no closure behind, a timeout included. `AttemptHasWaiter`: an attempt in
progress, or a notification of it under way, has somebody to hear of it unless its
call had stopped listening. `ResultMatchesOutcome`: what a connect returns
is `into_result` of what its receiver held, and Ok means Connected or a failure
with code 0. `CallsReturn`.

Linux. `OkMeansOwnActivation`: Ok only after the call's own activation reached
ACTIVATED. `NoOutcomeIsMissed`: nothing terminal falls between request,
subscription and a read that succeeds. `FailureIsFinal`: a definite failure that the final
wait reports leaves no activation going on; what the error in place of a reply is
turned into is no such failure. `RequestsAreTargeted`: disconnect and remove_profile touch
nothing of another network, whatever changed since the walk. `CallsReturn`.

macOS. `ClientIsExclusive`: no two workers, orphans included, are inside
CoreWLAN, and none is while it asks the keychain. `PausesFitBudget`: the last
scan of a pre-flight starts at its deadline and not after, but for time that
passes while every thread of the executor waits in a list. `TimeoutCoversPreflight`:
pre-flight and associate together have one timeout (the keychain probe after a
failed associate has none). `OnlyOrphansInterfere`: until a successful connect
returns, no live call ends or replaces its association, only the system and
orphans of earlier calls. `DisconnectIsTargeted`: comparison and disassociation
are one use of the client, so no association of another call is ended; one that
the system makes between the two is.

Android. `RequestsHaveOwners`: a registered network request always has somebody
who will release it, unless a JNI call failed. `BindingIsCleared`: when all
guards are gone the process is unbound. `BindingIsStable`: a held
connection loses its binding only to another connect or another guard's Drop
(which it can: the binding is the process's). `ReceiversSpanScans`: a receiver is
registered before its scan starts and no longer than the wait for it, unless a JNI
call failed. `AloneIsBound`: a connect nobody disturbed is
bound to the network of its own request.

iOS. `FalseRemovesNothing`: remove_profile says false only when it removed
nothing, but for what a late apply of an ended call installed. `RemovalIsAnswered`:
a configuration goes only in the step of a call that reports it.
`NobodyTramples`: while a connect waits, only the user and late applies touch
its configuration. `CallsReturn`.

Scans. `PassKeepsRanking`: after every step of the one pass the accumulators
are what the documented ranking says of the BSSs seen so far.
`ListingIsOrdered`: unique, sorted, at most one connected, the mock's too.
`OpenStandsAlone`: a network listed of one access point is not said to be open
and OWE, nor, but on macOS, open and anything else: what OPEN is beside was said by
another BSS of the SSID. `ListingIsFaithful`: the listing, counts, unions and readings
included, is that of the whole report, or of nothing when Android failed to read it.

All five backends: `CallsAreSerialized`, the refinement of `AdapterLocks`. The
operations that take no lock (macOS remove and list, Android list) are idle in
the mapping.

**Disagreements found.** (1) Windows: a notification of an attempt
whose connect no longer listens fires the next connect's waiter
(`NoForeignOutcome`), which the comment on the guard says cannot happen; a failed
connect that nobody disturbed is enough, since its ATTEMPT_FAIL answers it and
its COMPLETE is still to come. (2) Windows: `disconnect` on an
idle interface can return an OS error (`DisconnectIsIdempotent`), where docs and
comment promise a no-op. (3) Linux: `remove_profile` deletes one of the
profiles its own connects add for an SSID (`RemovedMeansGone`). (4) Android:
`try_bind_new_wifi` binds any Wi-Fi network that is new since the snapshot, and
the worker of a dropped connect still brings one up (`OkIsOwnNetwork`).

Read from the code while modelling it, with no run of their own:

- Windows: an ATTEMPT_FAIL with code 0 is answered Ok, where the doc of
  `into_result` says any failure is an error; SSIDs that are not UTF-8 share
  profiles, where a comment says the name round-trips.
- Linux: an unmapped deactivation reason becomes AuthenticationFailed, where a
  test's comment says Os; any error in place of the reply to
  AddAndActivateConnection becomes SsidNotInRange when the pre-flight saw
  nothing, though the activation may go on; a failed read of the current state
  is ignored, and a terminal state before it is waited for until the timeout;
  walks skip entries that cannot be read and then say there is none; an access
  point whose flags cannot be read is listed, as open or WEP, where a comment says
  it is skipped.
- Windows and Linux: the pre-flight's time comes on top of the timeout, where
  the docs of the timeout include it. With a zero timeout the pre-flight makes no
  scan: Windows and macOS then answer SsidNotInRange; Linux activates all the
  same and says SsidNotInRange only in place of an error of AddAndActivate or of
  a failed authentication.
- macOS: NoStoredCredentials is said whenever the probe fails, an entry or not;
  list_adapters, which its docs call very fast, waits for the client on the
  executor's thread; disassociate ends a network the system joined after
  the comparison; the client's mutex is one per backend, not per process.
- Android: `cache_suggestion` has no caller, so stored connects, disconnect and
  remove_profile end at the lookup; the receiver's action is not the one the
  system broadcasts; the freshness of a scan is computed and thrown away; an
  error while reading results is an empty list; null capabilities are listed as
  OPEN; there is no pre-flight, which the docs say there is.
- iOS: an apply can install its configuration after the timeout removed it; the
  foreground is checked before the wait for the lock, not before the apply.
- Mock: an empty SSID is listed.

## 5. Proofs

Every safety property that a passing run checks, but for `ListingIsFaithful`, is
also a theorem, of any
number of calls, interfaces, SSIDs, activations, networks and scan entries. The
theorems hold for every value of the constants that satisfies the named
assumptions of the modules: `None` is none of the other values, the names of
calls, activations, networks and profiles do not clash, `MaxScans`, `MaxReports` and `MaxPending`
are positive, profile names are a function of SSIDs, an executor has a thread,
timeouts and the pre-flight's cap are numbers, `Kinds` are operations, the
reason for success is a reason, and the reports of a scan are made of entries
the systems can report.

**Windows** (`WindowsBackend!Spec`).

- `TypeCorrect`: `Spec => []TypeOK`, one lemma per group of actions.
- `InvariantHolds`: `Spec => []IInv`.
- `RegistryOwned`, `DetachedAreCancelled`, `WaiterReachable`, `OutcomeOwned`:
  the properties of the same names above, from `IInv`.
- `AnswersHold`, and from it `ResultMatched` and `AttemptHeard`: the properties
  `ResultMatchesOutcome` and `AttemptHasWaiter`.
- `WindowsSerializes`: `Spec => CallsAreSerialized`; each step maps to `Ask`,
  `Enter`, `Finish` or a stutter.

None of these properties is inductive alone. `IInv` adds the two directions of
lock ownership (`LockInv`: whoever is between acquisition and return is the holder, and
a holder is such a call), what a closure says of its call (`JobInv`), and for
registrations that their call is alive and on that interface (`ConnRegInv`,
`ScanRegInv`). With these, a step of one call cannot touch the registration of
another on the same interface, because both would hold the lock.
`AttemptInv` is a second invariant, over the first, and `OutcomeIsOwn` is part of
it: a call that has not issued its `WlanConnect` has left no trace at the service
or the dispatcher (`FreshInv`), a COMPLETE is the last word on an attempt
(`LastWord`), a registered sender has not been used (`UnusedSenders`), and whoever
the service still owes something waits or is `Deserted` (`Attended`). A call that
is deserted stays so, and one that is not has the only registration of its
interface, so a notification of its attempt can reach nobody else. Steps enter the
invariant through one predicate, `AttemptMoves`, that says what any step may do to
attempts and notifications.

**Linux** (`LinuxBackend!Spec`).

- `LinuxInvariantHolds`: `Spec => []IInv`; `LinuxTypeCorrect` is its first part.
- `OkIsOwn`, `OutcomesAreHeard`: `OkMeansOwnActivation`, `NoOutcomeIsMissed`.
- `FailuresAreFinal`, `RequestsTargeted`: the action properties `FailureIsFinal` and
  `RequestsAreTargeted`.
- `LinuxSerializes`: `Spec => CallsAreSerialized`.

Here the lock is the smaller part of the argument: the daemon, its other
clients and the requests of dropped futures all act without it. `LockInv` is as
on Windows. `DaemonInv` says that an activation and the profile it uses agree,
and that a profile added by a connect comes with that connect's activation.
`SentInv` says that a request not handled yet belongs to a call that awaits its
reply, was cancelled awaiting it or got an error in its place, and that such a
call has no activation yet:
hence the activation of a call begins once, and is the one its stream names.
`MatchInv` says that what a walk matched stays what it was or goes away, which
is why a late `DeactivateConnection` or `Delete` cannot hit another network:
names of activations and profiles are not used again. `StreamInv` says that a
stream holds a terminal state its own activation did reach.

**macOS** (`MacBackend!Spec`).

- `MacInvariantHolds`: `Spec => []IInv`; `MacTypeCorrect` is its first part.
- `ClientExclusive`, `TimeoutCovers`: the two invariants of section 4.
- `PausesFit`, `OrphansOnly`, `DisconnectTargeted`: the three action properties.
- `MacSerializes`: `Spec => CallsAreSerialized`.

The lock says who may start a worker but not when a worker ends, so the
argument rests on the workers. `FutureInv` and `WorkerInv` say which worker a
future awaits, how far it can be, and what it can have returned. With them
`ClientIsExclusive` is inductive, and `MatchInv` follows: no call joins another
network while a disconnect is inside the client, so what it compared is what it
ends, or else something the system joined. `JoinInv` says that an association made
by a call is with its SSID. `ClockInv` ties the pre-flight's clock to its phases;
with `PauseInv` it gives `PausesFitBudget` and `TimeoutCoversPreflight`, for any
poll interval, cap, timeout and number of threads.

**Android** (`AndroidBackend!Spec`).

- `AndroidInvariantHolds`: `Spec => []IInv`; `AndroidTypeCorrect` is its first part.
- `RequestsOwned`, `BindingCleared`, `ReceiversSpan`: `RequestsHaveOwners`,
  `BindingIsCleared`, `ReceiversSpanScans`.
- `BindingStable`: the action property `BindingIsStable`.
- `AndroidSerializes`: `Spec => CallsAreSerialized`.
- `AloneBinds`: `AloneIsBound`, of `HSpec`, the specification with the history
  of what disturbed a connect (`MCAndroidBackend`).

`GuardInv` follows the guard through its owners: job, output, caller, Drop. The
guard's stage determines whether its callback is registered (`RequestInv`), and
whether it still has to unbind, which makes `BindingIsCleared` inductive. For
`AloneIsBound`, `AloneInv` says that the only network such a connect can find
new is its own: whatever else could appear or bind would have disturbed it.

**iOS** (`IosBackend!Spec`).

- `IosInvariantHolds`: `Spec => []IInv`; `IosTypeCorrect` is its first part.
- `FalseIsTrue`, `RemovalsAnswered`, `NobodyTouches`: `FalseRemovesNothing`,
  `RemovalIsAnswered`, `NobodyTramples`.
- `IosSerializes`: `Spec => CallsAreSerialized`.

Completion blocks and late applies run without the lock, and `QueryInv` is what
keeps an answered query worth something under it: where it found no
configuration, there is none yet or an apply of an ended call put it there.

**Scans** (`ScanRollup!Spec`).

- `ScanInvariantHolds`: `Spec => []IInv`: types, no empty SSID behind the
  filter, and `PassKeepsRanking`, which is inductive with these two.
- `PassKeeps`, `ListingOrdered`, `OpenAloneListed`: `PassKeepsRanking`,
  `ListingIsOrdered`, `OpenStandsAlone`.

That one pass finds the best of each group rests on `OutranksTransitive` and
`LaterIsKept`: the best so far and the next BSS decide the best of both.
`OpenAloneListed` goes through the decoders, mode by mode (`EntryAlone`), and
follows their BSSes through the filter to the accumulator of a group of one.
`ListingOrdered` is about `Sorted`, which names a sequence without making it:
`BytesTotal` shows that distinct SSIDs differ at a first byte or in length, so
`Before` is a strict total order of the networks listed (`ListableIsOrdered`);
the number of predecessors of a network is then its place, which gives a sorted
sequence (`SortedSorts`), and one as long as the set lists each network once
(`SortedIsStrict`); the mock's sort names the same sequence (`MockSortsAlike`). Distinct SSIDs also leave at most one network connected.

**Only model-checked.** Liveness: `CallsReturn` on Windows, Linux and iOS
(fairness and ENABLED are out of the prover's reach). `ListingIsFaithful`, whose
reference counts over the whole report at once. The four violations are
counterexamples and need no proof. No theorem needs induction over data: what the
scan proofs need of sequences follows from the smallest position of a
difference and from counting.

## 6. Not modelled, and why

- Settings dictionaries, profile XML, adapter identifiers, the parsing of BSSID
  strings and of Android's capabilities string into tokens: text, and no
  property tells it apart.
- `list_adapters` of Windows, Linux and Android, and the construction of the
  backends: queries without effect on other calls. (That of macOS and iOS takes a
  mutex, and is modelled.) Drop of the Windows
  backend: it needs that no call exists.
- Android's suggestion code (`post_connection.rs`, `suggestion.rs`,
  `status_codes.rs`): unreachable, as nothing fills the cache.
- The mock's connect, disconnect and remove_profile: sequential edits of maps
  under one mutex.
- A main thread that is blocked while iOS hops to it, and a second adapter on
  macOS and Android.
- A second backend on macOS in the same process, whose client has a mutex of its
  own; and `band_from_mhz`, which reads a listing and changes nothing.
- Concrete time on Windows, Linux, Android and iOS: a deadline may pass whenever
  what it bounds has not happened.
- `Wifi` and `WifiAdapter`, which forward; the stub, where every operation is
  Unsupported; platform selection, which is done at compile time.
- The systems below the crate, further than it observes them.

## 7. Plan

Done: the five backends and their external services, `AdapterLocks` and its five
refinements, the pre-flight with its clock, decoding and roll-up, and a proof of
every safety property the runs check but `ListingIsFaithful`.

Left:

1. Proofs: the pre-flight alone (that a scan starts at most once a poll
   interval, and the last one within the budget, without the backend around it);
   which connects the violations leave out, as theorems with the weakest
   premise; `ListingIsFaithful`, by an invariant that relates the BSSes kept to
   the entries read so far.
2. Hazards without a property: the gap between current_ssid and WlanDisconnect
   on Windows, the profile a failed Windows connect leaves, a Linux disconnect
   during an activation without an access point, and Linux profiles shared by
   two devices, which needs a second device in the instance: more states than a
   run here can explore, though a theorem could state it.
