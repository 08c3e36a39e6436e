# A formal model of dslite-b4

`dslite-b4` is a daemon that keeps one DS-Lite tunnel (an IPv4-in-IPv6 link with
an IPv4 address and default route) as its provider, DNS, the kernel's choice of a
source address, the operator and its configuration want it. This directory models
the daemon in TLA+, checks the models with TLC on small instances, and proves the
main theorems for all instances with TLAPS. `PROJECT.json` lists components, runs,
mutants, the source lines of every definition, findings, hazards and theorems.

## 1. Inventory

| Component | State | Operations | Correct when |
|---|---|---|---|
| Reconciliation loop (`main.rs`) | locals of a pass (`observed`, the computed desired state), the desired state kept until the next pass, retry counter, scheduled wake | `run`, `compute_desired`, `network_change_action` | the tunnel converges to what is wanted; no drift is slept on; nothing interrupts a good tunnel; shutdown is obeyed and clean |
| Planning (`lifecycle.rs`, `tunnel/mod.rs`) | none | `plan`, `reconcile_once` | the plan does what the difference calls for and no more |
| AFTR selection (`aftr.rs`) | `missing_since` | `select` | a listed AFTR is kept, a missing one is left after a grace period |
| Wake schedule (`wake.rs`) | none | `schedule_next_wake` | earliest of health check, deadline, retry; never a spin |
| Retained discovery (`aftr_discovery.rs`) | the last result and its next attempt time | `discover_aftr`, `retain`, `invalidate` | no request before its time, expired results are asked again |
| Runtime state (`runtime_state.rs`) | PID file, its lock, AFTR file | `PidFile::create`, `mark_ready`, `drop`, `write_`/`clear_`/`read_provided_aftr`, `signal_daemon_refresh` | one daemon; a command's change reaches it; the signal harms nobody |
| Notifications (`network_changes.rs`) | socket | `new`, `next_batch` | a hint per change, batches end |
| Status (`status.rs`, `atomic_file.rs`) | the snapshot file | `write_atomic`, `read`, `remove` | readers see whole snapshots of the running daemon |
| Lookups (`discovery.rs`, `dns.rs`) | none | `discover_local_v6`, `resolve_aftr_addresses` | failures are told apart as transient and fatal |
| Linux backend (`tunnel/linux.rs`) | kernel link, address, route | `setup`, `update`, `observe`, `teardown` | the contract of the `TunnelBackend` trait |
| illumos backend (`tunnel/illumos*`) | datalink, IP interface, address, route; routing socket | the same | the same |
| HB46PP client (`hb46pp/src/client*`) | redirect count, URL | `provision` | it ends; policy and limits hold; trouble does not end the service |
| HB46PP data (`hb46pp/src/model.rs`, `offers.rs`, `hb46pp.rs`) | none | parsing, `select`, port set arithmetic | offers are read as the protocol says |
| Configuration, command line, logging, supervisor messages, packaging | none that is read back | parsing, formatting | (not modelled) |

The loop calls discovery, DNS, the source address lookup and the backend, awaiting
each; the kernel, the provider and the operator move while it does. They reach it
through netlink notifications, two kinds of signals and timers. Commands reach it
through files and SIGUSR1 only.

What is hard here: everything the loop reads is stale when it is used; a `select!`
with priorities drops the losing futures; notifications may be noise or be lost;
the process may die between any two system calls and the next one inherits the
kernel's and the directory's state; deadlines may be zero or pass during a pass;
two processes race on one file name. The hazards in `PROJECT.json` name each of
these at its line, with the properties about it.

## 2. Modules

`Lifecycle` (operators): states of a tunnel, desired states, `Plan`, the backend
contract (`Created`, `Updates`, `Parts`). Addresses, MTUs and limits are only compared for
equality in the code, so they are members of arbitrary sets. `None` of an option is
`Unset` in a desired state; a limit that is off is `Disabled` both in an observed
and in a desired state.

`AftrSelector` (operator): `Select`. The two questions about time ("is
`missing_since` set", "is the grace period over") are arguments.

`Reconciler` (EXTENDS both): the loop of one daemon and everything around it. `pc`
names the await or call the daemon stands before. One action is what happens
between two points where the world can move.

| Code | Actions |
|---|---|
| `main` and the start of `run` | `StartDaemon`, `RemoveStatus`, `InstallHandlers`, `Subscribe` |
| one pass | `Observe`, `Discover`, `ResolveFails`/`Resolve`, `DoNothing`, `SetUp`, `SetUpCollides`, `SetUpFails`, `Update`, `UpdateFails`, `TearDown`, `TearDownFails`, `Vanished`, `Publish` |
| the biased `select!` | `Branch` (the priority), `Shutdown`, `WakeOnRefresh`, `WakeOnTimer`, `BatchBegins`, `BatchEnds`, `Classify` |
| after the loop | `ObserveLast`, `TearDown`, `Finish` |
| what happens to it | `TimerExpires`, `GraceExpires`, `RequestRefresh`, `Terminate`, `Kill`, `StepFails` |
| the kernel, others, the provider | `ChangeTunnel`, `MakeForeignTunnel`, `LosePlumbing`, `ChangeRoute`, `ChangeDns`, `ChangeOffer`, `Noise`, `Overflow` |

A rebuild is two actions, since other programs and faults can come in between.
`queued` says that the socket holds a notification; how many there are makes no
difference to the code. `window` is the half-collected batch that is lost when
another branch of the `select!` wins. Time is left out: a timer may expire at any
moment after it is set. `offer` stands for what `effective_aftr` and `discover_aftr`
answer; what is behind it is in `Schedule` and `RuntimeState`. `Spend` bounds how
often each kind of disturbance happens; noise, refreshes and timers are unbounded.

`Backend`: what `Reconciler` takes a backend call for: one step, at its return, with
one of its outcomes. A set of allowed outcomes covers both platforms: an update may
carry the desired endpoints along (Linux) and may have done a part when it fails
(illumos); a setup or a teardown that fails may leave `Remnants` of the tunnel, with
or without the IPv4 part. Nothing is promised of a call with which another program has interfered.
Both backends are shown to implement it, as they are at the level of requests.

`ReconcilerOnBackend` (EXTENDS `Reconciler`): the two joined. A backend call begins
(`Begin`, with what `reconcile_once` passes), lasts, and returns with one of `Backend`'s
outcomes (`Returns`): the pass goes on (`GoOn`), the daemon ends (`GiveUp`), or it has been killed
in the call (`Killed`), of which the tunnel keeps what a call that fails leaves. Signals,
notifications, timers, addresses, DNS and the provider move during the call (`AnyTime`);
the daemon itself waits for it (`BetweenCalls`). Other programs touch the tunnel
between calls only, since `Backend` promises nothing otherwise. That a kill leaves no
more than that is shown of both backends, at each of their requests (`Kill`). The module has no run
of its own: what it is for is proved.

`LinuxBackend`: the same calls as netlink requests. `pc` names the request that
comes next; each may succeed, be refused for what the kernel's state is, or fail
for a reason of its own (`RequestFails`), and the process may be killed (`Kill`).
Between any two, other programs change,
delete or make the link, its address and the IPv4 default route. `found` says what
the interface index in hand refers to: indexes are not reused, names are.
`before`, `faults` and `alone` are history. `Abstract` is the refinement: while a
call runs, the backend shows the state from before it, with what others have done.

| Code | Actions |
|---|---|
| `setup` | `Begin`, `AddLink`/`NameTaken`, `Lookup`/`NotFound`, `AddAddress`/`AddressRefused`, `AddRoute`/`RouteRefused`, `Rollback` |
| `update` | `Begin`, `Lookup`/`NotFound`, `Change`/`ChangeRefused` |
| `teardown` | `Begin`, `Lookup`/`NotFound`, `Delete`/`DeleteRefused` |
| any request | `RequestFails`, `Kill` |
| other programs | `ChangeLink`, `DeleteLink`, `MakeLink`, `ChangeAddress`, `ChangeGateway` |

`IllumosBackend`: the same calls as ladders of requests to four facilities: libdladm
(the IP tunnel, `link`), libipadm (the IP interface on it, `interface`), a datagram
socket (its MTU, address, flags) and the routing socket (`route`, the default route
via the AFTR's well-known address: that it is missing already is no error of a
removal, that it is there already is one of a setup). `After` is the ladder, `Undo` says where a setup that
fails starts its rollback; a rollback goes on past failures, a teardown does not. The
routing socket is asynchronous: a request is written (`sent`), carried out or declined
later, and its acknowledgement (`ack`) reaches the socket that is open then, or none;
since sequence numbers start anew with each socket, the first message of this process
is taken for the answer. A call that was killed or has timed out leaves its requests
behind (`past`, `dead`). `Backlog` bounds how many are outstanding. Opening a handle,
and looking a link's identifier up before it is deleted, have no effect of their own
and are part of the request they are done for. The layout of the foreign structures is
left out. `before`, `stuck` and `alone` are history.

| Code | Actions |
|---|---|
| `setup_inner` | `Begin`, `Create`, `SetLimit`, `Plumb`, `SetMtu`, `SetAddress`, `BringUp`, `Open`, `Add`, `Added` |
| `rollback_setup` | `Remove`, `Removed`, `Clear`, `Unplumb`, `Unlink`, from `Undo` on |
| `update` | `Begin`, `SetLimit`, `SetMtu`, `BringUp` |
| `teardown` | `Begin`, `Clear`, `Remove`, `Removed`, `Unplumb`, `Unlink` |
| any request | `Refused` (for what the kernel's state is), `Fails`, `NotDone` (an acknowledgement of an error), `Kill` |
| the kernel's side of the routing socket | `CarryOut`, `Decline` |
| other programs | `ChangeLink`, `ChangeInterface`, `ChangeAddress`, `ChangeRoute` |

`Schedule`: time. Instants are kept as the time left (never negative, no clock to
bound). It models when a pass comes, when a request to the provider may be made,
the retained result, the hints, the backoff; what a pass does to the tunnel is left
out. The source address counts only by whether it is still the one that was desired
(`outdated`) and the one the retained result was asked from (`moved`): `ChangeSource`
is the kernel's, `RefreshDiscovery` the daemon's reaction if it hears of it in time.
`barred`, `last`, `hidden` and `moved` are history variables for the properties.
`method` is what the configuration says, once: an AFTR of its own (`config`), or a
discovery method, `hb46pp` or `none`. With `none`, and as long as the operator gives no
AFTR, there is nothing to retry: the daemon sleeps until its health check, a signal or a
notification, and its backoff starts anew (`NoDiscovery`).

| Code | Actions |
|---|---|
| `compute_desired` | `UseOverride`, `NoDiscovery`, `Discover`, `Answer`, `AnswerUnspecified`, `Compute` |
| the loop | `Schedule`, `WakeOnTimer`, `WakeOnRefresh`, `WakeOnChange`, `RefreshDiscovery` |
| time and the world | `Tick`, `ChangeOverride`, `ChangeProvider`, `ChangeReadiness`, `ChangeSource` |

`Offers` (operators): what a provisioning response is read as. Prefixes, mapping
rules and port sets are numbers of `Ipv4Bits`, `Ipv6Bits` and `PortBits` bits; `Is..`
operators are the validations, the others what an accepted text becomes: `IsRule`,
`IsPortSet`, `IsOffer` for the six offers, `IsData` for the whole response, `Select`
for the choice among the offers, `ValidDelegatedPrefix`. `Ports`, `EmbeddedBits` and
`ShareOf` are not the code's: they say what RFC 7597 makes of the accepted numbers,
against which the validations are checked. What is absent, null or of a wrong type or
syntax is one text, `Malformed`.

`ProvisioningClient` (EXTENDS it): what stands behind the answers of `Schedule`'s provider. `pc`
is the step of `provision`; DNS answers any record, servers answer anything and
redirect anywhere. A URL is its scheme and host, since nothing else is decided by;
a redirect is relative to nothing, for a relative one leads to the same scheme and
host. `StateOf` is what the daemon makes of an outcome. Credentials are modelled as
the library has them, although the daemon sends none. `data` is what an accepted
response (one of `Bodies`) decodes to, `token` the one that later requests carry. `KeepsPolicy` restricts it under the
policy `require` only: under `allow` the operator has accepted servers that nobody
validated, and what one of them has handed out may be sent to another.

| Code | Actions |
|---|---|
| `discover_bootstrap` | `NoBootstrap`, `Unauthenticated`, `Discover`, `WithholdAtFirst` |
| a request in `provision` | `TransportFails`, `BadResponse`, `Response` |
| status 307 | `TooManyRedirects`, `RefuseRedirect`, `Follow`, `Withhold` |
| `discover_aftr`, the next time | `Again` |

`RuntimeState`: processes that share the directory, interleaved at system calls. A
file is known by the process that created it, so "the file under this name" and
"the file I have locked" can differ. A PID is used once. The snapshot is known by the
process that wrote it. `overlap` is history: whether a daemon was started beside
another, and whether two have had locks at a time.

| Code | Actions |
|---|---|
| `PidFile::create`, `mark_ready` | `Open`, `Refused`, `Lock`, `RemoveStatus`, `InstallHandlers`, `MarkReady` |
| a pass and the sleep after it | `ReadOverride`, `Publish`, `WakeOnRefresh` |
| the end | `Stop`, `Finish`, `Fail`, and `PidFile::drop`: `Stat`, `Unlink`, `Close`; `Crash` |
| `set-aftr`, `clear-aftr` | `Write`, `WriteFails`, `ReadPid`, `Signal` |
| `status` | `ShowStatus` |

`MCReconciler`, `MCSchedule`, `MCRuntimeState`, `MCProvisioningClient`: the instances
(the two backends need none). `Reconciler_proofs`, `Schedule_proofs`,
`RuntimeState_proofs`, `LinuxBackend_proofs`, `IllumosBackend_proofs`,
`Offers_proofs`, `ProvisioningClient_proofs`, `ReconcilerOnBackend_proofs`: the theorems. Operators whose name has a suffix
(`Relevant_TunnelOnly`) after a comment "Mutant" are plausible bugs; each shows that a
property depends on the code it is about.

## 3. Runs

| Run | Properties | Bounds |
|---|---|---|
| `safety` | `TypeOK`, `NoLostDrift`, `StaysWithListedAftr`, `NoNeedlessInterruption`, `CleanExit`, `FailsOnlyIfDisturbed` | two local, two AFTR addresses, one MTU, limits on or off; at most three disturbances of six kinds, or a change of the offer and one of them, or a loss of the IPv4 part |
| `liveness` | `Converges`, `StopsWhenTold`, `TimerHonoured` | one local address, two AFTRs; a tunnel change, a DNS change, an overflow, a stop, each at any time |
| `plumbing` | `KeepsPlumbed`, violated | one of everything, one loss |
| `wakes` | `TypeOK`, `NoSpin`, `WakesInTime`, `NoEarlyRetryUnlessHidden`, `ServiceIsFound`, `NoServiceIsBelieved`, `LeavesOldNetwork` | health 2, TTLs 0 and 3, protocol delays 1 and 2, backoff 1, 2, 4..; a configured AFTR, HB46PP, or no discovery |
| `early` | `NoEarlyRetry`, violated | the same |
| `protocol` | `TypeOK`, `OverrideIsHeard`, `RefreshIsHarmless`, `SnapshotIsOwn`, `RemovesOwnFile` | three daemons, two commands, two AFTRs |
| `exclusion` | `OneDaemon`, violated | three daemons |
| `stale` | `AddressesLockHolder`, violated | three daemons, one command |
| `linux` | `TypeOK`, `RollsBackUnlessUnseen`, `Implements`, `KeepsForeignRoute`, `SparesSuccessor` | one local, two AFTR addresses, two MTUs, limits on or off; any number of calls, faults, kills and disturbances |
| `rollback` | `RollsBack`, violated | the same, one MTU |
| `illumos` | `TypeOK`, `Implements`, `RollsBack`, `StaysReadable`, `TearDownRepeats` | one local, one remote address, two MTUs, one limit or none; two outstanding routing requests; any number of calls, faults, kills and disturbances |
| `provision` | `TypeOK`, `KeepsPolicy`, `KeepsCredentials`, `BoundedRequests`, `OutlivesTrouble`, `PortSetsAreDisjoint`, `SharesAreSeparate`, `SelectsPreferred`, `AttemptsEnd` | two hosts beside IPv4 and local ones, two redirects; IPv4 addresses of 3, IPv6 addresses of 5, ports of 3 bits; every rule and port set of these sizes, valid or not |

Why these bounds suffice. The code compares addresses only for equality with one
other, so two of a kind show every outcome; a third would repeat one. A property of
a pass is broken by at most two changes (one that makes what was read stale, one
that hides it), and the theorems below remove the bounds on the number of
disturbances and on the sets. All initial tunnels, offers and answers are initial
states, so a restart (which has no memory) starts where some initial state does:
that is why `liveness` does not need kills. In `wakes`, zero, delays within, at and
beyond the health interval, and retries below and beyond it all occur. In `provision`,
the widths are such that a rule's IPv4 prefix, its EA bits and its offset can each be
zero, exact and one too large, alone and together. In `illumos`, two outstanding routing
requests are the one of a former call and the present one; `Implements` needs two MTUs,
since the platform's default may differ from the desired one, and one limit or none. Three daemons
are a leaving one, one that opened its file, and one that creates the next.
Symmetry is used only for interchangeable addresses and processes, never in a
liveness run. Deadlock is not checked where a daemon that was told to stop, or a
command that is done, really stops.

Fairness. `Daemon`, `TimerExpires` and `GraceExpires` in `Reconciler`, `Daemon` and
`Tick` in `Schedule`, `Step` in `ProvisioningClient`. The loop is a single task; its scheduler polls it while it is
ready, the runtime's timers fire, and the awaits on the provider and on DNS end
because their clients have time limits. A response (`Response`) needs no fairness: it
ends the attempt, as the time limit would. Nothing is assumed of the operator, other
programs, the provider or notifications: any of them may do nothing for ever, and
notifications may be lost (`LossyFairSpec`).

## 4. Findings

`plumbing`: the manual says the daemon "continues to reconcile the tunnel interface,
reserved B4 address, and IPv4 default route". Neither `Observed` nor `plan` knows of
the address and route, and no IPv4 notification is subscribed to. If they are
removed, or the kernel drops the route with a link that goes down (the update brings
the link up, not the route back), the daemon reports Noop for ever.
`PlumbedByItself`, proved, says what remains: the loop never takes them away itself
and leaves the tunnel there; another program, or a setup or teardown that fails or in
which the daemon is killed, must have.

`early`: `wake.rs` says that keeping the next attempt time "prevents network events
and signals from causing an early protocol retry". `invalidate` drops the retained
result, whatever it is. While the tunnel follows the operator's override, a changed
source address drops a retained negative result; when the override is cleared, the
provider is asked before the time it prescribed. `NoEarlyRetryUnlessHidden` shows
that this is the only way.

`exclusion`: the PID file is unlinked while it is locked. A daemon that opened it
before the unlink gets the lock of a file without a name when the first one closes
it; the next creates and locks a new file, and both run. It takes a start that
overlaps a stop. What remains is proved: each file's lock excludes (`OneDaemonPerFile`),
so that one of the two has the lock of a file that the name does not lead to, and nobody
takes the name from a daemon that has locked the file of that name (`RunningDaemonIsFound`).

`stale`: the comment on `signal_daemon_refresh` says that it signals "the daemon
identified by the locked PID file", but nobody looks at the lock. After a kill the
PID of a dead process is signalled, and the command fails although the file is
written. `OnlyTheDeadAreMistaken`, proved, says that this is the only way: no other
living process is addressed.

`rollback`: the trait promises that a setup that fails "makes a best effort to remove
state created by that call". `create_tunnel` makes the link and then asks for its
index; if that request fails, `setup` returns before the code that rolls back. The
link stays, without address and route, and the next pass keeps it (see `plumbing`).
`RollsBackUnlessUnseen`, proved, says that this is the only way, unless the link cannot
be deleted or the process is killed.

Not findings, since no document says otherwise, but worth knowing:

* A notification of a new source address that loses the race of the `select!`, or comes
  in a pass, leaves the offer of the old network retained: `network_change_action` then
  finds the new address desired already and does not refresh. `LeavesOldNetwork` shows
  that it lasts no longer than the offer's time.
* On illumos `observe` asks flags and MTU of the IP interface and fails without one.
  After a kill between the interface and the link, or if the link alone cannot be
  removed, every later pass fails, until somebody removes the link. `StaysReadable`
  shows that these are the only ways.
* On illumos the routing socket's sequence numbers start anew with each socket and the
  message type is not compared, so that the acknowledgement of a request that timed out
  may be taken for that of the next. `Implements` and `RollsBack` hold where no request
  of a former call is carried out during a call (`alone`).

## 5. Proofs

`Reconciler_proofs` proves, from `ConfigAssumption` and `SpecialValues` only:

* `TypeCorrect`: `Spec => []TypeOK`.
* `DriftIsNotLost`: `Spec => []NoLostDrift`. `NoLostDrift` speaks of `pc = "wait"`
  and is not inductive: it must follow from what holds before the pass is published.
  `DriftInv` says, for every place between the observation and the sleep, that what
  the pass knows of the kernel still holds or a notification is queued (or being
  collected, or the batch has just been received).
* `InterruptionsAreNeeded`: `Spec => NoNeedlessInterruption`, from the same invariant:
  without a queued notification the tunnel is the observed one, and `Plan` tears
  down only for the reasons named.
* `NoFailureOfItsOwn`: `Spec => []FailsOnlyIfDisturbed`, by `EndInv`: as long as
  nobody has interfered, the daemon's next backend call finds the tunnel as its plan
  takes it to be.
* `EndsClean`: `Spec => []CleanExit`, by the same invariant.
* `ListedAftrIsKept`: `Spec => []StaysWithListedAftr`, from what a plan implies and
  what `Select` returns when the observed AFTR is among the resolved ones.
* `PlumbedByItself`: `Spec => []PlumbedUnlessDisturbed`. It needs that an update, whole
  or in part, leaves a tunnel (`UpdatedType`), and that a disturbance once spent stays
  so (`UnplumbedStays`).
* `NothingPutsShutdownOff`: `Spec => ShutdownGetsOn`, and `NoisePostponesNothing`:
  `Spec => DueComesNext`. They are what `StopsWhenTold` and `TimerHonoured` need besides
  fairness: a measure (`StepsLeft`) that every step of a daemon that has been told to
  stop lowers, and the priority of the timer over the notifications. `WaitInv` says where
  a signal may be pending or a timer due.

The lemmas `PlanTells`, `CreatedMatches`, `UpdatedMatches` say what the plan implies
and that a tunnel that has been created or updated leaves nothing to do.

`ReconcilerOnBackend_proofs` proves, from the same assumptions, that the two levels fit:

* `CallsMayBeAtomic`: `CallingSpec => Spec`. Taking a call for one step loses nothing:
  its beginning is a stutter of `Reconciler`, its return one of the actions of a pass.
  `CallIsWanted` says why: while a call lasts, what the daemon would ask for is what it
  has asked for, since nothing that moves during a call touches the pass's locals.
* `LoopKeepsToTheTrait`: `CallingSpec => B!Spec`. Every call is one of `Calls`, the
  arguments that the backends are proved for: a setup or update has a resolved desired
  state (`RebuildIsResolved`, of `DriftInv`, for the second half of a rebuild), an update
  the changes of a plan. With `Refines` of either backend, what is proved of the requests
  is about the calls the loop makes, and the outcomes the loop reckons with are theirs.

`LinuxBackend_proofs` proves, from `ConfigAssumption`, `SpecialValues` and `IdleIsNoCall`:

* `TypeCorrect`: `Spec => []TypeOK`.
* `FailedSetUpIsUndone`: `Spec => []RollsBackUnlessUnseen`. The invariant behind it,
  `Progress`, says at each request of a call what has been made so far and that it can
  be undone: that there was no tunnel before, and that the rest of the kernel is as it
  was.
* `ForeignRouteIsKept`: `Spec => KeepsForeignRoute`. It is about every request of a call,
  also after another program has acted in it: a route that appears while setup makes the
  link is kept as one that was there before.
* `SuccessorIsSpared`: `Spec => SparesSuccessor`, since no request by name changes
  anything after the lookup.
* `Refines`: `Spec => Implements`. By `Progress`, every request but the last is a
  stutter of `Abstract` and the last is one of its actions. `SameLifecycle` identifies
  the operators of `Lifecycle` with the instance's.

`IllumosBackend_proofs` proves, from `IllumosAssumption` and `SpecialValues`, for any
number of outstanding routing requests:

* `TypeCorrect`: `Spec => []TypeOK`.
* `FailedSetUpIsUndone`, `TunnelStaysReadable`, `TearDownCanBeRepeated`:
  `Spec => RollsBack`, `StaysReadable`, `TearDownRepeats`.
* `Refines`: `Spec => Implements`.

None of these is inductive. `Progress` says at each rung of a
ladder what is there: for a setup `MadeInv` (the objects made so far have the desired
properties, and nothing was there before) and `RouteInv`, for an update `UpdateInv`
(the changes before the present one have been made), for a teardown `TearDownInv`.
`RouteInv` is the one that is hard to see: the route that a failed setup may leave
behind goes away in the end because the request to delete it is the last of the call's
in the queue, however many of former calls stand before them; `Asked` and `Taken` are
the lemmas about the queue. `NotRefused` shows that a rollback is never refused for the
state of the kernel, so that its removals fail only for reasons of the system's own.
The refinement then needs the requests that end a call (`CallEnds`) one by one:
`SetUpSucceeds`, `SetUpEnds`, `UpdateSucceeds`, `UpdateFails`, `TearDownEnds`.

`Schedule_proofs` proves, from `ScheduleAssumption`, for any intervals: `Types`,
`NeverSpins` (`NoSpin`), `WakesBeforeItIsDue` (`WakesInTime`) and `RetryIsNotEarly`
(`NoEarlyRetryUnlessHidden`). `RetainedInv` says where in a pass something is retained;
`EarlyInv` that what is retained lasts until the provider may be asked again, and that
it is dropped early only as an offer or where the override hid it; `SpinInv` that a
deadline at zero, when a pass ends, has come during the pass. `RetryIsLater` and
`WakeInBounds` are the lemmas about the backoff and the earliest wake.

`RuntimeState_proofs` proves, from `RuntimeAssumption`, for any number of processes:
`Types`, `Harmless` (`RefreshIsHarmless`), `OwnSnapshot` (`SnapshotIsOwn`), `Heard`
(`OverrideIsHeard`) and `OwnFile` (`RemovesOwnFile`). `LockInv` and `PidInv` say who
has which lock and whose PID can be read; `OneInv` and `AloneInv` that two daemons are
past the lock, or running at all, only if starts have overlapped (`overlap`); `FileInv`
that otherwise the file of that name is the daemon's own; `HeardInv` that a change of
the override the daemon has not read is with a command that will signal it. For what
does not hold (`OneDaemon`, `AddressesLockHolder`) it proves what remains, without any
assumption about overlaps: `OneDaemonPerFile` from `LockInv`, `RunningDaemonIsFound` from
what `drop` compares before it unlinks, `OnlyTheDeadAreMistaken` from `OwnerInv`: a file
with a PID is locked by that process, or that process is dead and nobody holds the lock.

`ProvisioningClient_proofs` proves `TypeOK`, `KeepsPolicy`, `KeepsCredentials`,
`BoundedRequests`, `OutlivesTrouble`, `SelectsPreferred` (`PreferenceIsKept`),
`PortSetsAreDisjoint` (`PortSetsAreKeptApart`) and `SharesAreSeparate`
(`SharesAreKeptApart`) for any set of hosts, bodies and limits, and addresses and ports
of any width, from `OffersAssumption` and `ClientAssumption`. The latter says that the
numbers of a response are unsigned, as `number` and `parse_cidr` read them. `Progress`
ties the number of requests to that of redirects; `ReadyKeeps` and `EndKeeps` are the two
ways a step can go. `AttemptsGetOn` is the part of `AttemptsEnd` that needs no fairness:
`StepsLeft`, a natural number, gets smaller with every step of an attempt.

`Offers_proofs` has the arithmetic. A power of two is the number of subsets of a set, so
that `PowerType` and `PowerSum` follow from what the library knows of cardinalities
(there is no induction in them); `Division`, `DivisionIsUnique` and `Quotient` take care
of divisors that are not constants. `AcceptedRuleFits`: an accepted mapping rule fits an
IPv4 address, a port and an IPv6 address. `PortSetsPartition`: an offset and a length
that fit give every PSID its own ports (`PortOf` reads the PSID off a port).
`SharesOfRule`: under a rule that fits, the embedded bits are the same throughout a
delegated prefix (`OneValue`), take every value (`EveryValue`), and different values
have different shares (`ShareIsOwn`) in the rule's IPv4 prefix (`ShareInRule`).

Only model-checked: the liveness properties (`Converges`, `StopsWhenTold`,
`TimerHonoured`, `ServiceIsFound`, `NoServiceIsBelieved`, `LeavesOldNetwork`,
`AttemptsEnd`), which are out of the prover's reach; and what is violated. Without a run
of their own are `ReconcilerOnBackend`, the properties that say what remains of a violated one,
and the measures behind liveness (`ShutdownGetsOn`, `DueComesNext`, `GetsOn`).

## 6. Not modelled

* Configuration parsing, the command line, logging, systemd messages (write-only),
  packaging, documentation generation: no state that is read back.
* The text of files, messages and logs. `Offers` starts where a JSON value has been
  read as a text or a number: syntax, base64, and the construction and syntax of the
  request's parameters are left out.
* A temporary file that a kill leaves behind in `atomic_replace`: it is never read,
  and its name has the PID and a nonce.
* On illumos: `observe` beyond what it can read; routing messages of other processes,
  which are dropped by their PID; of calls in which somebody interferes, or a request
  of a former call is carried out, nothing but types and the outcome (`alone`). A
  default route via the well-known address that was there before a setup is removed
  by its rollback: `RollsBack` does not promise to keep it.
* Reuse of PIDs; a provider that answers after its time limit.
* A change of the kernel that is not announced at all, other than by an overflow,
  except for the IPv4 address and route.

## 7. Plan

In this order; done: all but 7.

1. `Lifecycle`, `AftrSelector`, `Reconciler`, the runs `safety`, `liveness`, `plumbing`.
2. `Reconciler_proofs`.
3. `Schedule` with `wakes`, `early`.
4. `RuntimeState` with `protocol`, `exclusion`, `stale`.
5. `LinuxBackend`: `setup` (link, index, address, route, rollback), `update`,
   `teardown` at the level of netlink requests, with failures and other programs in
   between, shown to implement an abstract backend (the contract `Reconciler` uses).
6. `IllumosBackend`: the ladder of setup and its rollback, teardown, the exchange of
   requests and acknowledgements on the routing socket; the same abstract backend.
7. `AftrFailover`: the grace period as a duration, over `AftrSelector`, with DNS and
   with literal addresses.
8. `ProvisioningClient` with `provision`: lookup, redirects, policy and the retry
   action of each outcome.
9. Offer selection and port set arithmetic as operators against reference definitions.
10. Proofs of the safety properties of `Reconciler`, `Schedule`, `RuntimeState` and
    `ProvisioningClient`, and of the refinement by either backend.
11. `ReconcilerOnBackend`: the loop and a backend joined, and proved to be what
    `Reconciler` and `Backend` say.
