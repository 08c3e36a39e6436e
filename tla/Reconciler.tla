------------------------------ MODULE Reconciler ------------------------------
(***************************************************************************)
(* The daemon's reconciliation loop (main.rs, `run`) between the kernel's  *)
(* tunnel, the answers of the provider (AFTR discovery, DNS), the kernel's *)
(* choice of a source address, and its service manager.                    *)
(*                                                                         *)
(* The daemon is one task: each action below is what it does between two   *)
(* points where the rest of the world can move. Time is left out: timers   *)
(* may expire at any moment after they are set, and eventually do. The     *)
(* retained discovery results are behind `offer`, the operator's override  *)
(* and the PID file behind RequestRefresh.                                 *)
(***************************************************************************)
EXTENDS Naturals, Lifecycle, AftrSelector

CONSTANTS
    ConfigLocal,       \* tunnel.local_v6, or Unset: follow the kernel's choice
    ConfigMtu,         \* tunnel.mtu, or Unset
    ConfigLimit,       \* tunnel.encapsulation_limit, or Unset
    Budget             \* how often each kind of disturbance may happen

Kinds == {"tunnel", "foreign", "plumbing", "route", "dns", "offer",
          "term", "kill", "failure", "overflow"}

ASSUME ConfigAssumption ==
    /\ ConfigLocal \in Local \cup {Unset} /\ Unset \notin Local
    /\ ConfigMtu \in Mtu \cup {Unset}
    /\ ConfigLimit \in Limit \cup {Disabled, Unset}
    /\ NoAddr \notin Remote \cup Local
    /\ Budget \in [Kinds -> Nat]

VARIABLES
    pc,                \* where the daemon is
    observed, desired, \* locals of one pass: Observed and Desired
    candidates,        \* the AFTR addresses the pass resolved
    missing,           \* AftrSelector.missing_since: not set, set, grace over
    window,            \* next_batch has received a notification, is collecting
    due,               \* the scheduled wake time has come
    refresh, term,     \* SIGUSR1, SIGINT or SIGTERM received, not yet handled
    queued,            \* notifications in the daemon's netlink/route socket
    exit,              \* how the last daemon process ended
    status,            \* whose snapshot the status file holds
    tunnel, plumbed,   \* kernel: the link; its IPv4 address and default route
    route,             \* kernel: source address towards the AFTR
    dns,               \* addresses the AFTR's name has
    offer,             \* what effective_aftr/discover_aftr would answer now
    budget             \* disturbances left

memory == <<observed, desired, candidates, missing, window, due, refresh, term>>
world  == <<route, dns, offer>>
vars   == <<pc, memory, queued, exit, status, tunnel, plumbed, world, budget>>

Offers == {"available", "unavailable", "noService"}

Loop  == {"observe", "discover", "resolve", "reconcile", "rebuild", "publish",
          "wait", "classify", "stopping", "teardown", "unlink"}
Start == {"locked", "cleaned", "armed"}

TypeOK ==
    /\ pc \in {"off"} \cup Start \cup Loop
    /\ observed \in Observed /\ desired \in Desired
    /\ candidates \in SUBSET Remote
    /\ missing \in {"no", "counting", "over"}
    /\ window \in BOOLEAN /\ due \in BOOLEAN
    /\ refresh \in BOOLEAN /\ term \in BOOLEAN /\ queued \in BOOLEAN
    /\ exit \in {"never", "clean", "killed", "failed"}
    /\ status \in {"none", "own", "previous"}
    /\ tunnel \in Observed /\ plumbed \in BOOLEAN
    /\ route \in Local \cup {NoAddr}
    /\ dns \in SUBSET Remote
    /\ offer \in Offers
    /\ budget \in [Kinds -> Nat]

\* The socket is open and the signal handlers are installed.
Listening == pc \in Loop

\* The local endpoint a resolved desired state gets: configured, or the
\* kernel's source address (NoAddr: no IPv6 connectivity now).
LocalV6 == IF ConfigLocal = Unset THEN route ELSE ConfigLocal

Init ==
    /\ pc = "off" /\ exit = "never"
    /\ observed = Absent /\ desired = Unavailable /\ candidates = {}
    /\ missing = "no" /\ window = FALSE /\ due = FALSE
    /\ refresh = FALSE /\ term = FALSE /\ queued = FALSE
    /\ status \in {"none", "previous"}
    /\ tunnel \in Observed /\ plumbed = (tunnel # Absent)
    /\ route \in Local \cup {NoAddr}
    /\ dns \in SUBSET Remote
    /\ offer \in Offers
    /\ budget = Budget
-------------------------------------------------------------------------------
(***************************************************************************)
(* The end of the process: its memory and its socket are gone.             *)
(***************************************************************************)
Forget ==
    /\ observed' = Absent /\ desired' = Unavailable /\ candidates' = {}
    /\ missing' = "no" /\ window' = FALSE /\ due' = FALSE
    /\ refresh' = FALSE /\ term' = FALSE /\ queued' = FALSE

End(how) == pc' = "off" /\ exit' = how /\ Forget

\* An end that leaves the status file: the snapshot is then a former process's.
Die(how) ==
    /\ End(how)
    /\ status' = IF status = "none" THEN "none" ELSE "previous"

Spend(kind) == budget[kind] > 0 /\ budget' = [budget EXCEPT ![kind] = @ - 1]

\* A backend call does not come to its end: a step of it fails, or the daemon is
\* killed on the way.
Interrupted == Spend("failure") \/ Spend("kill")
-------------------------------------------------------------------------------
(***************************************************************************)
(* Startup.                                                                *)
(***************************************************************************)
\* The service manager starts the daemon: at first, and after a failure. It
\* takes the PID file's lock.
StartDaemon ==
    /\ pc = "off" /\ exit \in {"never", "failed"}
    /\ pc' = "locked"
    /\ UNCHANGED <<memory, queued, exit, status, tunnel, plumbed, world, budget>>

\* status::remove: a former process's snapshot goes before anything else.
RemoveStatus ==
    /\ pc = "locked"
    /\ pc' = "cleaned" /\ status' = "none"
    /\ UNCHANGED <<memory, queued, exit, tunnel, plumbed, world, budget>>

InstallHandlers ==
    /\ pc = "cleaned"
    /\ pc' = "armed"
    /\ UNCHANGED <<memory, queued, exit, status, tunnel, plumbed, world, budget>>

\* NetworkChanges::new, then PidFile::mark_ready and supervisor::ready.
Subscribe ==
    /\ pc = "armed"
    /\ pc' = "observe"
    /\ UNCHANGED <<memory, queued, exit, status, tunnel, plumbed, world, budget>>
-------------------------------------------------------------------------------
(***************************************************************************)
(* One pass: observe, compute the desired state, reconcile, publish.       *)
(***************************************************************************)
Observe ==
    /\ pc = "observe"
    /\ pc' = "discover" /\ observed' = tunnel
    /\ UNCHANGED <<desired, candidates, missing, window, due, refresh, term,
                   queued, exit, status, tunnel, plumbed, world, budget>>

\* compute_desired up to the AFTR's name. It ends early without one.
Discover ==
    /\ pc = "discover" /\ ~term
    /\ \/ /\ offer = "available" /\ pc' = "resolve"
          /\ UNCHANGED desired
       \/ /\ offer = "unavailable" /\ pc' = "reconcile"
          /\ desired' = Unavailable
       \/ /\ offer = "noService" /\ pc' = "reconcile"
          /\ desired' = Absent
    /\ UNCHANGED <<observed, candidates, missing, window, due, refresh, term,
                   queued, exit, status, tunnel, plumbed, world, budget>>

\* resolve_aftr_addresses fails: the selector is not consulted.
ResolveFails ==
    /\ pc = "resolve" /\ ~term /\ dns = {}
    /\ pc' = "reconcile" /\ desired' = Unavailable
    /\ UNCHANGED <<observed, candidates, missing, window, due, refresh, term,
                   queued, exit, status, tunnel, plumbed, world, budget>>

CurrentAftr == IF observed = Absent THEN NoAddr ELSE observed.remote

\* Mutant: a failed lookup of the source address goes unnoticed.
DesiredFor_AnyLocal(remote) ==
    [local |-> LocalV6, remote |-> remote, mtu |-> ConfigMtu,
     limit |-> ConfigLimit]

DesiredFor(remote) ==
    IF LocalV6 = NoAddr THEN Unavailable
    ELSE [local |-> LocalV6, remote |-> remote, mtu |-> ConfigMtu,
          limit |-> ConfigLimit]

\* DNS answers, in any order; the selector chooses; the local address is
\* looked up for the choice. Without one (a transient error) the desired state
\* is unavailable, and what the selector has noted stays noted.
Resolve ==
    /\ pc = "resolve" /\ ~term
    /\ \E first \in dns :
          LET choice == Select(dns, first, CurrentAftr, missing # "no",
                               missing = "over")
          IN  /\ desired' = DesiredFor(choice.aftr)
              /\ missing' = CASE ~choice.missing  -> "no"
                              [] missing = "over" -> "over"
                              [] OTHER            -> "counting"
    /\ pc' = "reconcile" /\ candidates' = dns
    /\ UNCHANGED <<observed, window, due, refresh, term,
                   queued, exit, status, tunnel, plumbed, world, budget>>

PlanIs(plan) == pc = "reconcile" /\ Plan(observed, desired) = plan

DoNothing ==
    /\ PlanIs("keep") \/ PlanIs("noop")
    /\ pc' = "publish"
    /\ UNCHANGED <<memory, queued, exit, status, tunnel, plumbed, world, budget>>

\* Mutant: a rebuild sets the new tunnel up over the old one.
MustSetUp_First == PlanIs("create") \/ PlanIs("rebuild") \/ pc = "rebuild"

\* TunnelBackend::setup, for a creation and for the second half of a rebuild.
\* It fails if a link of the tunnel's name has come into being meanwhile.
MustSetUp == PlanIs("create") \/ pc = "rebuild"

SetUp ==
    /\ MustSetUp /\ tunnel = Absent
    /\ tunnel' \in Created(desired) /\ plumbed' = TRUE
    /\ pc' = "publish"
    /\ UNCHANGED <<memory, queued, exit, status, world, budget>>

SetUpCollides ==
    /\ MustSetUp /\ tunnel # Absent
    /\ Die("failed")
    /\ UNCHANGED <<tunnel, plumbed, world, budget>>

\* What setup has made is rolled back if a later step fails and if it can be.
SetUpFails ==
    /\ MustSetUp /\ tunnel = Absent /\ Interrupted
    /\ Die("failed")
    /\ tunnel' \in Remnants(desired) \cup {Absent}
    /\ plumbed' \in BOOLEAN /\ (plumbed' => tunnel' # Absent)
    /\ UNCHANGED world

\* The changes are those the observation calls for, the tunnel is the present one.
Update ==
    /\ PlanIs("update") /\ tunnel # Absent
    /\ tunnel' \in Updates(tunnel, desired, Changes(observed, desired))
    /\ pc' = "publish"
    /\ UNCHANGED <<memory, queued, exit, status, plumbed, world, budget>>

UpdateFails ==
    /\ PlanIs("update") /\ tunnel # Absent /\ Interrupted
    /\ Die("failed")
    /\ \E part \in Parts(Changes(observed, desired)) :
          tunnel' \in Updates(tunnel, desired, part)
    /\ UNCHANGED <<plumbed, world>>

\* TunnelBackend::teardown: without route, address and link.
MustTearDown == PlanIs("teardown") \/ PlanIs("rebuild") \/ pc = "teardown"

TearDown ==
    /\ MustTearDown /\ tunnel # Absent
    /\ tunnel' = Absent /\ plumbed' = FALSE
    /\ pc' = CASE pc = "teardown"          -> "unlink"
               [] PlanIs("rebuild")     -> "rebuild"
               [] OTHER                    -> "publish"
    /\ UNCHANGED <<memory, queued, exit, status, world, budget>>

\* The illumos backend removes address, route and interface before the link.
TearDownFails ==
    /\ MustTearDown /\ tunnel # Absent /\ Interrupted
    /\ Die("failed")
    /\ tunnel' \in Remnants(tunnel) /\ plumbed' \in {FALSE, plumbed}
    /\ UNCHANGED world

\* update and teardown of a tunnel that has vanished since it was observed.
Vanished ==
    /\ MustTearDown \/ PlanIs("update")
    /\ tunnel = Absent
    /\ Die("failed")
    /\ UNCHANGED <<tunnel, plumbed, world, budget>>

\* schedule_next_wake and the status snapshot. The pass's locals are gone.
Publish ==
    /\ pc = "publish"
    /\ pc' = "wait" /\ due' = FALSE /\ status' = "own"
    /\ observed' = Absent /\ candidates' = {}
    /\ UNCHANGED <<desired, missing, window, refresh, term, queued, exit,
                   tunnel, plumbed, world, budget>>
-------------------------------------------------------------------------------
(***************************************************************************)
(* Between passes: a biased select of shutdown, SIGUSR1, timer and batch.  *)
(***************************************************************************)
\* Mutant: the notifications come first in the select.
Branch_EventsFirst ==
    CASE queued \/ window -> "batch"
      [] ~queued /\ ~window /\ term -> "shutdown"
      [] OTHER -> IF refresh THEN "refresh" ELSE "timer"

\* The branch that runs when the select is polled.
Branch == IF term THEN "shutdown"
          ELSE IF refresh THEN "refresh"
          ELSE IF due THEN "timer"
          ELSE "batch"

\* Leaving the select drops the future of next_batch with what it collected.
NextPass == pc' = "observe" /\ window' = FALSE /\ due' = FALSE

\* Shutdown is also awaited, and first, while the desired state is computed.
Shutdown ==
    /\ \/ pc \in {"discover", "resolve"} /\ term
       \/ pc = "wait" /\ Branch = "shutdown"
    /\ pc' = "stopping" /\ term' = FALSE /\ window' = FALSE /\ due' = FALSE
    /\ UNCHANGED <<observed, desired, candidates, missing, refresh, queued,
                   exit, status, tunnel, plumbed, world, budget>>

WakeOnRefresh ==
    /\ pc = "wait" /\ Branch = "refresh"
    /\ NextPass /\ refresh' = FALSE
    /\ UNCHANGED <<observed, desired, candidates, missing, term, queued, exit,
                   status, tunnel, plumbed, world, budget>>

WakeOnTimer ==
    /\ pc = "wait" /\ Branch = "timer" /\ due
    /\ NextPass
    /\ UNCHANGED <<observed, desired, candidates, missing, refresh, term, queued,
                   exit, status, tunnel, plumbed, world, budget>>

\* next_batch receives its first notification and opens the 500 ms window.
BatchBegins ==
    /\ pc = "wait" /\ Branch = "batch" /\ queued /\ ~window
    /\ window' = TRUE /\ queued' = FALSE
    /\ UNCHANGED <<pc, observed, desired, candidates, missing, due, refresh, term,
                   exit, status, tunnel, plumbed, world, budget>>

\* The window ends: everything received so far is in the batch.
BatchEnds ==
    /\ pc = "wait" /\ Branch = "batch" /\ window
    /\ pc' = "classify" /\ window' = FALSE /\ queued' = FALSE
    /\ UNCHANGED <<observed, desired, candidates, missing, due, refresh, term,
                   exit, status, tunnel, plumbed, world, budget>>

\* Mutant: the source address is not looked up again.
Relevant_TunnelOnly == Plan(tunnel, desired) # "noop"

\* network_change_action is not Ignore: the tunnel is not as desired or, where
\* the kernel chooses the local address, it chooses another one or none.
Relevant ==
    IF desired \in {Absent, Unavailable} THEN Plan(tunnel, desired) # "noop"
    ELSE Plan(tunnel, desired) # "noop" \/ LocalV6 # desired.local

Classify ==
    /\ pc = "classify"
    /\ IF Relevant THEN NextPass
                   ELSE pc' = "wait" /\ UNCHANGED <<window, due>>
    /\ UNCHANGED <<observed, desired, candidates, missing, refresh, term, queued,
                   exit, status, tunnel, plumbed, world, budget>>
-------------------------------------------------------------------------------
(***************************************************************************)
(* After the loop.                                                         *)
(***************************************************************************)
ObserveLast ==
    /\ pc = "stopping"
    /\ pc' = IF tunnel = Absent THEN "unlink" ELSE "teardown"
    /\ UNCHANGED <<memory, queued, exit, status, tunnel, plumbed, world, budget>>

\* Mutant: the snapshot is left behind.
Finish_LeavesStatus ==
    /\ pc = "unlink"
    /\ Die("clean")
    /\ UNCHANGED <<tunnel, plumbed, world, budget>>

\* status::remove, then run returns.
Finish ==
    /\ pc = "unlink"
    /\ End("clean") /\ status' = "none"
    /\ UNCHANGED <<tunnel, plumbed, world, budget>>
-------------------------------------------------------------------------------
(***************************************************************************)
(* What happens to the daemon.                                             *)
(***************************************************************************)
\* Mutant: no health check, only retries.
TimerExpires_OnlyRetry ==
    /\ pc \in {"wait", "classify"} /\ ~due /\ desired = Unavailable
    /\ due' = TRUE
    /\ UNCHANGED <<pc, observed, desired, candidates, missing, window, refresh,
                   term, queued, exit, status, tunnel, plumbed, world, budget>>

TimerExpires ==
    /\ pc \in {"wait", "classify"} /\ ~due
    /\ due' = TRUE
    /\ UNCHANGED <<pc, observed, desired, candidates, missing, window, refresh,
                   term, queued, exit, status, tunnel, plumbed, world, budget>>

GraceExpires ==
    /\ missing = "counting"
    /\ missing' = "over"
    /\ UNCHANGED <<pc, observed, desired, candidates, window, due, refresh, term,
                   queued, exit, status, tunnel, plumbed, world, budget>>

\* SIGUSR1 from set-aftr or clear-aftr.
RequestRefresh ==
    /\ Listening
    /\ refresh' = TRUE
    /\ UNCHANGED <<pc, observed, desired, candidates, missing, window, due, term,
                   queued, exit, status, tunnel, plumbed, world, budget>>

\* SIGINT or SIGTERM; before the handlers are there it ends the process.
Terminate ==
    /\ pc # "off" /\ Spend("term")
    /\ IF Listening \/ pc = "armed"
         THEN /\ term' = TRUE
              /\ UNCHANGED <<pc, observed, desired, candidates, missing, window,
                             due, refresh, queued, exit, status>>
         ELSE Die("killed")
    /\ UNCHANGED <<tunnel, plumbed, world>>

\* SIGKILL or a power failure, but for the middle of a backend call. The service
\* manager sees a failure.
Kill ==
    /\ pc # "off" /\ Spend("kill")
    /\ Die("failed")
    /\ UNCHANGED <<tunnel, plumbed, world>>

\* Any other call on the way fails: observe, a lookup that is not transient,
\* the notification stream, a write of the snapshot.
StepFails ==
    /\ pc # "off" /\ ~PlanIs("keep") /\ ~PlanIs("noop") /\ Spend("failure")
    /\ Die("failed")
    /\ UNCHANGED <<tunnel, plumbed, world>>
-------------------------------------------------------------------------------
(***************************************************************************)
(* The rest of the system.                                                 *)
(***************************************************************************)
KernelNotifies == queued' = Listening

\* Another program changes, downs or deletes the tunnel. A link that goes down
\* loses its IPv4 route, and may keep it otherwise.
ChangeTunnel ==
    /\ tunnel # Absent /\ Spend("tunnel")
    /\ tunnel' \in Observed \ {tunnel}
    /\ plumbed' \in {FALSE, plumbed} /\ (tunnel' = Absent => ~plumbed')
    /\ KernelNotifies
    /\ UNCHANGED <<pc, memory, exit, status, world>>

\* Another program makes a tunnel of that name.
MakeForeignTunnel ==
    /\ tunnel = Absent /\ Spend("foreign")
    /\ tunnel' \in Tunnel
    /\ KernelNotifies
    /\ UNCHANGED <<pc, memory, exit, status, plumbed, world>>

\* The tunnel's IPv4 address or default route is removed. The daemon has not
\* subscribed to IPv4 addresses and routes.
LosePlumbing ==
    /\ plumbed /\ Spend("plumbing")
    /\ plumbed' = FALSE
    /\ UNCHANGED <<pc, memory, queued, exit, status, tunnel, world>>

\* The host's IPv6 addresses or routes change.
ChangeRoute ==
    /\ Spend("route")
    /\ route' \in (Local \cup {NoAddr}) \ {route}
    /\ KernelNotifies
    /\ UNCHANGED <<pc, memory, exit, status, tunnel, plumbed, dns, offer>>

ChangeDns ==
    /\ Spend("dns")
    /\ dns' \in (SUBSET Remote) \ {dns}
    /\ UNCHANGED <<pc, memory, queued, exit, status, tunnel, plumbed, route, offer>>

ChangeOffer ==
    /\ Spend("offer")
    /\ offer' \in Offers \ {offer}
    /\ UNCHANGED <<pc, memory, queued, exit, status, tunnel, plumbed, route, dns>>

\* A notification of nothing that matters, one of the daemon's own changes
\* included. There is no bound on these.
Noise ==
    /\ Listening
    /\ queued' = TRUE
    /\ UNCHANGED <<pc, memory, exit, status, tunnel, plumbed, world, budget>>

\* The socket overflows and its notifications are lost.
Overflow ==
    /\ queued /\ Spend("overflow")
    /\ queued' = FALSE
    /\ UNCHANGED <<pc, memory, exit, status, tunnel, plumbed, world>>
-------------------------------------------------------------------------------
Daemon ==
    \/ StartDaemon \/ RemoveStatus \/ InstallHandlers \/ Subscribe
    \/ Observe \/ Discover \/ ResolveFails \/ Resolve
    \/ DoNothing \/ SetUp \/ SetUpCollides \/ Update \/ TearDown \/ Vanished
    \/ Publish
    \/ Shutdown \/ WakeOnRefresh \/ WakeOnTimer \/ BatchBegins \/ BatchEnds
    \/ Classify \/ ObserveLast \/ Finish

Faults ==
    \/ SetUpFails \/ UpdateFails \/ TearDownFails \/ StepFails \/ Kill \/ Terminate

World ==
    \/ ChangeTunnel \/ MakeForeignTunnel \/ LosePlumbing \/ ChangeRoute
    \/ ChangeDns \/ ChangeOffer

Next ==
    \/ Daemon \/ TimerExpires \/ GraceExpires \/ RequestRefresh \/ Noise
    \/ Faults \/ World

Spec == Init /\ [][Next]_vars

(***************************************************************************)
(* Every step of the daemon that can be taken is taken, every await ends   *)
(* (the HB46PP and DNS clients have time limits), every timer expires. A   *)
(* single task runs the loop, so this is fairness of its scheduler.        *)
(***************************************************************************)
Fairness ==
    WF_vars(Daemon) /\ WF_vars(TimerExpires) /\ WF_vars(GraceExpires)

FairSpec == Spec /\ Fairness

\* The same with lost notifications.
LossyFairSpec == Init /\ [][Next \/ Overflow]_vars /\ Fairness
-------------------------------------------------------------------------------
(***************************************************************************)
(* Safety.                                                                 *)
(***************************************************************************)
\* Nothing in the world differs from what the last pass settled on.
Settled ==
    \/ desired = Unavailable
    \/ /\ Matches(tunnel, desired)
       /\ desired # Absent => desired.local = LocalV6

\* The loop sleeps on a difference between the kernel and the desired state
\* only while a notification of it waits or is being collected. (A change may
\* come between observation and reconciliation, while a batch is classified, or
\* while another branch of the select drops a half-collected batch.)
NoLostDrift == pc = "wait" /\ ~queued /\ ~window => Settled

\* A pass that finds the tunnel's AFTR among the candidates does not move the
\* tunnel to another one, whatever the order of the DNS answer.
StaysWithListedAftr ==
    pc = "reconcile" /\ observed # Absent /\ desired \in DesiredState
        => desired.remote = observed.remote \/ observed.remote \notin candidates

\* Unless a notification tells that the tunnel has just been changed, a pass
\* removes it only where no service is wanted, or where an endpoint is wrong:
\* never because discovery, DNS or the source address is unavailable, and never
\* to set a property that can be updated in place.
NoNeedlessInterruption ==
    [][ /\ tunnel # Absent /\ tunnel' = Absent
        /\ pc = "reconcile" /\ pc' # pc /\ ~queued
        => \/ desired = Absent
           \/ desired \in DesiredState /\ ~SameEndpoints(tunnel, desired) ]_vars

\* A daemon that ends without an error leaves neither a snapshot nor a tunnel,
\* unless another program has made a tunnel of that name.
CleanExit ==
    exit = "clean" =>
        /\ pc = "off" /\ status = "none"
        /\ tunnel = Absent \/ budget["foreign"] < Budget["foreign"]

\* The daemon never runs into an error of its own making (a setup over its own
\* tunnel, an update or teardown of what it has removed): it fails only if
\* another program touches the tunnel, a call fails, or it is killed.
FailsOnlyIfDisturbed ==
    exit = "failed" =>
        \E kind \in {"tunnel", "foreign", "failure", "kill"} :
            budget[kind] < Budget[kind]
-------------------------------------------------------------------------------
(***************************************************************************)
(* Liveness.                                                               *)
(***************************************************************************)
AsWanted ==
    /\ offer = "available" /\ dns # {} /\ LocalV6 # NoAddr =>
         /\ tunnel # Absent
         /\ tunnel.local = LocalV6 /\ tunnel.remote \in dns /\ tunnel.up
         /\ ConfigMtu \in {Unset, tunnel.mtu}
         /\ ConfigLimit \in {Unset, tunnel.limit}
    /\ offer = "noService" => tunnel = Absent

StoppedForGood == pc = "off" /\ exit \in {"clean", "killed"}

\* Once the world and the faults come to rest the tunnel becomes and stays what
\* the provider, DNS, the source address and the configuration ask for: through
\* failed passes, restarts and lost notifications, under any amount of noise.
Converges == <>[](StoppedForGood \/ AsWanted)

\* A shutdown request is obeyed, whatever the daemon is doing.
StopsWhenTold == term ~> pc = "off"

\* Event noise cannot postpone a scheduled reconciliation.
TimerHonoured == due ~> ~due

\* The manual's claim: the daemon "continues to reconcile the tunnel interface,
\* reserved B4 address, and IPv4 default route".
KeepsPlumbed == <>[](StoppedForGood \/ tunnel = Absent \/ plumbed)
===============================================================================
