------------------------------- MODULE Schedule -------------------------------
(***************************************************************************)
(* When the daemon reconciles next and when it may ask the provider again: *)
(* the wake schedule (wake.rs, main.rs), the retry counter, and the        *)
(* discovery results retained until the protocol's next attempt            *)
(* (aftr_discovery.rs).                                                    *)
(*                                                                         *)
(* Instants are kept as the time left until them, so time is not bounded:  *)
(* Tick lets one unit pass. The tunnel, DNS and the source address are     *)
(* only what decides the kind of the desired state.                        *)
(***************************************************************************)
EXTENDS Integers, FiniteSetsExt

CONSTANTS
    Health,            \* health.interval_secs
    TtlDelays,         \* delays that follow a provisioned response
    RetryDelays        \* delays the protocol prescribes after anything else

ASSUME ScheduleAssumption ==
    /\ Health \in Nat \ {0}
    /\ TtlDelays \in SUBSET Nat /\ RetryDelays \in SUBSET (Nat \ {0})

VARIABLES
    pc,            \* "pass", "asking", "compute", "reconcile" or "asleep"
    retained,      \* Hb46ppRuntime.retained: its state, or "none"
    left,          \* time until its next_attempt_at
    desired, hint, \* of the last computation; "unset" as long as there is none
    attempt,       \* consecutive generic retries, as far as they count
    sleep,         \* time until the scheduled wake
    elapsed,       \* time has passed since the pass began
    method,        \* "config": aftr.address is set; discovery.method otherwise
    override,      \* the operator's AFTR file exists
    isp,           \* what the provider would answer
    ready,         \* DNS and the source address lookup succeed
    outdated,      \* the desired source address is no longer the kernel's
    moved,         \* and the retained result's request came from another
    last, barred,  \* history: the last answer, time until a new attempt is due
    hidden         \* history: an override was used since the last answer

discovery == <<retained, left, moved>>
wanted    == <<desired, hint, outdated>>
timing    == <<attempt, sleep, elapsed>>
world     == <<method, override, isp, ready>>
history   == <<last, barred, hidden>>
vars      == <<pc, discovery, wanted, timing, world, history>>

Answers == {"available",      \* a response with a DS-Lite offer
            "noOffer",        \* a response without
            "notFound",       \* no bootstrap record
            "disable",        \* an error: RetryAction::DisableMigration
            "preserve",       \* an error: RetryAction::PreserveMigration
            "unspecified"}    \* an error without a retry action

\* Mutant: a missing bootstrap record leaves the question open.
StateOf_NotFoundOpen(answer) ==
    CASE answer = "available" -> "available"
      [] answer \in {"noOffer", "disable"} -> "noService"
      [] OTHER -> "unavailable"

\* The state discover_aftr retains for an answer.
StateOf(answer) ==
    CASE answer = "available" -> "available"
      [] answer \in {"noOffer", "notFound", "disable"} -> "noService"
      [] OTHER -> "unavailable"

\* ProvisioningOutcome::next_attempt_window.
OutcomeDelays(outcome) == IF outcome = "notFound" THEN RetryDelays ELSE TtlDelays

\* The windows of ClientError::retry_action.
ErrorDelays == RetryDelays

\* choose_next_attempt_delay over the answer's window.
DelaysOf(answer) ==
    IF answer \in {"disable", "preserve"} THEN ErrorDelays ELSE OutcomeDelays(answer)

\* The types, and what each step takes for granted: a retained result to compute
\* from, and the hint of a computation to schedule by.
TypeOK ==
    /\ pc \in {"pass", "asking", "compute", "reconcile", "asleep"}
    /\ retained \in {"none", "available", "noService", "unavailable"}
    /\ left \in Nat /\ sleep \in Nat /\ barred \in Nat
    /\ desired \in {"unset", "resolved", "absent", "unavailable"}
    /\ hint \in {"unset", "none", "deadline", "retry"}
    /\ attempt \in 0..5
    /\ elapsed \in BOOLEAN /\ override \in BOOLEAN /\ ready \in BOOLEAN
    /\ outdated \in BOOLEAN /\ moved \in BOOLEAN
    /\ method \in {"config", "none", "hb46pp"}
    /\ isp \in Answers /\ last \in Answers \cup {"unset"}
    /\ hidden \in BOOLEAN
    /\ pc = "compute" => retained # "none"
    /\ pc \in {"reconcile", "asleep"} => desired # "unset" /\ hint # "unset"

Init ==
    /\ pc = "pass" /\ retained = "none" /\ left = 0
    /\ desired = "unset" /\ hint = "unset" /\ attempt = 0
    /\ sleep = 0 /\ elapsed = FALSE
    /\ method \in {"config", "none", "hb46pp"} /\ override \in BOOLEAN
    /\ isp \in Answers /\ ready \in BOOLEAN
    /\ outdated = FALSE /\ moved = FALSE
    /\ last = "unset" /\ barred = 0 /\ hidden = FALSE
-------------------------------------------------------------------------------
(***************************************************************************)
(* compute_desired.                                                        *)
(***************************************************************************)
\* Mutant: a deadline that has passed is still scheduled.
HintFor_Expired(noDeadline, hasDeadline) ==
    IF hasDeadline THEN "deadline" ELSE noDeadline

\* wake_hint_for_deadline, where the deadline is the retained result's.
HintFor(noDeadline, hasDeadline) ==
    CASE hasDeadline /\ left > 0 -> "deadline"
      [] hasDeadline /\ left = 0 -> "none"
      [] ~hasDeadline            -> noDeadline

\* The computation ends with this desired state and scheduling constraint. The
\* source address was looked up last.
Computed(d, h) ==
    pc' = "reconcile" /\ desired' = d /\ hint' = h /\ outdated' = FALSE

\* The effective AFTR is the configured one or the operator's: discovery is not
\* consulted.
UseOverride ==
    /\ pc = "pass" /\ (method = "config" \/ override)
    /\ IF ready THEN Computed("resolved", HintFor("none", FALSE))
                ELSE Computed("unavailable", HintFor("retry", FALSE))
    /\ hidden' = TRUE
    /\ UNCHANGED <<discovery, timing, world, last, barred>>

\* DiscoveryRuntimeKind::None: there is nothing to retry. Without an AFTR source
\* the daemon waits for its health check.
NoDiscovery ==
    /\ pc = "pass" /\ ~override /\ method = "none"
    /\ Computed("unavailable", HintFor("none", FALSE))
    /\ UNCHANGED <<discovery, timing, world, history>>

\* Mutant: a retained result is reused however old it is.
Discover_Forever ==
    /\ pc = "pass" /\ ~override /\ method = "hb46pp"
    /\ IF retained # "none"
         THEN pc' = "compute" /\ UNCHANGED <<retained, moved>>
         ELSE pc' = "asking" /\ retained' = "none" /\ moved' = FALSE
    /\ UNCHANGED <<left, wanted, timing, world, history>>

\* Mutant: an invalidated result is reused as long as its deadline lies ahead.
Discover_Invalidated ==
    /\ pc = "pass" /\ ~override /\ method = "hb46pp"
    /\ IF left > 0
         THEN pc' = "compute" /\ UNCHANGED <<retained, moved>>
         ELSE pc' = "asking" /\ retained' = "none" /\ moved' = FALSE
    /\ UNCHANGED <<left, wanted, timing, world, history>>

\* discover_aftr: an active result is reused, an expired one is dropped.
Discover ==
    /\ pc = "pass" /\ ~override /\ method = "hb46pp"
    /\ IF retained # "none" /\ left > 0
         THEN pc' = "compute" /\ UNCHANGED <<retained, moved>>
         ELSE pc' = "asking" /\ retained' = "none" /\ moved' = FALSE
    /\ UNCHANGED <<left, wanted, timing, world, history>>

\* The provider answers; the result is retained for the chosen delay.
Answer ==
    /\ pc = "asking" /\ isp # "unspecified"
    /\ \E delay \in DelaysOf(isp) : left' = delay /\ barred' = delay
    /\ retained' = StateOf(isp) /\ last' = isp /\ hidden' = FALSE
    /\ pc' = "compute"
    /\ UNCHANGED <<moved, wanted, timing, world>>

\* An error the protocol prescribes nothing for: the daemon's own retry policy.
AnswerUnspecified ==
    /\ pc = "asking" /\ isp = "unspecified"
    /\ Computed("unavailable", HintFor("retry", FALSE))
    /\ last' = isp /\ barred' = 0 /\ hidden' = FALSE
    /\ UNCHANGED <<discovery, timing, world>>

\* What the discovery state comes to. If DNS or the source address fails, the
\* protocol deadline gives way to the generic retry.
Compute ==
    /\ pc = "compute"
    /\ CASE retained = "unavailable" -> Computed("unavailable", HintFor("retry", TRUE))
         [] retained = "noService"   -> Computed("absent", HintFor("none", TRUE))
         [] retained = "available" /\ ready  -> Computed("resolved", HintFor("none", TRUE))
         [] retained = "available" /\ ~ready -> Computed("unavailable", HintFor("retry", FALSE))
    /\ UNCHANGED <<discovery, timing, world, history>>
-------------------------------------------------------------------------------
(***************************************************************************)
(* The loop.                                                               *)
(***************************************************************************)
RetrySeconds == Min({2 ^ attempt, 30})

\* Mutant: the health check waits for the deadline, not the other way round.
WakeIn_Latest == CASE hint = "none"     -> Health
                   [] hint = "deadline" -> Max({Health, left})
                   [] hint = "retry"    -> Min({Health, RetrySeconds})

\* schedule_next_wake: the earlier of the health check and what the hint asks.
WakeIn == CASE hint = "none"     -> Health
            [] hint = "deadline" -> Min({Health, left})
            [] hint = "retry"    -> Min({Health, RetrySeconds})

\* After the (possibly long) reconciliation. Beyond 5 the counter makes no
\* difference to RetrySeconds.
Schedule ==
    /\ pc = "reconcile"
    /\ pc' = "asleep" /\ sleep' = WakeIn
    /\ attempt' = IF hint = "retry" THEN Min({attempt + 1, 5}) ELSE 0
    /\ UNCHANGED <<discovery, wanted, elapsed, world, history>>

NewPass == pc' = "pass" /\ elapsed' = FALSE

WakeOnTimer ==
    /\ pc = "asleep" /\ sleep = 0
    /\ NewPass
    /\ UNCHANGED <<discovery, wanted, attempt, sleep, world, history>>

\* SIGUSR1.
WakeOnRefresh ==
    /\ pc = "asleep"
    /\ NewPass /\ attempt' = 0
    /\ UNCHANGED <<discovery, wanted, sleep, world, history>>

\* A batch of notifications that calls for reconciliation.
WakeOnChange ==
    /\ pc = "asleep"
    /\ NewPass
    /\ UNCHANGED <<discovery, wanted, attempt, sleep, world, history>>

\* Mutant: the discovery is refreshed also without a resolved state.
RefreshDiscovery_Always ==
    /\ pc = "asleep"
    /\ NewPass /\ retained' = "none" /\ moved' = FALSE
    /\ UNCHANGED <<left, wanted, attempt, sleep, world, history>>

\* A batch after which the kernel chooses another source address than the
\* desired one: DiscoveryRuntime::invalidate.
RefreshDiscovery ==
    /\ pc = "asleep" /\ desired = "resolved" /\ outdated
    /\ NewPass /\ retained' = "none" /\ moved' = FALSE
    /\ UNCHANGED <<left, wanted, attempt, sleep, world, history>>
-------------------------------------------------------------------------------
(***************************************************************************)
(* Time and the world.                                                     *)
(***************************************************************************)
Less(time) == Max({time - 1, 0})

Tick ==
    /\ left' = Less(left) /\ sleep' = Less(sleep) /\ barred' = Less(barred)
    /\ elapsed' = TRUE
    /\ UNCHANGED <<pc, retained, moved, wanted, attempt, world, last, hidden>>

ChangeOverride ==
    /\ override' = ~override
    /\ UNCHANGED <<pc, discovery, wanted, timing, method, isp, ready, history>>

ChangeProvider ==
    /\ isp' \in Answers \ {isp}
    /\ UNCHANGED <<pc, discovery, wanted, timing, method, override, ready, history>>

ChangeReadiness ==
    /\ ready' = ~ready
    /\ UNCHANGED <<pc, discovery, wanted, timing, method, override, isp, history>>

\* Another interface or provider: the kernel chooses another source address.
ChangeSource ==
    /\ outdated' = (desired = "resolved")
    /\ moved' = (moved \/ retained # "none" \/ pc = "asking")
    /\ UNCHANGED <<pc, retained, left, desired, hint, timing, world, history>>

Daemon ==
    \/ UseOverride \/ NoDiscovery \/ Discover \/ Answer \/ AnswerUnspecified \/ Compute
    \/ Schedule \/ WakeOnTimer

Next ==
    \/ Daemon \/ WakeOnRefresh \/ WakeOnChange \/ RefreshDiscovery
    \/ Tick \/ ChangeOverride \/ ChangeProvider \/ ChangeReadiness
    \/ ChangeSource

Spec == Init /\ [][Next]_vars

\* The daemon takes its steps, awaits end, and time goes on.
FairSpec == Spec /\ WF_vars(Daemon) /\ WF_vars(Tick)
-------------------------------------------------------------------------------
\* The provider is asked again before the next attempt the protocol prescribed
\* is due only to refresh an offer: wake.rs says that retaining the result
\* "prevents network events and signals from causing an early protocol retry".
NoEarlyRetry ==
    [][ pc = "pass" /\ pc' = "asking" => barred = 0 \/ last = "available" ]_vars

\* The same, except where the operator's override has been in effect since: no
\* other order of signals, timers, network events and changes of the override
\* brings a request forward.
NoEarlyRetryUnlessHidden ==
    [][ pc = "pass" /\ pc' = "asking"
        => barred = 0 \/ last = "available" \/ hidden ]_vars

\* The timer does not start a pass at the very instant at which the last one
\* began, whatever deadlines it found: a result with a zero TTL, or one that
\* expires during the pass, causes no loop without pause.
NoSpin == pc = "asleep" /\ sleep = 0 => elapsed

\* A sleeping daemon passes again within the health interval, and no later than
\* the next attempt if it relies on a retained result that still is valid.
WakesInTime ==
    pc = "asleep" =>
        /\ sleep <= Health
        /\ hint = "deadline" => sleep <= left

\* An AFTR that the configuration or the operator gives for good is relied on,
\* and so is a provider that answers for good with an offer, however it failed
\* before; a provider that for good offers nothing is believed.
ServiceIsFound ==
    \/ <>[](ready /\ (override \/ method = "config"))
    \/ <>[](ready /\ isp = "available" /\ method = "hb46pp")
    => <>[](desired = "resolved")

NoServiceIsBelieved ==
    <>[](isp = "notFound" /\ ~override /\ method = "hb46pp") => <>[](desired = "absent")

\* What one network's provider has said is not relied on for ever on another,
\* even if the notification of the new source address is lost: another wake may
\* win the race with it, or a pass be under way. (Then network_change_action
\* finds the new address desired already, and the result stays for its time.)
LeavesOldNetwork == moved ~> ~moved \/ override
===============================================================================
