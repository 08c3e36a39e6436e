-------------------------- MODULE ReconcilerOnBackend --------------------------
(***************************************************************************)
(* The loop on a backend. Reconciler takes a backend call for one step.    *)
(* Here a call begins, lasts, and returns as Backend allows, or ends with  *)
(* the daemon, which is killed meanwhile; signals arrive, notifications    *)
(* are queued, addresses, DNS and the provider change. What is left out is *)
(* that another program touches the tunnel during a call, since Backend    *)
(* promises nothing of it then.                                            *)
(***************************************************************************)
EXTENDS Reconciler

\* No call.
Idle == [op |-> "none"]

VARIABLES call, result, alone   \* those of Backend

B == INSTANCE Backend

calling == <<call, result, alone>>
all     == <<vars, calling>>

\* reconcile_once: what the daemon asks for where it stands.
MustCall == MustSetUp \/ PlanIs("update") \/ MustTearDown

WantedCall ==
    IF MustSetUp THEN [op |-> "setup", desired |-> desired]
    ELSE IF PlanIs("update")
      THEN [op |-> "update", desired |-> desired, changes |-> Changes(observed, desired)]
    ELSE [op |-> "teardown"]

Begin ==
    /\ call = Idle /\ MustCall
    /\ call' = WantedCall /\ result' = "none" /\ alone' = TRUE
    /\ UNCHANGED vars

\* The call is for a tunnel that is not there, or for none where there is one.
Mistaken == (call.op = "setup") <=> tunnel # Absent

\* The call succeeds and the pass goes on, or it fails and the daemon ends, or
\* SIGKILL or a power failure ends both: it is then as far as a call that fails.
GoOn ==
    /\ pc' = CASE pc = "teardown"    -> "unlink"
               [] PlanIs("rebuild")  -> "rebuild"
               [] OTHER              -> "publish"
    /\ UNCHANGED <<memory, queued, exit, status, budget>>

GiveUp ==
    /\ Die("failed")
    /\ IF Mistaken THEN UNCHANGED budget ELSE Spend("failure")

Killed == Die("failed") /\ Spend("kill")

Returns ==
    /\ call # Idle /\ UNCHANGED world
    /\ \/ GoOn /\ (B!SetUp \/ B!Update \/ B!TearDown)
       \/ /\ GiveUp \/ Killed
          /\ B!SetUpFails \/ B!UpdateFails \/ B!TearDownFails \/ B!Refuse

\* Everything else the daemon does, it does between calls.
BetweenCalls ==
    /\ call = Idle
    /\ \/ StartDaemon \/ RemoveStatus \/ InstallHandlers \/ Subscribe
       \/ Observe \/ Discover \/ ResolveFails \/ Resolve \/ DoNothing \/ Publish
       \/ Shutdown \/ WakeOnRefresh \/ WakeOnTimer \/ BatchBegins \/ BatchEnds
       \/ Classify \/ ObserveLast \/ Finish \/ StepFails \/ Kill
    /\ UNCHANGED calling

AnyTime ==
    /\ \/ TimerExpires \/ GraceExpires \/ RequestRefresh \/ Noise \/ Terminate
       \/ ChangeRoute \/ ChangeDns \/ ChangeOffer
    /\ UNCHANGED calling

Others ==
    /\ call = Idle /\ (ChangeTunnel \/ MakeForeignTunnel \/ LosePlumbing)
    /\ alone' = FALSE /\ UNCHANGED <<call, result>>

CallingInit == Init /\ call = Idle /\ result = "none" /\ alone = TRUE

CallingNext == Begin \/ Returns \/ BetweenCalls \/ AnyTime \/ Others

CallingSpec == CallingInit /\ [][CallingNext]_all
================================================================================
