-------------------------------- MODULE Backend --------------------------------
(***************************************************************************)
(* What reconciliation relies on in a TunnelBackend (tunnel/mod.rs): a     *)
(* call takes effect at once when it returns, and its outcome is one of    *)
(* those of Reconciler's actions. Nothing is promised of a call during     *)
(* which another program has touched the tunnel.                           *)
(***************************************************************************)
EXTENDS Lifecycle

CONSTANT Idle          \* no call

VARIABLES
    tunnel, plumbed,   \* the link; its IPv4 address and default route
    call,              \* what has been called
    result,            \* how the last call ended
    alone              \* nobody else has touched the tunnel since the call

vars == <<tunnel, plumbed, call, result, alone>>

Init ==
    /\ tunnel \in Observed /\ plumbed \in BOOLEAN /\ (plumbed => tunnel # Absent)
    /\ call = Idle /\ result = "none" /\ alone = TRUE

Call ==
    /\ call = Idle /\ call' \in Calls
    /\ result' = "none" /\ alone' = TRUE
    /\ UNCHANGED <<tunnel, plumbed>>

Return(outcome) ==
    /\ call # Idle /\ alone
    /\ call' = Idle /\ result' = outcome
    /\ UNCHANGED alone

SetUp ==
    /\ Return("ok") /\ call.op = "setup" /\ tunnel = Absent
    /\ tunnel' \in Created(call.desired) /\ plumbed' = TRUE

\* What setup has made is rolled back if it can be.
SetUpFails ==
    /\ Return("failed") /\ call.op = "setup" /\ tunnel = Absent
    /\ tunnel' \in Remnants(call.desired) \cup {Absent}
    /\ plumbed' \in BOOLEAN /\ (plumbed' => tunnel' # Absent)

Update ==
    /\ Return("ok") /\ call.op = "update" /\ tunnel # Absent
    /\ tunnel' \in Updates(tunnel, call.desired, call.changes)
    /\ UNCHANGED plumbed

UpdateFails ==
    /\ Return("failed") /\ call.op = "update" /\ tunnel # Absent
    /\ \E part \in Parts(call.changes) :
          tunnel' \in Updates(tunnel, call.desired, part)
    /\ UNCHANGED plumbed

TearDown ==
    /\ Return("ok") /\ call.op = "teardown" /\ tunnel # Absent
    /\ tunnel' = Absent /\ plumbed' = FALSE

TearDownFails ==
    /\ Return("failed") /\ call.op = "teardown" /\ tunnel # Absent
    /\ tunnel' \in Remnants(tunnel) /\ plumbed' \in {FALSE, plumbed}

\* A setup that collides with a tunnel, an update or teardown of none, or a
\* call that fails before it has done anything.
Refuse == Return("failed") /\ UNCHANGED <<tunnel, plumbed>>

\* Another program moves: between calls, or during one, which may then end anyhow.
Others ==
    /\ tunnel' \in Observed /\ plumbed' \in BOOLEAN
    /\ plumbed' => tunnel' # Absent
    /\ alone' = FALSE
    /\ \/ UNCHANGED <<call, result>>
       \/ ~alone /\ call # Idle /\ call' = Idle /\ result' \in {"ok", "failed"}

Next ==
    \/ Call \/ SetUp \/ SetUpFails \/ Update \/ UpdateFails \/ TearDown
    \/ TearDownFails \/ Refuse \/ Others

Spec == Init /\ [][Next]_vars
================================================================================
