------------------------------ MODULE Lifecycle ------------------------------
(***************************************************************************)
(* The pure part of reconciliation (lifecycle.rs): comparing the tunnel    *)
(* observed in the kernel with the desired one, and the contract of the    *)
(* backend operations that carry a plan out (the TunnelBackend trait).     *)
(*                                                                         *)
(* An address, an MTU or an encapsulation limit is only ever compared for  *)
(* equality, so each is a member of an arbitrary set.                      *)
(***************************************************************************)
CONSTANTS
    Local, Remote,     \* IPv6 tunnel endpoints: this host's and the AFTR's
    Mtu, Limit,        \* link MTUs; encapsulation limits
    Absent,            \* no tunnel observed, or no tunnel wanted
    Unavailable,       \* Desired::Unavailable
    Unset,             \* an Option that is None in DesiredState
    Disabled           \* EncapsulationLimit::Disabled, and no limit observed

Tunnel == [local : Local, remote : Remote, mtu : Mtu,
           limit : Limit \cup {Disabled}, up : BOOLEAN]

DesiredState == [local : Local, remote : Remote, mtu : Mtu \cup {Unset},
                 limit : Limit \cup {Disabled, Unset}]

Observed == Tunnel \cup {Absent}
Desired  == DesiredState \cup {Absent, Unavailable}

\* The special values are none of the data they stand apart from.
ASSUME SpecialValues ==
    /\ Absent \notin Tunnel \cup DesiredState
    /\ Unavailable \notin DesiredState \cup {Absent}
    /\ Unset \notin Mtu \cup Limit \cup {Disabled}
    /\ Disabled \notin Limit

SameEndpoints(o, d) == o.local = d.local /\ o.remote = d.remote

\* TunnelUpdate: the mutable properties of o that d wants otherwise. An
\* unset property is left to the platform.
Changes(o, d) ==
    [mtu   |-> IF d.mtu = o.mtu THEN Unset ELSE d.mtu,
     limit |-> IF d.limit = o.limit THEN Unset ELSE d.limit,
     up    |-> ~o.up]

IsEmpty(c) == c.mtu = Unset /\ c.limit = Unset /\ ~c.up

\* Mutant: there is no update in place.
PlanResolved_NoUpdate(o, d) ==
    IF o = Absent THEN "create"
    ELSE IF SameEndpoints(o, d) /\ IsEmpty(Changes(o, d)) THEN "noop"
    ELSE "rebuild"

PlanResolved(o, d) ==
    IF o = Absent THEN "create"
    ELSE IF ~SameEndpoints(o, d) THEN "rebuild"
    ELSE IF IsEmpty(Changes(o, d)) THEN "noop"
    ELSE "update"

Plan(o, d) ==
    CASE d = Unavailable -> "keep"
      [] d = Absent      -> IF o = Absent THEN "noop" ELSE "teardown"
      [] OTHER           -> PlanResolved(o, d)

\* reconcile_once: what it asks of the backend. An update is for what an
\* observation, stale or not, differs in; a rebuild is a teardown and a setup.
UpdateCalls(d) ==
    {[op |-> "update", desired |-> d, changes |-> Changes(o, d)] :
        o \in {t \in Tunnel : PlanResolved(t, d) = "update"}}

Calls == [op : {"setup"}, desired : DesiredState]
         \cup (UNION {UpdateCalls(d) : d \in DesiredState})
         \cup {[op |-> "teardown"]}

\* TunnelBackend::setup: any tunnel a successful setup may leave. It is up,
\* and has the platform's value for each unset property.
Created(d) ==
    {t \in Tunnel : /\ SameEndpoints(t, d) /\ t.up
                    /\ d.mtu \in {Unset, t.mtu}
                    /\ d.limit \in {Unset, t.limit}}

\* What may be there after a setup for d, or a teardown of tunnel d, that fails
\* or is cut short: the illumos backend's steps have several requests each, and
\* removing what they have made may fail in turn.
Remnants(d) == {t \in Tunnel : SameEndpoints(t, d)}

\* TunnelBackend::update: what becomes of tunnel t by the changes c towards d.
\* The Linux backend sends a limit together with d's endpoints; these are not
\* t's if another program has changed t since the plan was made.
Updates(t, d, c) ==
    LET changed == [t EXCEPT !.mtu   = IF c.mtu = Unset THEN @ ELSE c.mtu,
                             !.limit = IF c.limit = Unset THEN @ ELSE c.limit,
                             !.up    = @ \/ c.up]
        moved   == [changed EXCEPT !.local = d.local, !.remote = d.remote]
    IN  {u \in {changed, moved} : c.limit = Unset => SameEndpoints(u, t)}

\* What has been done of c when an update fails. The illumos backend makes the
\* changes one by one, in this order.
Parts(c) ==
    {[mtu |-> Unset, limit |-> Unset, up |-> FALSE],
     [mtu |-> Unset, limit |-> c.limit, up |-> FALSE],
     [mtu |-> c.mtu, limit |-> c.limit, up |-> FALSE]}

\* What observing tunnel t tells of desired state d: nothing is left to do.
Matches(t, d) == Plan(t, d) \in {"noop", "keep"}
==============================================================================
