----------------------- MODULE ReconcilerOnBackend_proofs -----------------------
(***************************************************************************)
(* A backend call may be taken for one step, as Reconciler takes it: a     *)
(* loop whose calls last, on any backend that implements Backend, is a     *)
(* behaviour of Reconciler and of Backend.                                 *)
(***************************************************************************)
EXTENDS ReconcilerOnBackend, Reconciler_proofs

\* During a call the daemon still stands where the call was made, and nobody else
\* has touched the tunnel.
CallIsWanted == call # Idle => MustCall /\ call = WantedCall /\ alone = TRUE

CallingInv == DriftInv /\ PlumbedInv /\ CallIsWanted

\* Backend has its own instance of Lifecycle, with the same parameters.
LEMMA SameLifecycle ==
    /\ B!Observed = Observed /\ B!Calls = Calls
    /\ \A d : B!Created(d) = Created(d)
    /\ \A d : B!Remnants(d) = Remnants(d)
    /\ \A c : B!Parts(c) = Parts(c)
    /\ \A t, d, c : B!Updates(t, d, c) = Updates(t, d, c)
<1>1. /\ B!Tunnel = Tunnel /\ B!DesiredState = DesiredState
      /\ \A o, d : B!SameEndpoints(o, d) = SameEndpoints(o, d)
      /\ \A o, d : B!Changes(o, d) = Changes(o, d)
    BY DEF B!Tunnel, Tunnel, B!DesiredState, DesiredState,
           B!SameEndpoints, SameEndpoints, B!Changes, Changes
<1>2. \A c : B!IsEmpty(c) = IsEmpty(c)
    BY DEF B!IsEmpty, IsEmpty
<1>3. \A o, d : B!PlanResolved(o, d) = PlanResolved(o, d)
    BY <1>1, <1>2 DEF B!PlanResolved, PlanResolved
<1>4. \A d : B!UpdateCalls(d) = UpdateCalls(d)
    BY <1>1, <1>3 DEF B!UpdateCalls, UpdateCalls
<1>5. B!Observed = Observed /\ B!Calls = Calls
    BY <1>1, <1>4 DEF B!Observed, Observed, B!Calls, Calls
<1>6. /\ \A d : B!Created(d) = Created(d)
      /\ \A d : B!Remnants(d) = Remnants(d)
      /\ \A c : B!Parts(c) = Parts(c)
    BY <1>1 DEF B!Created, Created, B!Remnants, Remnants, B!Parts, Parts
<1>7. \A t, d, c : B!Updates(t, d, c) = Updates(t, d, c)
    BY <1>1 DEF B!Updates, Updates
<1>8. QED BY <1>5, <1>6, <1>7

\* What the daemon calls for is a call the trait has.
LEMMA WantedType ==
    ASSUME DriftInv, MustCall
    PROVE  /\ WantedCall \in Calls /\ WantedCall # Idle
           /\ MustSetUp <=> WantedCall.op = "setup"
           /\ PlanIs("update") <=> WantedCall.op = "update"
           /\ MustTearDown <=> WantedCall.op = "teardown"
           /\ ~MustTearDown => WantedCall.desired = desired /\ desired \in DesiredState
           /\ PlanIs("update") => WantedCall.changes = Changes(observed, desired)
                                  /\ observed \in Tunnel
<1>1. observed \in Observed /\ desired \in Desired
    BY DEF DriftInv, TypeOK
<1>2. CASE MustSetUp
    <2>1. ~PlanIs("update") /\ ~MustTearDown
        BY <1>2 DEF MustSetUp, MustTearDown, PlanIs
    <2>2. desired \in DesiredState
        BY <1>1, <1>2, PlanTells DEF MustSetUp, PlanIs, DriftInv, RebuildIsResolved
    <2>3. WantedCall = [op |-> "setup", desired |-> desired]
        BY <1>2 DEF WantedCall
    <2>4. QED BY <1>2, <2>1, <2>2, <2>3 DEF Calls, Idle
<1>3. CASE PlanIs("update")
    <2>1. ~MustSetUp /\ ~MustTearDown
        BY <1>3 DEF MustSetUp, MustTearDown, PlanIs
    <2>2. desired \in DesiredState /\ observed \in Tunnel
        BY <1>1, <1>3, PlanTells DEF PlanIs
    <2>3. WantedCall = [op |-> "update", desired |-> desired,
                        changes |-> Changes(observed, desired)]
        BY <1>3, <2>1 DEF WantedCall
    <2>4. PlanResolved(observed, desired) = "update"
        BY <1>3, <2>2, SpecialValues DEF PlanIs, Plan
    <2>5. WantedCall \in UpdateCalls(desired)
        BY <2>2, <2>3, <2>4 DEF UpdateCalls
    <2>6. WantedCall \in Calls
        BY <2>2, <2>5 DEF Calls
    <2>7. QED BY <1>3, <2>1, <2>2, <2>3, <2>6 DEF Idle
<1>4. CASE MustTearDown
    <2>1. ~MustSetUp /\ ~PlanIs("update")
        BY <1>4 DEF MustSetUp, MustTearDown, PlanIs
    <2>2. WantedCall = [op |-> "teardown"]
        BY <2>1 DEF WantedCall
    <2>3. QED BY <1>4, <2>1, <2>2 DEF Calls, Idle
<1>5. QED BY <1>2, <1>3, <1>4 DEF MustCall
-------------------------------------------------------------------------------
(***************************************************************************)
(* The return of a call is a step of Reconciler.                           *)
(***************************************************************************)
\* To fail before anything is done is one of the ways to fail halfway.
LEMMA NothingDone ==
    ASSUME NEW t \in Tunnel, NEW o \in Tunnel, NEW d \in DesiredState
    PROVE  /\ t \in Remnants(t)
           /\ \E part \in Parts(Changes(o, d)) : t \in Updates(t, d, part)
<1> DEFINE None == [mtu |-> Unset, limit |-> Unset, up |-> FALSE]
<1>1. t \in Remnants(t)
    BY DEF Remnants, SameEndpoints
<1>2. None \in Parts(Changes(o, d))
    BY DEF Parts
<1>3. [t EXCEPT !.mtu = t.mtu, !.limit = t.limit, !.up = t.up \/ FALSE] = t
    BY DEF Tunnel
<1>4. t \in Updates(t, d, None)
    BY <1>3 DEF Updates, SameEndpoints
<1>5. QED BY <1>1, <1>2, <1>4

LEMMA SuccessIsAStep ==
    ASSUME CallingInv, Returns, GoOn, B!SetUp \/ B!Update \/ B!TearDown
    PROVE  SetUp \/ Update \/ TearDown
<1>1. MustCall /\ call = WantedCall
    BY DEF Returns, CallingInv, CallIsWanted
<1>2. DriftInv
    BY DEF CallingInv
<1>3. CASE B!SetUp
    <2>1. MustSetUp /\ call.desired = desired /\ ~PlanIs("rebuild") /\ pc # "teardown"
        BY <1>1, <1>2, <1>3, WantedType
        DEF B!SetUp, MustSetUp, MustTearDown, PlanIs
    <2>2. QED
        BY <1>3, <2>1, SameLifecycle DEF B!SetUp, SetUp, GoOn, Returns
<1>4. CASE B!Update
    <2>1. /\ PlanIs("update") /\ call.desired = desired
          /\ call.changes = Changes(observed, desired)
          /\ ~PlanIs("rebuild") /\ pc # "teardown"
        BY <1>1, <1>2, <1>4, WantedType
        DEF B!Update, MustSetUp, MustTearDown, PlanIs
    <2>2. QED
        BY <1>4, <2>1, SameLifecycle DEF B!Update, Update, GoOn, Returns
<1>5. CASE B!TearDown
    <2>1. MustTearDown
        BY <1>1, <1>2, <1>5, WantedType DEF B!TearDown
    <2>2. QED
        BY <1>5, <2>1 DEF B!TearDown, TearDown, GoOn, Returns
<1>6. QED BY <1>3, <1>4, <1>5

LEMMA RefusalIsAStep ==
    ASSUME CallingInv, Returns, GiveUp, B!Refuse
    PROVE  SetUpCollides \/ Vanished \/ SetUpFails \/ UpdateFails \/ TearDownFails
<1>1. MustCall /\ call = WantedCall
    BY DEF Returns, CallingInv, CallIsWanted
<1>2. DriftInv /\ tunnel \in Observed /\ (plumbed => tunnel # Absent) /\ plumbed \in BOOLEAN
    BY DEF CallingInv, PlumbedInv, PlumbedUnlessDisturbed, TypeOK
<1>3. UNCHANGED <<tunnel, plumbed, world>> /\ Die("failed")
    BY DEF B!Refuse, Returns, GiveUp
<1>4. Mistaken => UNCHANGED budget
    BY DEF GiveUp
<1>5. ~Mistaken => Interrupted
    BY DEF GiveUp, Interrupted
<1>6. CASE MustSetUp
    <2>1. Mistaken <=> tunnel # Absent
        BY <1>1, <1>2, <1>6, WantedType DEF Mistaken
    <2>2. tunnel # Absent => SetUpCollides
        BY <1>3, <1>4, <1>6, <2>1 DEF SetUpCollides, world
    <2>3. tunnel = Absent => /\ tunnel' \in Remnants(desired) \cup {Absent}
                             /\ plumbed' \in BOOLEAN /\ ~plumbed'
        BY <1>2, <1>3
    <2>4. tunnel = Absent => SetUpFails
        BY <1>3, <1>5, <1>6, <2>1, <2>3, Zenon DEF SetUpFails
    <2>5. QED BY <2>2, <2>4
<1>7. CASE PlanIs("update")
    <2>1. Mistaken <=> tunnel = Absent
        BY <1>1, <1>2, <1>7, WantedType DEF Mistaken
    <2>2. tunnel = Absent => Vanished
        BY <1>3, <1>4, <1>7, <2>1 DEF Vanished
    <2>3. desired \in DesiredState /\ observed \in Tunnel
        BY <1>1, <1>2, <1>7, WantedType DEF MustSetUp, MustTearDown, PlanIs
    <2>4. tunnel # Absent => \E part \in Parts(Changes(observed, desired)) :
                                tunnel \in Updates(tunnel, desired, part)
        BY <1>2, <2>3, NothingDone DEF Observed
    <2>5. tunnel # Absent => UpdateFails
        BY <1>3, <1>5, <1>7, <2>1, <2>4 DEF UpdateFails
    <2>6. QED BY <2>2, <2>5
<1>8. CASE MustTearDown
    <2>1. Mistaken <=> tunnel = Absent
        BY <1>1, <1>2, <1>8, WantedType DEF Mistaken
    <2>2. tunnel = Absent => Vanished
        BY <1>3, <1>4, <1>8, <2>1 DEF Vanished
    <2>3. tunnel # Absent => tunnel \in Remnants(tunnel)
        BY <1>2 DEF Remnants, SameEndpoints, Observed
    <2>4. tunnel # Absent => TearDownFails
        BY <1>3, <1>5, <1>8, <2>1, <2>3 DEF TearDownFails
    <2>5. QED BY <2>2, <2>4
<1>9. QED BY <1>1, <1>6, <1>7, <1>8 DEF MustCall

LEMMA FailureIsAStep ==
    ASSUME CallingInv, Returns, GiveUp \/ Killed,
           B!SetUpFails \/ B!UpdateFails \/ B!TearDownFails
    PROVE  SetUpFails \/ UpdateFails \/ TearDownFails
<1>1. MustCall /\ call = WantedCall /\ DriftInv /\ UNCHANGED world
    BY DEF Returns, CallingInv, CallIsWanted
<1>2. CASE B!SetUpFails
    <2>1. MustSetUp /\ call.desired = desired
        BY <1>1, <1>2, WantedType DEF B!SetUpFails, MustSetUp, MustTearDown, PlanIs
    <2>2. Die("failed") /\ Interrupted
        BY <1>2 DEF B!SetUpFails, Mistaken, GiveUp, Killed, Interrupted
    <2>3. QED BY <1>1, <1>2, <2>1, <2>2, SameLifecycle DEF B!SetUpFails, SetUpFails
<1>3. CASE B!UpdateFails
    <2>1. /\ PlanIs("update") /\ call.desired = desired
          /\ call.changes = Changes(observed, desired)
        BY <1>1, <1>3, WantedType DEF B!UpdateFails, MustSetUp, MustTearDown, PlanIs
    <2>2. Die("failed") /\ Interrupted
        BY <1>3 DEF B!UpdateFails, Mistaken, GiveUp, Killed, Interrupted
    <2>3. QED BY <1>1, <1>3, <2>1, <2>2, SameLifecycle DEF B!UpdateFails, UpdateFails
<1>4. CASE B!TearDownFails
    <2>1. MustTearDown
        BY <1>1, <1>4, WantedType DEF B!TearDownFails
    <2>2. Die("failed") /\ Interrupted
        BY <1>4 DEF B!TearDownFails, Mistaken, GiveUp, Killed, Interrupted
    <2>3. QED BY <1>1, <1>4, <2>1, <2>2, SameLifecycle DEF B!TearDownFails, TearDownFails
<1>5. QED BY <1>2, <1>3, <1>4

\* A daemon that is killed before the call has done anything might as well have been
\* killed before the call.
LEMMA KilledIsAStep ==
    ASSUME CallingInv, Returns, Killed, B!Refuse
    PROVE  Kill
<1>1. MustCall
    BY DEF Returns, CallingInv, CallIsWanted
<1>2. pc # "off"
    BY <1>1 DEF MustCall, MustSetUp, MustTearDown, PlanIs
<1>3. QED BY <1>2 DEF Killed, Kill, Returns, B!Refuse

LEMMA ReturnIsAStep ==
    ASSUME CallingInv, Returns
    PROVE  Next
<1>1. CASE GoOn /\ (B!SetUp \/ B!Update \/ B!TearDown)
    BY <1>1, SuccessIsAStep DEF Next, Daemon
<1>2. CASE (GiveUp \/ Killed) /\ (B!SetUpFails \/ B!UpdateFails \/ B!TearDownFails)
    BY <1>2, FailureIsAStep DEF Next, Faults
<1>3. CASE GiveUp /\ B!Refuse
    BY <1>3, RefusalIsAStep DEF Next, Daemon, Faults
<1>4. CASE Killed /\ B!Refuse
    BY <1>4, KilledIsAStep DEF Next, Faults
<1>5. QED BY <1>1, <1>2, <1>3, <1>4 DEF Returns

\* A step of the loop with lasting calls is a step of the loop, or of none of its
\* variables.
LEMMA LoopStep ==
    ASSUME CallingInv, [CallingNext]_all
    PROVE  [Next]_vars
<1>1. CASE Begin
    BY <1>1 DEF Begin
<1>2. CASE Returns
    BY <1>2, ReturnIsAStep
<1>3. CASE BetweenCalls
    BY <1>3 DEF BetweenCalls, Next, Daemon, Faults
<1>4. CASE AnyTime
    BY <1>4 DEF AnyTime, Next, Faults, World
<1>5. CASE Others
    BY <1>5 DEF Others, Next, World
<1>6. CASE UNCHANGED all
    BY <1>6 DEF all
<1>7. QED BY <1>1, <1>2, <1>3, <1>4, <1>5, <1>6 DEF CallingNext

\* During a call the daemon does not move, and what it has asked for stays as it was.
LEMMA WantedStep ==
    ASSUME CallingInv, [CallingNext]_all
    PROVE  CallIsWanted'
<1>1. CASE Begin
    <2>1. UNCHANGED <<pc, observed, desired>>
        BY <1>1 DEF Begin, vars, memory
    <2>2. MustCall' /\ WantedCall' = WantedCall
        BY <1>1, <2>1 DEF Begin, MustCall, WantedCall, MustSetUp, MustTearDown, PlanIs
    <2>3. QED BY <1>1, <2>2 DEF Begin, CallIsWanted
<1>2. CASE Returns
    <2>1. call' = Idle
        BY <1>2 DEF Returns, B!SetUp, B!Update, B!TearDown, B!SetUpFails,
               B!UpdateFails, B!TearDownFails, B!Refuse, B!Return
    <2>2. QED BY <2>1 DEF CallIsWanted
<1>3. CASE BetweenCalls \/ Others
    BY <1>3 DEF BetweenCalls, Others, calling, CallIsWanted
<1>4. CASE AnyTime /\ call # Idle
    <2>1. pc \in {"reconcile", "rebuild", "teardown"}
        BY <1>4 DEF CallingInv, CallIsWanted, MustCall, MustSetUp, MustTearDown, PlanIs
    <2>2. UNCHANGED <<pc, observed, desired, calling>>
        BY <1>4, <2>1 DEF AnyTime, TimerExpires, GraceExpires, RequestRefresh, Noise,
               Terminate, Listening, Loop, ChangeRoute, ChangeDns, ChangeOffer, memory
    <2>3. UNCHANGED <<MustCall, WantedCall>>
        BY <2>2 DEF MustCall, WantedCall, MustSetUp, MustTearDown, PlanIs
    <2>4. QED BY <2>2, <2>3 DEF CallingInv, CallIsWanted, calling
<1>5. CASE AnyTime /\ call = Idle
    BY <1>5 DEF AnyTime, calling, CallIsWanted
<1>6. CASE UNCHANGED all
    <2>1. UNCHANGED <<pc, observed, desired, calling>>
        BY <1>6 DEF all, vars, memory
    <2>2. UNCHANGED <<MustCall, WantedCall>>
        BY <2>1 DEF MustCall, WantedCall, MustSetUp, MustTearDown, PlanIs
    <2>3. QED BY <2>1, <2>2 DEF CallingInv, CallIsWanted, calling
<1>7. QED BY <1>1, <1>2, <1>3, <1>4, <1>5, <1>6 DEF CallingNext

LEMMA CallingInvInit == CallingInit => CallingInv
<1>1. Init => PlumbedInv
    BY EndInit DEF EndInv, Init, PlumbedInv, PlumbedUnlessDisturbed
<1>2. QED BY <1>1, DriftInit DEF CallingInit, CallingInv, CallIsWanted

LEMMA CallingInvStep == CallingInv /\ [CallingNext]_all => CallingInv'
    BY LoopStep, WantedStep, DriftStep, PlumbedStep DEF CallingInv
-------------------------------------------------------------------------------
(***************************************************************************)
(* The two refinements.                                                    *)
(***************************************************************************)
\* A step of the loop with lasting calls is one that Backend allows.
LEMMA BackendStep ==
    ASSUME CallingInv, [CallingNext]_all
    PROVE  [B!Next]_(B!vars)
<1>0. TypeOK' /\ (plumbed' => tunnel' # Absent)
    BY CallingInvStep DEF CallingInv, PlumbedInv, PlumbedUnlessDisturbed
<1>1. CASE Begin
    <2>1. call' \in B!Calls
        BY <1>1, WantedType, SameLifecycle DEF Begin, CallingInv
    <2>2. B!Call
        BY <1>1, <2>1 DEF Begin, B!Call, vars
    <2>3. QED BY <2>2 DEF B!Next
<1>2. CASE Returns
    BY <1>2 DEF Returns, B!Next
<1>3. CASE BetweenCalls
    <2>1. UNCHANGED <<tunnel, plumbed>>
        BY <1>3 DEF BetweenCalls, StartDaemon, RemoveStatus, InstallHandlers, Subscribe,
               Observe, Discover, ResolveFails, Resolve, DoNothing, Publish, Shutdown,
               WakeOnRefresh, WakeOnTimer, BatchBegins, BatchEnds, Classify,
               ObserveLast, Finish, StepFails, Kill
    <2>2. QED BY <1>3, <2>1 DEF BetweenCalls, calling, B!vars
<1>4. CASE AnyTime
    <2>1. UNCHANGED <<tunnel, plumbed>>
        BY <1>4 DEF AnyTime, TimerExpires, GraceExpires, RequestRefresh, Noise,
               Terminate, ChangeRoute, ChangeDns, ChangeOffer
    <2>2. QED BY <1>4, <2>1 DEF AnyTime, calling, B!vars
<1>5. CASE Others
    <2>1. tunnel' \in B!Observed /\ plumbed' \in BOOLEAN
        BY <1>0, SameLifecycle DEF TypeOK
    <2>2. B!Others
        BY <1>0, <1>5, <2>1 DEF Others, B!Others
    <2>3. QED BY <2>2 DEF B!Next
<1>6. CASE UNCHANGED all
    BY <1>6 DEF all, vars, calling, B!vars
<1>7. QED BY <1>1, <1>2, <1>3, <1>4, <1>5, <1>6 DEF CallingNext

\* What is checked of the loop with calls of one step holds of calls that last, while
\* signals, notifications, addresses, DNS and the provider move during them.
THEOREM CallsMayBeAtomic == CallingSpec => Spec
<1>1. CallingInit => Init
    BY DEF CallingInit
<1>2. QED BY <1>1, CallingInvInit, CallingInvStep, LoopStep, PTL DEF CallingSpec, Spec

\* The loop asks a backend only for what the trait has, one call at a time, and relies
\* on no more than Backend promises.
THEOREM LoopKeepsToTheTrait == CallingSpec => B!Spec
<1>1. CallingInit => B!Init
    BY CallingInvInit, SameLifecycle
    DEF CallingInit, B!Init, CallingInv, PlumbedInv, PlumbedUnlessDisturbed, TypeOK
<1>2. QED
    BY <1>1, CallingInvInit, CallingInvStep, BackendStep, PTL DEF CallingSpec, B!Spec
=================================================================================
