-------------------------- MODULE Reconciler_proofs --------------------------
(***************************************************************************)
(* Proofs about the planning functions and the reconciliation loop.        *)
(***************************************************************************)
EXTENDS Reconciler, TLAPS

(***************************************************************************)
(* Lemmas on planning.                                                     *)
(***************************************************************************)
\* A plan other than to keep or do nothing says what was observed and wanted.
LEMMA PlanTells ==
    ASSUME NEW o \in Observed, NEW d \in Desired
    PROVE  /\ Plan(o, d) \in {"create", "update", "rebuild"} => d \in DesiredState
           /\ Plan(o, d) = "create" => o = Absent
           /\ Plan(o, d) \in {"update", "rebuild", "teardown"} => o \in Tunnel
           /\ Plan(o, d) = "teardown" => d = Absent
           /\ Plan(o, d) = "update" => SameEndpoints(o, d)
    BY SpecialValues DEF Plan, PlanResolved, Observed, Desired

\* What a setup leaves needs no further reconciliation.
LEMMA CreatedMatches ==
    ASSUME NEW d \in DesiredState, NEW t \in Created(d)
    PROVE  t \in Tunnel /\ Matches(t, d) /\ SameEndpoints(t, d)
<1>1. t \in Tunnel /\ SameEndpoints(t, d) /\ t.up
    BY DEF Created
<1>2. IsEmpty(Changes(t, d))
    BY <1>1 DEF Created, IsEmpty, Changes
<1>3. t # Absent /\ d # Absent /\ d # Unavailable
    BY <1>1, SpecialValues
<1>4. QED BY <1>1, <1>2, <1>3 DEF Matches, Plan, PlanResolved

\* What an update leaves of the observed tunnel needs no further reconciliation.
LEMMA UpdatedMatches ==
    ASSUME NEW d \in DesiredState, NEW o \in Tunnel, SameEndpoints(o, d),
           NEW t \in Updates(o, d, Changes(o, d))
    PROVE  Matches(t, d)
<1>1. t \in Tunnel /\ SameEndpoints(t, d) /\ t.up
    BY DEF Updates, Changes, Tunnel, DesiredState, SameEndpoints
<1>2. d.mtu \in {Unset, t.mtu} /\ d.limit \in {Unset, t.limit}
    BY DEF Updates, Changes, Tunnel, DesiredState
<1>3. QED BY <1>1, <1>2, CreatedMatches DEF Created

\* An update, whole or in part, never removes the tunnel.
LEMMA UpdatedType ==
    ASSUME NEW d \in DesiredState, NEW o \in Tunnel, NEW t \in Tunnel,
           NEW c \in Parts(Changes(o, d)) \cup {Changes(o, d)}
    PROVE  Updates(t, d, c) \subseteq Tunnel
<1> DEFINE Change == [mtu : Mtu \cup {Unset}, limit : Limit \cup {Disabled, Unset},
                      up : BOOLEAN]
<1>1. Changes(o, d) \in Change
    BY DEF Changes, Tunnel, DesiredState
<1>2. ASSUME NEW whole \in Change PROVE Parts(whole) \subseteq Change
    BY DEF Parts
<1>3. c \in Change
    BY <1>1, <1>2
<1>4. QED BY <1>3 DEF Updates, Tunnel, DesiredState

(***************************************************************************)
(* Type correctness.                                                       *)
(***************************************************************************)
LEMMA SpecialType ==
    /\ Absent \in Observed /\ Absent \in Desired /\ Unavailable \in Desired
    /\ Tunnel \subseteq Observed
    BY DEF Observed, Desired

LEMMA NotifiesType == KernelNotifies => queued' \in BOOLEAN
    BY DEF KernelNotifies, Listening

LEMMA SpendType ==
    ASSUME budget \in [Kinds -> Nat], NEW kind \in Kinds, Spend(kind)
    PROVE  budget' \in [Kinds -> Nat]
    BY DEF Spend

LEMMA InterruptedType ==
    ASSUME TypeOK, Interrupted
    PROVE  budget' \in [Kinds -> Nat]
    BY SpendType DEF Interrupted, TypeOK, Kinds

LEMMA EndType ==
    ASSUME NEW how \in {"clean", "killed", "failed"}, End(how)
    PROVE  /\ pc' = "off" /\ exit' = how /\ observed' \in Observed
           /\ desired' \in Desired /\ candidates' \in SUBSET Remote
           /\ missing' \in {"no", "counting", "over"}
           /\ window' \in BOOLEAN /\ due' \in BOOLEAN /\ refresh' \in BOOLEAN
           /\ term' \in BOOLEAN /\ queued' \in BOOLEAN
    BY DEF End, Forget, Observed, Desired

LEMMA DieType ==
    ASSUME TypeOK, NEW how \in {"clean", "killed", "failed"}, Die(how)
    PROVE  /\ pc' = "off" /\ exit' = how /\ observed' \in Observed
           /\ desired' \in Desired /\ candidates' \in SUBSET Remote
           /\ missing' \in {"no", "counting", "over"}
           /\ window' \in BOOLEAN /\ due' \in BOOLEAN /\ refresh' \in BOOLEAN
           /\ term' \in BOOLEAN /\ queued' \in BOOLEAN
           /\ status' \in {"none", "own", "previous"}
    BY EndType DEF Die, TypeOK

\* Everything a pass computes is a desired state.
LEMMA DesiredForType ==
    ASSUME TypeOK, NEW remote \in Remote
    PROVE  /\ DesiredFor(remote) \in DesiredState \cup {Unavailable}
           /\ DesiredFor(remote) \in DesiredState =>
                  DesiredFor(remote).local = LocalV6
    BY ConfigAssumption, SpecialValues
    DEF DesiredFor, LocalV6, TypeOK, DesiredState

LEMMA SelectType ==
    ASSUME TypeOK, NEW first \in Remote, NEW m \in BOOLEAN, NEW over \in BOOLEAN
    PROVE  Select(dns, first, CurrentAftr, m, over).aftr \in Remote
<1>1. CurrentAftr \in Remote \cup {NoAddr}
    BY DEF CurrentAftr, TypeOK, Observed, Tunnel
<1> DEFINE choice == Select(dns, first, CurrentAftr, m, over)
<1>2. \/ choice = [aftr |-> first, missing |-> FALSE]
      \/ /\ CurrentAftr # NoAddr
         /\ \/ choice = [aftr |-> CurrentAftr, missing |-> FALSE]
            \/ choice = [aftr |-> CurrentAftr, missing |-> TRUE]
    <2>1. CASE CurrentAftr = NoAddr
        BY <2>1 DEF Select
    <2>2. CASE CurrentAftr # NoAddr
        BY <2>2, ConfigAssumption DEF Select
    <2>3. QED BY <2>1, <2>2
<1>3. QED BY <1>1, <1>2

\* The state a step leaves is well typed.
LEMMA TypeStep == TypeOK /\ [Next]_vars => TypeOK'
<1> SUFFICES ASSUME TypeOK, [Next]_vars PROVE TypeOK'
    OBVIOUS
<1> USE DEF memory, world
<1>1. CASE StartDaemon \/ RemoveStatus \/ InstallHandlers \/ Subscribe
    BY <1>1 DEF TypeOK, Start, Loop, StartDaemon, RemoveStatus,
                InstallHandlers, Subscribe
<1>2. CASE Observe \/ Discover \/ ResolveFails
    BY <1>2, SpecialType DEF TypeOK, Loop, Observe, Discover, ResolveFails
<1>3. CASE Resolve
    <2>1. PICK first \in dns :
              LET choice == Select(dns, first, CurrentAftr, missing # "no",
                                   missing = "over")
              IN  /\ desired' = DesiredFor(choice.aftr)
                  /\ missing' = CASE ~choice.missing  -> "no"
                                  [] missing = "over" -> "over"
                                  [] OTHER            -> "counting"
        BY <1>3 DEF Resolve
    <2> DEFINE choice == Select(dns, first, CurrentAftr, missing # "no",
                                missing = "over")
    <2>2. choice.aftr \in Remote
        BY SelectType DEF TypeOK
    <2>3. desired' \in Desired
        BY <2>1, <2>2, DesiredForType DEF Desired
    <2>4. missing' \in {"no", "counting", "over"}
        BY <2>1
    <2>5. QED
        BY <1>3, <2>3, <2>4 DEF Resolve, TypeOK, Loop
<1>4. CASE DoNothing \/ SetUp
    <2>1. CASE DoNothing
        BY <2>1 DEF TypeOK, Loop, DoNothing
    <2>2. CASE SetUp
        <3>1. tunnel' \in Observed
            BY <2>2, SpecialType DEF SetUp, Created
        <3>2. QED BY <2>2, <3>1 DEF TypeOK, Loop, SetUp
    <2>3. QED BY <1>4, <2>1, <2>2
<1>5. CASE SetUpCollides \/ Vanished
    BY <1>5, DieType DEF TypeOK, SetUpCollides, Vanished
<1>6. CASE SetUpFails
    <2>1. tunnel' \in Observed /\ plumbed' \in BOOLEAN
        BY <1>6 DEF SetUpFails, Remnants, Observed
    <2>2. budget' \in [Kinds -> Nat]
        BY <1>6, InterruptedType DEF SetUpFails
    <2>3. QED
        BY <1>6, <2>1, <2>2, DieType DEF TypeOK, SetUpFails
<1>7. CASE Update
    <2>1. /\ observed \in Tunnel /\ desired \in DesiredState
          /\ tunnel \in Tunnel
        BY <1>7, PlanTells DEF Update, PlanIs, TypeOK, Observed
    <2>2. tunnel' \in Observed
        BY <1>7, <2>1, UpdatedType DEF Update, Observed
    <2>3. QED BY <1>7, <2>2 DEF TypeOK, Loop, Update
<1>18. CASE UpdateFails
    <2>1. /\ observed \in Tunnel /\ desired \in DesiredState
          /\ tunnel \in Tunnel
        BY <1>18, PlanTells DEF UpdateFails, PlanIs, TypeOK, Observed
    <2>2. tunnel' \in Observed
        BY <1>18, <2>1, UpdatedType DEF UpdateFails, Observed
    <2>3. budget' \in [Kinds -> Nat]
        BY <1>18, InterruptedType DEF UpdateFails
    <2>4. QED BY <1>18, <2>2, <2>3, DieType DEF TypeOK, UpdateFails
<1>19. CASE TearDownFails
    <2>1. budget' \in [Kinds -> Nat]
        BY <1>19, InterruptedType DEF TearDownFails
    <2>2. tunnel' \in Observed
        BY <1>19 DEF TearDownFails, Remnants, Observed
    <2>3. QED BY <1>19, <2>1, <2>2, DieType DEF TypeOK, TearDownFails
<1>8. CASE TearDown
    <2>1. pc' \in Loop
        BY <1>8 DEF TearDown, Loop
    <2>2. QED BY <1>8, <2>1, SpecialType DEF TypeOK, TearDown
<1>9. CASE Publish \/ Shutdown \/ WakeOnRefresh \/ WakeOnTimer
    <2>1. CASE Publish
        BY <2>1, SpecialType DEF TypeOK, Loop, Publish
    <2>2. CASE Shutdown
        BY <2>2 DEF TypeOK, Loop, Shutdown
    <2>3. CASE WakeOnRefresh \/ WakeOnTimer
        BY <2>3 DEF TypeOK, Loop, WakeOnRefresh, WakeOnTimer, NextPass
    <2>4. QED BY <1>9, <2>1, <2>2, <2>3
<1>10. CASE BatchBegins \/ BatchEnds \/ Classify
    <2>1. CASE BatchBegins
        BY <2>1 DEF TypeOK, BatchBegins
    <2>2. CASE BatchEnds
        BY <2>2 DEF TypeOK, Loop, BatchEnds
    <2>3. CASE Classify
        <3>1. CASE Relevant
            BY <2>3, <3>1 DEF TypeOK, Loop, Classify, NextPass
        <3>2. CASE ~Relevant
            BY <2>3, <3>2 DEF TypeOK, Loop, Classify
        <3>3. QED BY <3>1, <3>2
    <2>4. QED BY <1>10, <2>1, <2>2, <2>3
<1>11. CASE ObserveLast
    BY <1>11 DEF TypeOK, Loop, ObserveLast
<1>12. CASE Finish
    BY <1>12, EndType DEF TypeOK, Finish
<1>13. CASE TimerExpires \/ GraceExpires \/ RequestRefresh \/ Noise
    <2>1. CASE TimerExpires
        BY <2>1 DEF TypeOK, TimerExpires
    <2>2. CASE GraceExpires
        BY <2>2 DEF TypeOK, GraceExpires
    <2>3. CASE RequestRefresh
        BY <2>3 DEF TypeOK, RequestRefresh
    <2>4. CASE Noise
        BY <2>4 DEF TypeOK, Noise
    <2>5. QED BY <1>13, <2>1, <2>2, <2>3, <2>4
<1>14. CASE Terminate
    <2>1. budget' \in [Kinds -> Nat]
        BY <1>14, SpendType DEF Terminate, TypeOK, Kinds
    <2>2. CASE Listening \/ pc = "armed"
        BY <1>14, <2>1, <2>2 DEF Terminate, TypeOK
    <2>3. CASE ~(Listening \/ pc = "armed")
        BY <1>14, <2>1, <2>3, DieType DEF Terminate, TypeOK
    <2>4. QED BY <2>2, <2>3
<1>15. CASE Kill \/ StepFails
    <2>1. budget' \in [Kinds -> Nat]
        BY <1>15, SpendType DEF Kill, StepFails, TypeOK, Kinds
    <2>2. QED BY <1>15, <2>1, DieType DEF Kill, StepFails, TypeOK
<1>16. CASE World
    <2>1. budget' \in [Kinds -> Nat]
        BY <1>16, SpendType
        DEF World, ChangeTunnel, MakeForeignTunnel, LosePlumbing, ChangeRoute,
            ChangeDns, ChangeOffer, TypeOK, Kinds
    <2>2. CASE ChangeTunnel \/ MakeForeignTunnel
        <3>1. tunnel' \in Observed /\ plumbed' \in BOOLEAN
            BY <2>2, SpecialType DEF ChangeTunnel, MakeForeignTunnel, TypeOK
        <3>2. queued' \in BOOLEAN
            BY <2>2, NotifiesType DEF ChangeTunnel, MakeForeignTunnel
        <3>3. QED
            BY <2>1, <2>2, <3>1, <3>2 DEF TypeOK, ChangeTunnel, MakeForeignTunnel
    <2>3. CASE LosePlumbing
        <3>1. /\ plumbed' \in BOOLEAN
              /\ UNCHANGED <<pc, memory, queued, exit, status, tunnel, world>>
            BY <2>3 DEF LosePlumbing
        <3>2. QED BY <2>1, <3>1 DEF TypeOK
    <2>4. CASE ChangeRoute
        <3>1. queued' \in BOOLEAN
            BY <2>4, NotifiesType DEF ChangeRoute
        <3>2. QED BY <2>1, <2>4, <3>1 DEF TypeOK, ChangeRoute
    <2>5. CASE ChangeDns \/ ChangeOffer
        BY <2>1, <2>5 DEF TypeOK, ChangeDns, ChangeOffer
    <2>6. QED BY <1>16, <2>2, <2>3, <2>4, <2>5 DEF World
<1>17. CASE UNCHANGED vars
    BY <1>17 DEF TypeOK, vars
<1>20. QED
    BY <1>1, <1>2, <1>3, <1>4, <1>5, <1>6, <1>7, <1>8, <1>9, <1>10, <1>11,
       <1>12, <1>13, <1>14, <1>15, <1>16, <1>17, <1>18, <1>19
    DEF Next, Daemon, Faults

\* Type correctness of every reachable state of the loop.
THEOREM TypeCorrect == Spec => []TypeOK
<1>1. Init => TypeOK
    BY ConfigAssumption DEF Init, TypeOK, Observed, Desired
<1>2. QED BY <1>1, TypeStep, PTL DEF Spec

(***************************************************************************)
(* No lost drift. NoLostDrift speaks of the sleeping loop only; that it is *)
(* preserved rests on what holds in the middle of a pass: whatever the     *)
(* pass has read is still so, or the kernel has queued a notification      *)
(* since, which nothing but the select of "wait" takes from the queue.     *)
(***************************************************************************)
ObservedIsCurrent ==
    pc \in {"discover", "resolve", "reconcile"} => observed = tunnel \/ queued

SourceIsCurrent ==
    pc \in {"reconcile", "rebuild"} /\ desired \in DesiredState
        => desired.local = LocalV6 \/ queued

RebuildIsResolved == pc = "rebuild" => desired \in DesiredState

SettledOrQueued ==
    /\ pc = "publish" => Settled \/ queued
    /\ pc = "wait" => Settled \/ queued \/ window

DriftInv ==
    TypeOK /\ ObservedIsCurrent /\ SourceIsCurrent /\ RebuildIsResolved
           /\ SettledOrQueued

\* A change of the world is queued while the daemon listens.
LEMMA Notified == pc \in Loop /\ KernelNotifies => queued'
    BY DEF KernelNotifies, Listening

\* A pass that finds nothing to do, or has done it, leaves a settled state.
LEMMA SettledByMatch ==
    ASSUME desired \in Desired, Matches(tunnel, desired)',
           desired' = desired,
           desired \in DesiredState => desired.local = LocalV6'
    PROVE  Settled'
    BY DEF Settled, Desired

LEMMA DriftStep == DriftInv /\ [Next]_vars => DriftInv'
<1> SUFFICES ASSUME DriftInv, [Next]_vars PROVE DriftInv'
    OBVIOUS
<1> USE DEF memory, world
<1>0. TypeOK /\ TypeOK'
    BY TypeStep DEF DriftInv
<1> DEFINE Rest == /\ ObservedIsCurrent' /\ SourceIsCurrent'
                   /\ RebuildIsResolved' /\ SettledOrQueued'
<1> SUFFICES Rest
    BY <1>0 DEF DriftInv
<1> USE DEF ObservedIsCurrent, SourceIsCurrent, RebuildIsResolved, SettledOrQueued
<1>1. CASE StartDaemon \/ RemoveStatus \/ InstallHandlers \/ Subscribe \/ Observe
    BY <1>1 DEF StartDaemon, RemoveStatus, InstallHandlers, Subscribe, Observe
<1>2. CASE Discover \/ ResolveFails
    BY <1>2, SpecialValues DEF DriftInv, Discover, ResolveFails
<1>3. CASE Resolve
    <2>1. desired' \in DesiredState => desired'.local = LocalV6
        <3>1. PICK first \in dns :
                  desired' = DesiredFor(Select(dns, first, CurrentAftr,
                                      missing # "no", missing = "over").aftr)
            BY <1>3 DEF Resolve
        <3>2. QED BY <1>0, <3>1, SelectType, DesiredForType DEF TypeOK
    <2>2. LocalV6' = LocalV6
        BY <1>3 DEF Resolve, LocalV6
    <2>3. QED BY <1>3, <2>1, <2>2 DEF DriftInv, Resolve
<1>4. CASE DoNothing
    <2>1. Matches(observed, desired)
        BY <1>4 DEF DoNothing, PlanIs, Matches
    <2>2. CASE queued
        BY <1>4, <2>2 DEF DoNothing
    <2>3. CASE ~queued
        <3>1. observed = tunnel /\ (desired \in DesiredState => desired.local = LocalV6)
            BY <1>4, <2>3 DEF DriftInv, DoNothing, PlanIs
        <3>2. /\ Matches(tunnel, desired)' /\ desired' = desired
              /\ LocalV6' = LocalV6
            BY <1>4, <2>1, <3>1 DEF DoNothing, Matches, LocalV6
        <3>3. Settled'
            BY <1>0, <3>1, <3>2, SettledByMatch DEF TypeOK
        <3>4. QED BY <1>4, <3>3 DEF DoNothing
    <2>4. QED BY <2>2, <2>3
<1>5. CASE SetUp
    <2>1. desired \in DesiredState /\ (desired.local = LocalV6 \/ queued)
        BY <1>0, <1>5, PlanTells DEF DriftInv, SetUp, MustSetUp, PlanIs, TypeOK
    <2>2. desired' = desired /\ queued' = queued /\ LocalV6' = LocalV6
        BY <1>5 DEF SetUp, LocalV6
    <2>3. Matches(tunnel, desired)'
        BY <1>5, <2>1, <2>2, CreatedMatches DEF SetUp, Matches
    <2>4. Settled' \/ queued'
        BY <1>0, <2>1, <2>2, <2>3, SettledByMatch DEF TypeOK
    <2>5. QED BY <1>5, <2>4 DEF SetUp
<1>6. CASE Update
    <2>1. /\ desired \in DesiredState /\ observed \in Tunnel
          /\ SameEndpoints(observed, desired)
        BY <1>0, <1>6, PlanTells DEF Update, PlanIs, TypeOK
    <2>2. CASE queued
        BY <1>6, <2>2 DEF Update
    <2>3. CASE ~queued
        <3>1. observed = tunnel /\ desired.local = LocalV6
            BY <1>6, <2>1, <2>3 DEF DriftInv, Update, PlanIs
        <3>2. desired' = desired /\ LocalV6' = LocalV6
            BY <1>6 DEF Update, LocalV6
        <3>3. Matches(tunnel, desired)'
            BY <1>6, <2>1, <3>1, <3>2, UpdatedMatches DEF Update, Matches
        <3>4. Settled'
            BY <1>0, <3>1, <3>2, <3>3, SettledByMatch DEF TypeOK
        <3>5. QED BY <1>6, <3>4 DEF Update
    <2>4. QED BY <2>2, <2>3
<1>7. CASE TearDown
    <2>1. LocalV6' = LocalV6 /\ desired' = desired /\ queued' = queued
        BY <1>7 DEF TearDown, LocalV6
    <2>2. CASE pc = "teardown"
        <3>1. pc' = "unlink"
            BY <1>7, <2>2 DEF TearDown, PlanIs
        <3>2. QED BY <3>1
    <2>3. CASE PlanIs("rebuild")
        BY <1>0, <1>7, <2>1, <2>3, PlanTells DEF DriftInv, TearDown, PlanIs, TypeOK
    <2>4. CASE PlanIs("teardown")
        <3>1. desired = Absent /\ tunnel' = Absent
            BY <1>0, <1>7, <2>4, PlanTells DEF TearDown, PlanIs, TypeOK
        <3>2. Settled'
            BY <2>1, <3>1, SpecialValues DEF Settled, Matches, Plan
        <3>3. QED BY <1>7, <2>4, <3>2 DEF TearDown, PlanIs
    <2>5. QED BY <1>7, <2>2, <2>3, <2>4 DEF TearDown, MustTearDown
<1>8. CASE Publish
    <2>1. Settled' <=> Settled
        BY <1>8 DEF Publish, Settled, Matches, LocalV6
    <2>2. QED BY <1>8, <2>1 DEF DriftInv, Publish
<1>9. CASE Shutdown \/ WakeOnRefresh \/ WakeOnTimer \/ BatchEnds
    BY <1>9 DEF Shutdown, WakeOnRefresh, WakeOnTimer, BatchEnds, NextPass
<1>10. CASE BatchBegins
    BY <1>10 DEF BatchBegins
<1>11. CASE Classify
    <2>1. CASE Relevant
        BY <1>11, <2>1 DEF Classify, NextPass
    <2>2. CASE ~Relevant
        <3>1. Settled
            BY <1>0, <2>2, SpecialValues
            DEF Relevant, Settled, Matches, TypeOK, Desired
        <3>2. Settled'
            BY <1>11, <3>1 DEF Classify, Settled, Matches, LocalV6
        <3>3. QED BY <1>11, <2>2, <3>2 DEF Classify
    <2>3. QED BY <2>1, <2>2
<1>12. CASE ObserveLast \/ Finish
    BY <1>12 DEF ObserveLast, Finish, End
<1>13. CASE SetUpCollides \/ Vanished \/ SetUpFails \/ UpdateFails \/ TearDownFails
            \/ Kill \/ StepFails
    BY <1>13 DEF SetUpCollides, Vanished, SetUpFails, UpdateFails, TearDownFails,
                 Kill, StepFails, Die, End
<1>14. CASE TimerExpires \/ GraceExpires \/ RequestRefresh \/ LosePlumbing
            \/ ChangeDns \/ ChangeOffer \/ UNCHANGED vars
    <2>1. UNCHANGED <<pc, observed, desired, window, queued, tunnel, LocalV6>>
        BY <1>14 DEF TimerExpires, GraceExpires, RequestRefresh, LosePlumbing,
                     ChangeDns, ChangeOffer, vars, LocalV6
    <2>2. Settled' <=> Settled
        BY <2>1 DEF Settled, Matches
    <2>3. QED BY <2>1, <2>2 DEF DriftInv
<1>15. CASE Terminate
    <2>1. CASE pc' = "off"
        BY <2>1
    <2>2. CASE pc' # "off"
        <3>1. UNCHANGED <<pc, observed, desired, window, queued, tunnel, LocalV6>>
            BY <1>15, <2>2 DEF Terminate, Die, End, LocalV6
        <3>2. Settled' <=> Settled
            BY <3>1 DEF Settled, Matches
        <3>3. QED BY <3>1, <3>2 DEF DriftInv
    <2>3. QED BY <2>1, <2>2
<1>16. CASE ChangeTunnel \/ MakeForeignTunnel \/ ChangeRoute \/ Noise
    <2>1. pc' = pc /\ desired' = desired
        BY <1>16 DEF ChangeTunnel, MakeForeignTunnel, ChangeRoute, Noise
    <2>2. pc \in Loop => queued'
        BY <1>16, Notified DEF ChangeTunnel, MakeForeignTunnel, ChangeRoute, Noise
    <2>3. QED BY <2>1, <2>2 DEF DriftInv, Loop
<1>17. QED
    BY <1>1, <1>2, <1>3, <1>4, <1>5, <1>6, <1>7, <1>8, <1>9, <1>10, <1>11,
       <1>12, <1>13, <1>14, <1>15, <1>16
    DEF Next, Daemon, Faults, World

LEMMA DriftInit == Init => DriftInv
<1>1. Init => TypeOK
    BY ConfigAssumption, SpecialType DEF Init, TypeOK
<1>2. QED BY <1>1 DEF Init, DriftInv, ObservedIsCurrent, SourceIsCurrent,
                      RebuildIsResolved, SettledOrQueued

\* The loop never sleeps on drift it has not been, or is not being, told of.
THEOREM DriftIsNotLost == Spec => []NoLostDrift
<1>1. DriftInv => NoLostDrift
    BY DEF DriftInv, SettledOrQueued, NoLostDrift
<1>2. QED BY <1>1, DriftInit, DriftStep, PTL DEF Spec

(***************************************************************************)
(* The other properties of a pass.                                         *)
(***************************************************************************)
\* Outside its end the tunnel is removed only for no service or a wrong endpoint.
THEOREM InterruptionsAreNeeded == Spec => NoNeedlessInterruption
<1> DEFINE Removal == /\ tunnel # Absent /\ tunnel' = Absent
                      /\ pc = "reconcile" /\ pc' # pc /\ ~queued
           Needed  == \/ desired = Absent
                      \/ desired \in DesiredState /\ ~SameEndpoints(tunnel, desired)
<1>1. DriftInv /\ [Next]_vars => [Removal => Needed]_vars
    <2> SUFFICES ASSUME DriftInv, Next, Removal PROVE Needed
        BY DEF vars
    <2>0. ~Update /\ ~UpdateFails
        <3>1. SUFFICES ASSUME Update \/ UpdateFails PROVE FALSE
            OBVIOUS
        <3>2. /\ observed \in Tunnel /\ desired \in DesiredState
              /\ tunnel \in Tunnel
            BY <3>1, PlanTells DEF Update, UpdateFails, PlanIs, DriftInv, TypeOK, Observed
        <3>3. tunnel' \in Tunnel
            BY <3>1, <3>2, UpdatedType DEF Update, UpdateFails
        <3>4. QED BY <3>3, SpecialValues
    <2>1. TearDown
        <3>1. UNCHANGED tunnel \/ pc' = pc \/ SetUp \/ SetUpFails \/ Update
             \/ UpdateFails \/ TearDown \/ TearDownFails
            BY DEF Next, Daemon, Faults, World, StartDaemon, RemoveStatus,
                   InstallHandlers, Subscribe, Observe, Discover, ResolveFails,
                   Resolve, DoNothing, SetUpCollides, Vanished, Publish,
                   Shutdown, WakeOnRefresh, WakeOnTimer, BatchBegins, BatchEnds,
                   Classify, ObserveLast, Finish, StepFails, Kill, Terminate,
                   TimerExpires, GraceExpires, RequestRefresh, Noise,
                   ChangeTunnel, MakeForeignTunnel, LosePlumbing, ChangeRoute,
                   ChangeDns, ChangeOffer, memory, world
        <3>2. ~TearDownFails
            BY SpecialValues DEF TearDownFails, Remnants
        <3>3. QED BY <2>0, <3>1, <3>2 DEF SetUp, SetUpFails
    <2>2. observed = tunnel /\ TypeOK
        BY DEF DriftInv, ObservedIsCurrent
    <2>3. CASE PlanIs("teardown")
        BY <2>2, <2>3, PlanTells DEF PlanIs, TypeOK
    <2>4. CASE PlanIs("rebuild")
        <3>1. desired \in DesiredState
            BY <2>2, <2>4, PlanTells DEF PlanIs, TypeOK
        <3>2. ~SameEndpoints(tunnel, desired)
            BY <2>2, <2>4, <3>1, SpecialValues DEF PlanIs, Plan, PlanResolved
        <3>3. QED BY <3>1, <3>2
    <2>5. QED BY <2>1, <2>3, <2>4 DEF TearDown, MustTearDown
<1>2. QED BY <1>1, DriftInit, DriftStep, PTL DEF Spec, NoNeedlessInterruption

(***************************************************************************)
(* The choice of a pass.                                                   *)
(***************************************************************************)
\* The selector keeps the tunnel's AFTR as long as it is a candidate.
LEMMA ResolveStays ==
    ASSUME TypeOK, Resolve, observed # Absent, desired' \in DesiredState
    PROVE  desired'.remote = observed.remote \/ observed.remote \notin candidates'
<1> SUFFICES ASSUME observed.remote \in dns PROVE desired'.remote = observed.remote
    BY DEF Resolve
<1>1. observed \in Tunnel
    BY DEF TypeOK, Observed
<1>2. CurrentAftr = observed.remote /\ CurrentAftr # NoAddr
    BY <1>1, ConfigAssumption DEF CurrentAftr, Tunnel
<1>3. PICK first \in dns :
         desired' = DesiredFor(Select(dns, first, CurrentAftr, missing # "no",
                                      missing = "over").aftr)
    BY DEF Resolve
<1>4. first # NoAddr
    BY ConfigAssumption DEF TypeOK
<1>5. Select(dns, first, CurrentAftr, missing # "no", missing = "over").aftr = CurrentAftr
    BY <1>2, <1>4 DEF Select
<1>6. desired' = DesiredFor(observed.remote)
    BY <1>2, <1>3, <1>5
<1>7. QED BY <1>6, SpecialValues DEF DesiredFor

LEMMA StaysStep == TypeOK /\ StaysWithListedAftr /\ [Next]_vars => StaysWithListedAftr'
<1> SUFFICES ASSUME TypeOK, StaysWithListedAftr, [Next]_vars, pc' = "reconcile",
                    (observed # Absent /\ desired \in DesiredState)'
             PROVE  (desired.remote = observed.remote \/ observed.remote \notin candidates)'
    BY DEF StaysWithListedAftr
<1> USE DEF memory, world
<1>1. CASE Resolve
    BY <1>1, ResolveStays DEF Resolve
<1>2. CASE Discover \/ ResolveFails
    BY <1>2, SpecialValues DEF Discover, ResolveFails
<1>3. CASE UNCHANGED <<pc, observed, desired, candidates>>
    BY <1>3 DEF StaysWithListedAftr
<1>4. QED
    BY <1>1, <1>2, <1>3
    DEF Next, vars, Daemon, Faults, World, StartDaemon, RemoveStatus,
        InstallHandlers, Subscribe, Observe, DoNothing, SetUp, SetUpFails, SetUpCollides,
        Update, UpdateFails, TearDown, TearDownFails, Vanished, Publish, MustTearDown,
        Shutdown, WakeOnRefresh, WakeOnTimer, BatchBegins, BatchEnds,
        Classify, NextPass, ObserveLast, Finish, StepFails, Kill, Die, End, Terminate,
        TimerExpires, GraceExpires, RequestRefresh, Noise,
        ChangeTunnel, MakeForeignTunnel, LosePlumbing, ChangeRoute,
        ChangeDns, ChangeOffer, PlanIs

\* Neither the order nor the growth of a DNS answer moves a tunnel whose AFTR is
\* still listed.
THEOREM ListedAftrIsKept == Spec => []StaysWithListedAftr
<1>1. Init => TypeOK /\ StaysWithListedAftr
    BY DriftInit DEF DriftInv, Init, StaysWithListedAftr
<1>2. QED BY <1>1, TypeStep, StaysStep, PTL DEF Spec

(***************************************************************************)
(* How the daemon ends. A disturbance, once spent, stays spent; without    *)
(* one, the tunnel changes only where the daemon changes it.               *)
(***************************************************************************)
Spent(kind) == budget[kind] < Budget[kind]

Disturbed == \E kind \in {"tunnel", "foreign", "failure", "kill"} : Spent(kind)

BudgetShrinks == \A kind \in Kinds : budget[kind] <= Budget[kind]

EndInv ==
    /\ TypeOK /\ BudgetShrinks
    /\ exit = "failed" => Disturbed
    /\ pc \in {"discover", "resolve", "reconcile"} => observed = tunnel \/ Disturbed
    /\ pc = "rebuild" => tunnel = Absent \/ Disturbed
    /\ pc = "teardown" => tunnel # Absent \/ Disturbed
    /\ pc = "unlink" => tunnel = Absent \/ Spent("foreign")
    /\ exit = "clean" => /\ pc = "off" /\ status = "none"
                         /\ tunnel = Absent \/ Spent("foreign")

LEMMA SpendSpends ==
    ASSUME TypeOK, BudgetShrinks, NEW kind \in Kinds, Spend(kind)
    PROVE  /\ BudgetShrinks' /\ Spent(kind)'
           /\ \A k \in Kinds : Spent(k) => Spent(k)'
<1>1. \A k \in Kinds : budget[k] \in Nat /\ Budget[k] \in Nat
    BY ConfigAssumption DEF TypeOK
<1>2. budget'[kind] = budget[kind] - 1 /\ budget[kind] > 0
    BY DEF Spend, TypeOK
<1>3. \A k \in Kinds \ {kind} : budget'[k] = budget[k]
    BY DEF Spend, TypeOK
<1>4. \A k \in Kinds : budget'[k] <= budget[k] /\ budget'[k] \in Nat
    BY <1>1, <1>2, <1>3
<1>5. BudgetShrinks'
    BY <1>1, <1>4 DEF BudgetShrinks
<1>6. Spent(kind)'
    BY <1>1, <1>2 DEF Spent, BudgetShrinks
<1>7. \A k \in Kinds : Spent(k) => Spent(k)'
    BY <1>1, <1>4 DEF Spent
<1>8. QED BY <1>5, <1>6, <1>7

LEMMA SpentStays ==
    ASSUME TypeOK, BudgetShrinks,
           UNCHANGED budget \/ \E kind \in Kinds : Spend(kind)
    PROVE  /\ BudgetShrinks' /\ (Disturbed => Disturbed')
           /\ Spent("foreign") => Spent("foreign")'
    BY SpendSpends DEF BudgetShrinks, Disturbed, Spent, Kinds

LEMMA EndStep == EndInv /\ [Next]_vars => EndInv'
<1> SUFFICES ASSUME EndInv, [Next]_vars PROVE EndInv'
    OBVIOUS
<1> USE DEF memory, world
<1>0. TypeOK /\ TypeOK' /\ BudgetShrinks
    BY TypeStep DEF EndInv
<1>1. CASE StartDaemon \/ RemoveStatus \/ InstallHandlers \/ Subscribe \/ Observe
            \/ Discover \/ ResolveFails \/ Resolve \/ DoNothing
    <2>1. UNCHANGED <<budget, tunnel, exit>>
        BY <1>1 DEF StartDaemon, RemoveStatus, InstallHandlers, Subscribe,
                    Observe, Discover, ResolveFails, Resolve, DoNothing
    <2>2. BudgetShrinks' /\ (Disturbed => Disturbed')
        BY <1>0, <2>1, SpentStays
    <2>3. exit # "clean" /\ pc' \notin {"off", "rebuild", "teardown", "unlink"}
        BY <1>1 DEF EndInv, StartDaemon, RemoveStatus, InstallHandlers, Subscribe,
                    Observe, Discover, ResolveFails, Resolve, DoNothing, PlanIs
    <2>4. pc' \in {"discover", "resolve", "reconcile"} => observed' = tunnel \/ Disturbed
        BY <1>1 DEF EndInv, StartDaemon, RemoveStatus, InstallHandlers, Subscribe,
                    Observe, Discover, ResolveFails, Resolve, DoNothing
    <2>5. QED BY <1>0, <2>1, <2>2, <2>3, <2>4 DEF EndInv
<1>2. CASE Publish \/ Shutdown \/ WakeOnRefresh \/ WakeOnTimer \/ BatchBegins
            \/ BatchEnds \/ Classify
    <2>1. UNCHANGED <<budget, tunnel, exit>>
        BY <1>2 DEF Publish, Shutdown, WakeOnRefresh, WakeOnTimer, BatchBegins,
                    BatchEnds, Classify
    <2>2. BudgetShrinks' /\ (Disturbed => Disturbed')
        BY <1>0, <2>1, SpentStays
    <2>3. exit # "clean" /\ pc' \in {"wait", "stopping", "observe", "classify"}
        BY <1>2 DEF EndInv, Publish, Shutdown, WakeOnRefresh, WakeOnTimer,
                    BatchBegins, BatchEnds, Classify, NextPass
    <2>4. QED BY <1>0, <2>1, <2>2, <2>3 DEF EndInv
<1>3. CASE ObserveLast
    <2>1. BudgetShrinks' /\ (Disturbed => Disturbed')
        BY <1>0, <1>3, SpentStays DEF ObserveLast
    <2>2. QED BY <1>0, <1>3, <2>1 DEF EndInv, ObserveLast
<1>4. CASE TimerExpires \/ GraceExpires \/ RequestRefresh \/ Noise \/ UNCHANGED vars
    <2>1. UNCHANGED <<budget, tunnel, exit, status, pc, observed>>
        BY <1>4 DEF TimerExpires, GraceExpires, RequestRefresh, Noise, vars
    <2>2. BudgetShrinks' /\ (Disturbed => Disturbed')
                         /\ (Spent("foreign") => Spent("foreign")')
        BY <1>0, <2>1, SpentStays
    <2>3. QED BY <1>0, <2>1, <2>2 DEF EndInv
<1>5. CASE SetUp \/ Update
    <2>1. UNCHANGED <<budget, exit>> /\ pc' = "publish" /\ exit # "clean"
        BY <1>5 DEF EndInv, SetUp, Update, MustSetUp, PlanIs
    <2>2. BudgetShrinks' /\ (Disturbed => Disturbed')
        BY <1>0, <2>1, SpentStays
    <2>3. QED BY <1>0, <2>1, <2>2 DEF EndInv
<1>6. CASE TearDown
    <2>1. /\ UNCHANGED <<budget, exit>> /\ tunnel' = Absent
          /\ pc' \in {"unlink", "rebuild", "publish"} /\ exit # "clean"
        BY <1>6 DEF EndInv, TearDown, MustTearDown, PlanIs
    <2>2. BudgetShrinks' /\ (Disturbed => Disturbed')
        BY <1>0, <2>1, SpentStays
    <2>3. QED BY <1>0, <2>1, <2>2 DEF EndInv
<1>7. CASE SetUpCollides \/ Vanished
    <2>1. Disturbed
        <3>1. CASE PlanIs("create") /\ tunnel # Absent
            BY <1>0, <3>1, PlanTells DEF EndInv, PlanIs, TypeOK
        <3>2. CASE (PlanIs("update") \/ PlanIs("rebuild") \/ PlanIs("teardown"))
                     /\ tunnel = Absent
            BY <1>0, <3>2, PlanTells, SpecialValues DEF EndInv, PlanIs, TypeOK
        <3>3. QED
            BY <1>7, <3>1, <3>2
            DEF EndInv, SetUpCollides, Vanished, MustSetUp, MustTearDown
    <2>2. UNCHANGED <<budget, tunnel>> /\ exit' = "failed" /\ pc' = "off"
        BY <1>7 DEF SetUpCollides, Vanished, Die, End
    <2>3. BudgetShrinks' /\ Disturbed'
        BY <1>0, <2>1, <2>2, SpentStays
    <2>4. QED BY <1>0, <2>2, <2>3 DEF EndInv
<1>8. CASE SetUpFails \/ UpdateFails \/ TearDownFails \/ Kill \/ StepFails
    <2>1. (Spend("failure") \/ Spend("kill")) /\ exit' = "failed" /\ pc' = "off"
        BY <1>8 DEF SetUpFails, UpdateFails, TearDownFails, Interrupted, Kill, StepFails,
                    Die, End
    <2>2. BudgetShrinks' /\ Disturbed'
        BY <1>0, <2>1, SpendSpends DEF Kinds, Disturbed
    <2>3. QED BY <1>0, <2>1, <2>2 DEF EndInv
<1>9. CASE Terminate
    <2>1. /\ BudgetShrinks' /\ (Disturbed => Disturbed')
          /\ Spent("foreign") => Spent("foreign")'
        BY <1>0, <1>9, SpentStays DEF Terminate, Kinds
    <2>2. CASE Listening \/ pc = "armed"
        BY <1>0, <1>9, <2>1, <2>2 DEF EndInv, Terminate
    <2>3. CASE ~(Listening \/ pc = "armed")
        BY <1>0, <1>9, <2>1, <2>3 DEF EndInv, Terminate, Die, End
    <2>4. QED BY <2>2, <2>3
<1>10. CASE Finish
    <2>1. /\ BudgetShrinks' /\ (Disturbed => Disturbed')
          /\ Spent("foreign") => Spent("foreign")'
        BY <1>0, <1>10, SpentStays DEF Finish
    <2>2. QED BY <1>0, <1>10, <2>1 DEF EndInv, Finish, End
<1>11. CASE ChangeTunnel
    <2>1. /\ BudgetShrinks' /\ Disturbed'
          /\ Spent("foreign") => Spent("foreign")'
        BY <1>0, <1>11, SpendSpends DEF ChangeTunnel, Kinds, Disturbed
    <2>2. QED BY <1>0, <1>11, <2>1 DEF EndInv, ChangeTunnel
<1>12. CASE MakeForeignTunnel
    <2>1. BudgetShrinks' /\ Disturbed' /\ Spent("foreign")'
        BY <1>0, <1>12, SpendSpends DEF MakeForeignTunnel, Kinds, Disturbed
    <2>2. QED BY <1>0, <1>12, <2>1 DEF EndInv, MakeForeignTunnel
<1>13. CASE LosePlumbing \/ ChangeRoute \/ ChangeDns \/ ChangeOffer
    <2>1. UNCHANGED <<tunnel, exit, status, pc, observed>>
        BY <1>13 DEF LosePlumbing, ChangeRoute, ChangeDns, ChangeOffer
    <2>2. \E kind \in Kinds : Spend(kind)
        BY <1>13 DEF LosePlumbing, ChangeRoute, ChangeDns, ChangeOffer, Kinds
    <2>3. BudgetShrinks' /\ (Disturbed => Disturbed')
                         /\ (Spent("foreign") => Spent("foreign")')
        BY <1>0, <2>2, SpentStays
    <2>4. QED BY <1>0, <2>1, <2>3 DEF EndInv
<1>14. QED
    BY <1>1, <1>2, <1>3, <1>4, <1>5, <1>6, <1>7, <1>8, <1>9, <1>10, <1>11,
       <1>12, <1>13
    DEF Next, Daemon, Faults, World

LEMMA EndInit == Init => EndInv
<1>1. Init => TypeOK
    BY ConfigAssumption, SpecialType DEF Init, TypeOK
<1>2. Init => BudgetShrinks
    BY ConfigAssumption DEF Init, BudgetShrinks
<1>3. QED BY <1>1, <1>2 DEF Init, EndInv

\* A daemon that nobody disturbs never fails.
THEOREM NoFailureOfItsOwn == Spec => []FailsOnlyIfDisturbed
<1>1. EndInv => FailsOnlyIfDisturbed
    BY DEF EndInv, FailsOnlyIfDisturbed, Disturbed, Spent
<1>2. QED BY <1>1, EndInit, EndStep, PTL DEF Spec

\* A clean end leaves no snapshot and no tunnel of the daemon's.
THEOREM EndsClean == Spec => []CleanExit
<1>1. EndInv => CleanExit
    BY DEF EndInv, CleanExit, Spent
<1>2. QED BY <1>1, EndInit, EndStep, PTL DEF Spec
(***************************************************************************)
(* What remains of KeepsPlumbed, which does not hold.                      *)
(***************************************************************************)
\* What takes the IPv4 address and the route from a tunnel, or puts one there that
\* has none: another program, or a setup or teardown that failed halfway, or during
\* which the daemon was killed.
Unplumbed ==
    \E kind \in {"tunnel", "foreign", "plumbing", "failure", "kill"} : Spent(kind)

\* The loop never leaves a tunnel without its IPv4 part by its own doing: neither by
\* an update nor by an interrupted pass, nor between the two halves of a rebuild.
PlumbedUnlessDisturbed ==
    /\ plumbed => tunnel # Absent
    /\ tunnel # Absent => plumbed \/ Unplumbed

PlumbedInv == TypeOK /\ BudgetShrinks /\ PlumbedUnlessDisturbed

LEMMA UnplumbedStays ==
    ASSUME TypeOK, BudgetShrinks,
           UNCHANGED budget \/ \E kind \in Kinds : Spend(kind)
    PROVE  BudgetShrinks' /\ (Unplumbed => Unplumbed')
    BY SpendSpends DEF BudgetShrinks, Unplumbed, Spent, Kinds

LEMMA InterruptedUnplumbs ==
    ASSUME TypeOK, BudgetShrinks, Interrupted
    PROVE  BudgetShrinks' /\ Unplumbed'
    BY SpendSpends DEF Interrupted, Unplumbed, Kinds

LEMMA PlumbedStep == PlumbedInv /\ [Next]_vars => PlumbedInv'
<1> SUFFICES ASSUME PlumbedInv, [Next]_vars PROVE PlumbedInv'
    OBVIOUS
<1> USE DEF memory, world
<1>0. TypeOK /\ TypeOK' /\ BudgetShrinks
    BY TypeStep DEF PlumbedInv
<1>1. CASE UNCHANGED <<tunnel, plumbed>>
           /\ (UNCHANGED budget \/ \E kind \in Kinds : Spend(kind))
    BY <1>0, <1>1, UnplumbedStays DEF PlumbedInv, PlumbedUnlessDisturbed
<1>2. CASE SetUp
    <2>1. tunnel' \in Tunnel /\ plumbed' = TRUE /\ UNCHANGED budget
        BY <1>2 DEF SetUp, Created
    <2>2. QED BY <1>0, <2>1, UnplumbedStays, SpecialValues DEF PlumbedInv, PlumbedUnlessDisturbed
<1>3. CASE Update
    <2>1. desired \in DesiredState /\ observed \in Tunnel /\ tunnel \in Tunnel
        BY <1>0, <1>3, PlanTells DEF Update, PlanIs, TypeOK, Observed
    <2>2. tunnel' \in Tunnel
        BY <1>3, <2>1, UpdatedType DEF Update
    <2>3. UNCHANGED <<plumbed, budget>> /\ tunnel # Absent
        BY <1>3 DEF Update
    <2>4. QED
        BY <1>0, <2>2, <2>3, UnplumbedStays, SpecialValues
        DEF PlumbedInv, PlumbedUnlessDisturbed
<1>4. CASE UpdateFails
    <2>1. desired \in DesiredState /\ observed \in Tunnel /\ tunnel \in Tunnel
        BY <1>0, <1>4, PlanTells DEF UpdateFails, PlanIs, TypeOK, Observed
    <2>2. tunnel' \in Tunnel
        BY <1>4, <2>1, UpdatedType DEF UpdateFails
    <2>3. UNCHANGED plumbed /\ Interrupted
        BY <1>4 DEF UpdateFails
    <2>4. BudgetShrinks' /\ Unplumbed'
        BY <1>0, <2>3, InterruptedUnplumbs
    <2>5. QED
        BY <1>0, <2>2, <2>3, <2>4, SpecialValues DEF PlumbedInv, PlumbedUnlessDisturbed
<1>5. CASE TearDown
    <2>1. tunnel' = Absent /\ plumbed' = FALSE /\ UNCHANGED budget
        BY <1>5 DEF TearDown
    <2>2. QED BY <1>0, <2>1, UnplumbedStays DEF PlumbedInv, PlumbedUnlessDisturbed
<1>6. CASE SetUpFails
    <2>1. Interrupted /\ (plumbed' => tunnel' # Absent)
        BY <1>6 DEF SetUpFails
    <2>2. BudgetShrinks' /\ Unplumbed'
        BY <1>0, <2>1, InterruptedUnplumbs
    <2>3. QED BY <1>0, <2>1, <2>2 DEF PlumbedInv, PlumbedUnlessDisturbed
<1>7. CASE TearDownFails
    <2>1. Interrupted /\ tunnel' \in Tunnel
        BY <1>7 DEF TearDownFails, Remnants
    <2>2. BudgetShrinks' /\ Unplumbed'
        BY <1>0, <2>1, InterruptedUnplumbs
    <2>3. QED BY <1>0, <2>1, <2>2, SpecialValues DEF PlumbedInv, PlumbedUnlessDisturbed
<1>8. CASE ChangeTunnel
    <2>1. Spend("tunnel") /\ (plumbed' => tunnel' # Absent)
        BY <1>8 DEF ChangeTunnel
    <2>2. BudgetShrinks' /\ Unplumbed'
        BY <1>0, <2>1, SpendSpends DEF Kinds, Unplumbed
    <2>3. QED BY <1>0, <2>1, <2>2 DEF PlumbedInv, PlumbedUnlessDisturbed
<1>9. CASE MakeForeignTunnel
    <2>1. Spend("foreign") /\ tunnel' \in Tunnel
        BY <1>9 DEF MakeForeignTunnel
    <2>2. BudgetShrinks' /\ Unplumbed'
        BY <1>0, <2>1, SpendSpends DEF Kinds, Unplumbed
    <2>3. QED BY <1>0, <2>1, <2>2, SpecialValues DEF PlumbedInv, PlumbedUnlessDisturbed
<1>10. CASE LosePlumbing
    <2>1. Spend("plumbing") /\ plumbed' = FALSE
        BY <1>10 DEF LosePlumbing
    <2>2. BudgetShrinks' /\ Unplumbed'
        BY <1>0, <2>1, SpendSpends DEF Kinds, Unplumbed
    <2>3. QED BY <1>0, <2>1, <2>2 DEF PlumbedInv, PlumbedUnlessDisturbed
<1>11. CASE \/ StartDaemon \/ RemoveStatus \/ InstallHandlers \/ Subscribe
            \/ Observe \/ Discover \/ ResolveFails \/ Resolve
            \/ DoNothing \/ SetUpCollides \/ Vanished \/ Publish
            \/ Shutdown \/ WakeOnRefresh \/ WakeOnTimer \/ BatchBegins \/ BatchEnds
            \/ Classify \/ ObserveLast \/ Finish
    <2>1. UNCHANGED <<tunnel, plumbed, budget>>
        BY <1>11 DEF StartDaemon, RemoveStatus, InstallHandlers, Subscribe, Observe,
               Discover, ResolveFails, Resolve, DoNothing, SetUpCollides, Vanished,
               Publish, Shutdown, WakeOnRefresh, WakeOnTimer, BatchBegins, BatchEnds,
               Classify, ObserveLast, Finish
    <2>2. QED BY <1>1, <2>1
<1>12. CASE \/ TimerExpires \/ GraceExpires \/ RequestRefresh \/ Noise \/ UNCHANGED vars
            \/ StepFails \/ Kill \/ Terminate \/ ChangeRoute \/ ChangeDns \/ ChangeOffer
    <2>1. /\ UNCHANGED <<tunnel, plumbed>>
          /\ UNCHANGED budget \/ \E kind \in Kinds : Spend(kind)
        BY <1>12 DEF TimerExpires, GraceExpires, RequestRefresh, Noise, StepFails, Kill,
               Terminate, ChangeRoute, ChangeDns, ChangeOffer, vars, Kinds
    <2>2. QED BY <1>1, <2>1
<1>13. QED
    BY <1>2, <1>3, <1>4, <1>5, <1>6, <1>7, <1>8, <1>9, <1>10, <1>11, <1>12
    DEF Next, Daemon, Faults, World

\* A tunnel lacks its IPv4 part only after somebody has taken it away, after a
\* setup or teardown has failed, or after the daemon has been killed during one.
THEOREM PlumbedByItself == Spec => []PlumbedUnlessDisturbed
<1>1. Init => PlumbedInv
  <2>1. Init => TypeOK /\ BudgetShrinks
      BY EndInit DEF EndInv
  <2>2. Init => PlumbedUnlessDisturbed
      BY DEF Init, PlumbedUnlessDisturbed
  <2>3. QED BY <2>1, <2>2 DEF PlumbedInv
<1>2. PlumbedInv => PlumbedUnlessDisturbed
    BY DEF PlumbedInv
<1>3. QED BY <1>1, <1>2, PlumbedStep, PTL DEF Spec

(***************************************************************************)
(* What the liveness properties need besides the fairness of Daemon.       *)
(***************************************************************************)
\* The daemon has been told to stop, and has heard it or is about to.
Told == term \/ pc \in {"stopping", "teardown", "unlink"}

\* How far the daemon is from its end then.
StepsLeft ==
    CASE pc = "armed" -> 11                     [] pc = "classify" -> 10
      [] pc = "observe" -> 9                    [] pc \in {"discover", "resolve"} -> 8
      [] pc = "reconcile" -> 7                  [] pc = "rebuild" -> 6
      [] pc = "publish" -> 5                    [] pc = "wait" -> 4
      [] pc = "stopping" -> 3                   [] pc = "teardown" -> 2
      [] pc = "unlink" -> 1                     [] OTHER -> 0

\* From a shutdown request on, every step of the daemon leads on, none back into a
\* pass that would wait again, and nothing else that happens can turn it away.
ShutdownGetsOn ==
    [][ Told => /\ Told' \/ pc' = "off"
                /\ Daemon => StepsLeft' < StepsLeft
                /\ StepsLeft' <= StepsLeft ]_vars

\* Once a scheduled wake is due the next step of the daemon, or the one after a batch
\* has been classified, is a pass or the shutdown: no notification is taken before.
DueComesNext ==
    [][ due /\ Daemon => ~due' \/ (pc = "classify" /\ pc' = "wait") ]_vars

\* Only these have signals to hear or timers to wait for.
WaitInv ==
    /\ term => pc \in {"armed"} \cup Loop
    /\ due => pc \in {"wait", "classify"}

LEMMA QuietStep ==
    ASSUME \/ GraceExpires \/ RequestRefresh \/ Noise \/ World \/ UNCHANGED vars
    PROVE  UNCHANGED <<pc, term, due>>
<1>1. CASE GraceExpires \/ RequestRefresh \/ Noise \/ UNCHANGED vars
    BY <1>1 DEF GraceExpires, RequestRefresh, Noise, vars, memory
<1>2. CASE ChangeTunnel \/ MakeForeignTunnel \/ LosePlumbing
    BY <1>2 DEF ChangeTunnel, MakeForeignTunnel, LosePlumbing, memory
<1>3. CASE ChangeRoute \/ ChangeDns \/ ChangeOffer
    BY <1>3 DEF ChangeRoute, ChangeDns, ChangeOffer, memory
<1>4. QED BY <1>1, <1>2, <1>3 DEF World

LEMMA WaitStep == TypeOK /\ WaitInv /\ [Next]_vars => WaitInv'
<1> SUFFICES ASSUME TypeOK, WaitInv, [Next]_vars PROVE WaitInv'
    OBVIOUS
<1> USE DEF WaitInv, Loop, memory
<1>1. CASE \/ StartDaemon \/ RemoveStatus \/ InstallHandlers \/ Subscribe \/ Observe
           \/ Discover \/ ResolveFails \/ Resolve \/ DoNothing \/ Publish
    BY <1>1 DEF StartDaemon, RemoveStatus, InstallHandlers, Subscribe, Observe,
           Discover, ResolveFails, Resolve, DoNothing, PlanIs, Publish
<1>2. CASE SetUp \/ Update \/ TearDown
    BY <1>2 DEF SetUp, Update, TearDown, MustSetUp, MustTearDown, PlanIs
<1>3. CASE \/ SetUpCollides \/ Vanished \/ Finish \/ SetUpFails \/ UpdateFails
           \/ TearDownFails \/ StepFails \/ Kill
    BY <1>3 DEF SetUpCollides, Vanished, Finish, SetUpFails, UpdateFails,
           TearDownFails, StepFails, Kill, Die, End, Forget
<1>4. CASE \/ Shutdown \/ WakeOnRefresh \/ WakeOnTimer \/ BatchBegins \/ BatchEnds
           \/ Classify \/ ObserveLast
    BY <1>4 DEF Shutdown, WakeOnRefresh, WakeOnTimer, BatchBegins, BatchEnds,
           Classify, ObserveLast, NextPass, Branch
<1>5. CASE Terminate
    BY <1>5 DEF Terminate, Listening, Die, End, Forget
<1>6. CASE TimerExpires
    BY <1>6 DEF TimerExpires
<1>7. CASE \/ GraceExpires \/ RequestRefresh \/ Noise \/ World \/ UNCHANGED vars
    <2>1. UNCHANGED <<pc, term, due>>
        BY <1>7, QuietStep
    <2>2. QED BY <2>1
<1>8. QED BY <1>1, <1>2, <1>3, <1>4, <1>5, <1>6, <1>7 DEF Next, Daemon, Faults

LEMMA WaitAlways == Spec => [](TypeOK /\ WaitInv)
<1>1. Init => TypeOK /\ WaitInv
    BY EndInit DEF EndInv, Init, WaitInv
<1>2. QED BY <1>1, TypeStep, WaitStep, PTL DEF Spec

\* A shutdown cannot be put off for ever, by noise, faults or the rest of the world:
\* what StopsWhenTold needs besides fairness.
THEOREM NothingPutsShutdownOff == Spec => ShutdownGetsOn
<1> DEFINE GetsOn == Told => /\ Told' \/ pc' = "off"
                             /\ Daemon => StepsLeft' < StepsLeft
                             /\ StepsLeft' <= StepsLeft
<1>1. ASSUME TypeOK, WaitInv, Next, Told PROVE GetsOn
  <2>1. pc \in {"armed"} \cup Loop
      BY <1>1 DEF Told, WaitInv, Loop
  <2>2. CASE pc' = "off"
      BY <2>1, <2>2 DEF StepsLeft, Loop
  <2>3. CASE Daemon /\ pc' # "off"
    <3>1. CASE \/ Subscribe \/ Observe \/ Discover \/ ResolveFails \/ Resolve
               \/ DoNothing \/ Publish
        BY <1>1, <2>1, <3>1 DEF Told, Subscribe, Observe, Discover, ResolveFails,
               Resolve, DoNothing, PlanIs, Publish, StepsLeft, memory
    <3>2. CASE SetUp \/ Update \/ TearDown
        BY <1>1, <2>1, <3>2 DEF Told, SetUp, Update, TearDown, MustSetUp, MustTearDown,
               PlanIs, StepsLeft, memory
    <3>3. CASE \/ Shutdown \/ WakeOnRefresh \/ WakeOnTimer \/ BatchBegins \/ BatchEnds
               \/ Classify \/ ObserveLast
        BY <1>1, <2>1, <3>3 DEF Told, Shutdown, WakeOnRefresh, WakeOnTimer, BatchBegins,
               BatchEnds, Classify, ObserveLast, NextPass, Branch, StepsLeft, memory
    <3>4. CASE StartDaemon \/ RemoveStatus \/ InstallHandlers
        BY <2>1, <3>4 DEF StartDaemon, RemoveStatus, InstallHandlers, Loop
    <3>5. CASE SetUpCollides \/ Vanished \/ Finish
        BY <2>3, <3>5 DEF SetUpCollides, Vanished, Finish, Die, End
    <3>6. QED BY <2>3, <3>1, <3>2, <3>3, <3>4, <3>5 DEF Daemon
  <2>4. CASE ~Daemon /\ pc' # "off"
    <3>1. CASE GraceExpires \/ RequestRefresh \/ Noise \/ World
        BY <1>1, <2>1, <2>4, <3>1, QuietStep DEF Told, StepsLeft
    <3>2. CASE TimerExpires
        BY <1>1, <2>1, <2>4, <3>2 DEF TimerExpires, Told, StepsLeft
    <3>3. CASE Terminate
        <4>1. UNCHANGED pc /\ term'
            BY <2>4, <3>3 DEF Terminate, Die, End
        <4>2. QED BY <2>1, <2>4, <4>1 DEF Told, StepsLeft
    <3>4. CASE SetUpFails \/ UpdateFails \/ TearDownFails \/ StepFails \/ Kill
        BY <2>4, <3>4 DEF SetUpFails, UpdateFails, TearDownFails, StepFails, Kill, Die, End
    <3>5. QED BY <1>1, <2>4, <3>1, <3>2, <3>3, <3>4 DEF Next, Faults
  <2>5. QED BY <2>2, <2>3, <2>4
<1>2. TypeOK /\ WaitInv /\ [Next]_vars => [GetsOn]_vars
    BY <1>1
<1>3. QED
    BY <1>2, WaitAlways, PTL DEF Spec, ShutdownGetsOn

\* Nor can a scheduled pass be: what TimerHonoured needs besides fairness.
THEOREM NoisePostponesNothing == Spec => DueComesNext
<1>1. TypeOK /\ WaitInv /\ [Next]_vars
        => [due /\ Daemon => ~due' \/ (pc = "classify" /\ pc' = "wait")]_vars
  <2> SUFFICES ASSUME WaitInv, due, Daemon
               PROVE  ~due' \/ (pc = "classify" /\ pc' = "wait")
      OBVIOUS
  <2>1. pc \in {"wait", "classify"}
      BY DEF WaitInv
  <2>2. Shutdown \/ WakeOnRefresh \/ WakeOnTimer \/ BatchBegins \/ BatchEnds \/ Classify
      BY <2>1 DEF Daemon, StartDaemon, RemoveStatus, InstallHandlers, Subscribe, Observe,
             Discover, ResolveFails, Resolve, DoNothing, PlanIs, SetUp, SetUpCollides,
             Update, TearDown, Vanished, MustSetUp, MustTearDown, Publish, ObserveLast,
             Finish
  <2>3. QED
      BY <2>1, <2>2 DEF Shutdown, WakeOnRefresh, WakeOnTimer, BatchBegins, BatchEnds,
             Classify, NextPass, Branch
<1>2. QED
    BY <1>1, WaitAlways, PTL DEF Spec, DueComesNext
===============================================================================
