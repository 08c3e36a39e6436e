-------------------------- MODULE LinuxBackend_proofs --------------------------
(***************************************************************************)
(* LinuxBackend implements Backend, and rolls a failed setup back, for all *)
(* addresses, MTUs and limits.                                             *)
(***************************************************************************)
EXTENDS LinuxBackend, TLAPS

\* What is known of a setup that has created the link.
Made ==
    /\ before = [tunnel |-> Absent, plumbed |-> FALSE]
    /\ link \in Created(call.desired) /\ gateway # "link"

\* Which call a request belongs to, and what the call has done so far.
Progress ==
    /\ pc # "idle" => call \in Calls
    /\ pc \in {"add", "address", "route", "rollback"} => call.op = "setup"
    /\ pc = "change" => call.op = "update"
    /\ pc = "delete" => call.op = "teardown"
    /\ pc \in {"idle", "add", "lookup"} => found = "none"
    /\ alone =>
        /\ pc = "add" => Seen = before
        /\ pc = "lookup" => IF call.op = "setup" THEN Made ELSE Seen = before
        /\ pc = "address" => Made /\ found = "link"
        /\ pc \in {"route", "rollback"} => Made /\ found = "link"
        /\ pc \in {"change", "delete"} => Seen = before /\ found = "link"

BackendInv == TypeOK /\ Progress /\ RollsBackUnlessUnseen

LEMMA CreatedType ==
    ASSUME NEW d PROVE Created(d) \subseteq Tunnel
    BY DEF Created

LEMMA CallCases ==
    ASSUME NEW c \in Calls
    PROVE  /\ c.op \in {"setup", "update", "teardown"}
           /\ c.op = "setup" => c.desired \in DesiredState
           /\ c.op = "update" => \E o \in Tunnel : /\ c.desired \in DesiredState
                                                   /\ c.changes = Changes(o, c.desired)
<1>1. CASE c \in [op : {"setup"}, desired : DesiredState]
    BY <1>1
<1>2. CASE \E d \in DesiredState : \E o \in Tunnel :
              c = [op |-> "update", desired |-> d, changes |-> Changes(o, d)]
    BY <1>2
<1>3. CASE c = [op |-> "teardown"]
    BY <1>3
<1>4. QED BY <1>1, <1>2, <1>3 DEF Calls, UpdateCalls

LEMMA ChangedUpdates ==
    ASSUME link \in Tunnel
    PROVE  Changed \in Updates(link, call.desired, call.changes)
    BY DEF Changed, Updates, SameEndpoints, Tunnel

LEMMA ChangedType ==
    ASSUME link \in Tunnel, call \in Calls, call.op = "update"
    PROVE  Changed \in Tunnel
<1>1. PICK o \in Tunnel : /\ call.desired \in DesiredState
                          /\ call.changes = Changes(o, call.desired)
    BY CallCases
<1>2. /\ call.changes.mtu \in Mtu \cup {Unset}
      /\ call.changes.limit \in Limit \cup {Disabled, Unset}
      /\ call.changes.up \in BOOLEAN
    BY <1>1 DEF Changes, Tunnel, DesiredState
<1>3. QED BY <1>1, <1>2 DEF Changed, Tunnel, DesiredState
-------------------------------------------------------------------------------
(***************************************************************************)
(* The invariant.                                                          *)
(***************************************************************************)
LEMMA InvInit == Init => BackendInv
<1> SUFFICES ASSUME Init PROVE BackendInv
    OBVIOUS
<1>1. TypeOK
    BY DEF Init, TypeOK, Seen, Plumbed
<1>2. Progress /\ RollsBackUnlessUnseen
    BY DEF Init, Progress, RollsBackUnlessUnseen, SetUpFailed
<1>3. QED BY <1>1, <1>2 DEF BackendInv

LEMMA InvNext == BackendInv /\ [Next]_vars => BackendInv'
<1> SUFFICES ASSUME BackendInv, [Next]_vars PROVE BackendInv'
    OBVIOUS
<1> USE DEF BackendInv
<1>1. CASE Begin
    <2>1. call' \in Calls /\ call'.op \in {"setup", "update", "teardown"}
        BY <1>1, CallCases DEF Begin
    <2>2. TypeOK'
        BY <1>1, <2>1 DEF TypeOK, Begin, kernel, Requests, Seen, Plumbed
    <2>3. Progress' /\ RollsBackUnlessUnseen'
        BY <1>1, <2>1 DEF Progress, Begin, kernel, Seen, Plumbed,
                          RollsBackUnlessUnseen, SetUpFailed
    <2>4. QED BY <2>2, <2>3
<1>2. CASE AddLink
    <2>1. link' \in Tunnel
        BY <1>2, CreatedType DEF AddLink
    <2>2. TypeOK'
        BY <1>2, <2>1, SpecialValues DEF TypeOK, AddLink, GoOn, Requests, Observed
    <2>3. alone' => Made'
        BY <1>2 DEF Progress, TypeOK, AddLink, GoOn, Made, Seen, Plumbed
    <2>4. Progress' /\ RollsBackUnlessUnseen'
        BY <1>2, <2>3 DEF Progress, AddLink, GoOn, RollsBackUnlessUnseen, SetUpFailed
    <2>5. QED BY <2>2, <2>4
<1>3. CASE Lookup
    <2>1. TypeOK'
        BY <1>3 DEF TypeOK, Lookup, GoOn, Requests, kernel
    <2>2. UNCHANGED <<Seen, before, alone, call, gateway, link>> /\ (Made => Made')
        BY <1>3 DEF Lookup, GoOn, kernel, Seen, Plumbed, Made
    <2>3. call.op \in {"setup", "update", "teardown"} /\ call \in Calls
        BY <1>3, CallCases DEF Progress, Lookup, GoOn
    <2>4. Progress' /\ RollsBackUnlessUnseen'
        BY <1>3, <2>2, <2>3 DEF Progress, Lookup, GoOn, RollsBackUnlessUnseen, SetUpFailed
    <2>5. QED BY <2>1, <2>4
<1>4. CASE AddAddress \/ AddressRefused \/ RouteRefused
    <2>1. TypeOK'
        <3>1. CASE AddAddress
            <4>1. address' \in BOOLEAN /\ link' # Absent
                BY <3>1 DEF TypeOK, AddAddress
            <4>2. QED BY <3>1, <4>1 DEF TypeOK, AddAddress, GoOn, Requests
        <3>2. CASE AddressRefused \/ RouteRefused
            <4>1. /\ UNCHANGED <<call, result, before, faults, alone, found>>
                  /\ UNCHANGED <<link, address, gateway>> /\ pc' \in Requests
                BY <3>2 DEF AddressRefused, RouteRefused, GoOn, Requests, kernel
            <4>2. QED BY <4>1 DEF TypeOK
        <3>3. QED BY <1>4, <3>1, <3>2
    <2>2. Progress' /\ RollsBackUnlessUnseen'
        BY <1>4 DEF Progress, AddAddress, AddressRefused, RouteRefused, GoOn, kernel,
                    Made, RollsBackUnlessUnseen, SetUpFailed
    <2>3. QED BY <2>1, <2>2
<1>5. CASE NameTaken
    BY <1>5 DEF NameTaken, Return, kernel, TypeOK, Progress, Seen, Plumbed,
                RollsBackUnlessUnseen, SetUpFailed
<1>6. CASE NotFound
    <2>1. alone => call.op # "setup"
        BY <1>6, CreatedType, SpecialValues DEF NotFound, Return, Progress, Made
    <2>2. QED BY <1>6, <2>1 DEF NotFound, Return, kernel, TypeOK, Progress,
                               RollsBackUnlessUnseen, SetUpFailed
<1>7. CASE AddRoute
    BY <1>7 DEF AddRoute, MayRoute, Return, TypeOK, Progress,
                RollsBackUnlessUnseen, SetUpFailed
<1>8. CASE Rollback
    <2>1. TypeOK' /\ Progress'
        BY <1>8 DEF Rollback, RemoveLink, Return, kernel, TypeOK, Progress, Observed
    <2>2. alone => Seen' = [tunnel |-> Absent, plumbed |-> FALSE]
        BY <1>8 DEF Rollback, RemoveLink, Return, Progress, Seen, Plumbed
    <2>3. RollsBackUnlessUnseen'
        BY <1>8, <2>2 DEF Rollback, Return, Progress, Made,
                          RollsBackUnlessUnseen, SetUpFailed
    <2>4. QED BY <2>1, <2>3
<1>9. CASE Change
    <2>1. link \in Tunnel /\ call \in Calls /\ call.op = "update"
        BY <1>9 DEF Change, Return, Progress, TypeOK, Observed
    <2>2. link' \in Tunnel
        BY <1>9, <2>1, ChangedType DEF Change
    <2>3. TypeOK'
        BY <1>9, <2>2, SpecialValues DEF Change, Return, TypeOK, Observed
    <2>4. QED BY <1>9, <2>3 DEF Change, Return, Progress, RollsBackUnlessUnseen, SetUpFailed
<1>10. CASE Delete
    BY <1>10 DEF Delete, RemoveLink, Return, TypeOK, Observed, Progress,
                 RollsBackUnlessUnseen, SetUpFailed
<1>11. CASE ChangeRefused \/ DeleteRefused
    BY <1>11 DEF ChangeRefused, DeleteRefused, Return, kernel, TypeOK, Progress,
                 RollsBackUnlessUnseen, SetUpFailed
<1>12. CASE RequestFails
    <2>1. CASE pc \in {"address", "route"}
        BY <1>12, <2>1 DEF RequestFails, kernel, TypeOK, Requests, Progress, Made,
                           RollsBackUnlessUnseen, SetUpFailed
    <2>2. CASE pc \notin {"address", "route"}
        <3>1. TypeOK' /\ Progress'
            BY <1>12, <2>2 DEF RequestFails, kernel, TypeOK, Requests, Progress
        <3>2. Seen' = Seen
            BY <1>12 DEF RequestFails, kernel, Seen, Plumbed
        <3>3. RollsBackUnlessUnseen'
            BY <1>12, <2>2, <3>2 DEF RequestFails, TypeOK, Requests, Progress,
                                     RollsBackUnlessUnseen, SetUpFailed
        <3>4. QED BY <3>1, <3>3
    <2>3. QED BY <2>1, <2>2
<1>13. CASE Kill
    <2>1. TypeOK' /\ Progress'
        BY <1>13 DEF Kill, kernel, TypeOK, Requests, Progress
    <2>2. RollsBackUnlessUnseen'
        BY <1>13 DEF Kill, RollsBackUnlessUnseen
    <2>3. QED BY <2>1, <2>2
<1>14. CASE Others
    <2>1. alone' = FALSE /\ UNCHANGED <<pc, call, result, faults>> /\ before' = Seen'
        BY <1>14 DEF Others, ChangeLink, DeleteLink, MakeLink, ChangeAddress,
                     ChangeGateway, Elsewhere
    <2>2. /\ link' \in Observed /\ address' \in BOOLEAN
          /\ gateway' \in {"none", "link", "other"} /\ found' \in {"none", "link", "gone"}
          /\ (address' \/ gateway' = "link" \/ found' = "link") => link' # Absent
        <3>1. CASE ChangeLink \/ MakeLink
            BY <3>1, SpecialValues DEF ChangeLink, MakeLink, TypeOK, Observed
        <3>2. CASE DeleteLink
            BY <3>2 DEF DeleteLink, RemoveLink, TypeOK, Observed
        <3>3. CASE ChangeAddress
            <4>1. address' \in BOOLEAN /\ link' # Absent
                BY <3>3 DEF ChangeAddress
            <4>2. QED BY <3>3, <4>1 DEF ChangeAddress, TypeOK
        <3>4. CASE ChangeGateway
            BY <3>4 DEF ChangeGateway, TypeOK
        <3>5. QED BY <1>14, <3>1, <3>2, <3>3, <3>4 DEF Others
    <2>3. TypeOK'
        BY <2>1, <2>2 DEF TypeOK, Seen, Plumbed
    <2>4. found = "none" => found' = "none"
        BY <1>14 DEF Others, ChangeLink, DeleteLink, MakeLink, ChangeAddress,
                     ChangeGateway
    <2>5. QED BY <2>1, <2>3, <2>4 DEF Progress, RollsBackUnlessUnseen, SetUpFailed
<1>15. CASE UNCHANGED vars
    BY <1>15 DEF vars, kernel, TypeOK, Progress, Made, Seen, Plumbed,
                 RollsBackUnlessUnseen, SetUpFailed
<1>16. QED
    BY <1>1, <1>2, <1>3, <1>4, <1>5, <1>6, <1>7, <1>8, <1>9, <1>10, <1>11,
       <1>12, <1>13, <1>14, <1>15
    DEF Next, Own

LEMMA InvAlways == Spec => []BackendInv
    BY InvInit, InvNext, PTL DEF Spec

\* Type correctness: of requests, indices and kernel state alike.
THEOREM TypeCorrect == Spec => []TypeOK
    BY InvAlways, PTL DEF BackendInv

\* Of a failed setup nothing remains, unless the link's deletion failed, or the
\* lookup of the link after its creation (setup, rollback_setup).
THEOREM FailedSetUpIsUndone == Spec => []RollsBackUnlessUnseen
    BY InvAlways, PTL DEF BackendInv

\* No setup, rollback or teardown takes somebody else's default route away.
THEOREM ForeignRouteIsKept == Spec => KeepsForeignRoute
<1>1. [Next]_vars => [gateway = "other" /\ pc' # pc => gateway' = "other"]_vars
    <2> SUFFICES ASSUME Next, gateway = "other", pc' # pc PROVE gateway' = "other"
        OBVIOUS
    <2>1. ~Others
        BY DEF Others, ChangeLink, DeleteLink, MakeLink, ChangeAddress,
               ChangeGateway, Elsewhere
    <2>2. QED
        BY <2>1 DEF Next, Own, Begin, AddLink, NameTaken, Lookup, NotFound, AddAddress,
               AddressRefused, AddRoute, MayRoute, RouteRefused, Rollback, Change,
               ChangeRefused, Delete, DeleteRefused, RequestFails, Kill, RemoveLink,
               kernel
<1>2. QED BY <1>1, PTL DEF Spec, KeepsForeignRoute

\* Requests by index do nothing to a link that was created after the lookup.
THEOREM SuccessorIsSpared == Spec => SparesSuccessor
<1>1. BackendInv /\ [Next]_vars => [found = "gone" /\ pc' # pc => link' = link]_vars
    <2> SUFFICES ASSUME BackendInv, Next, found = "gone", pc' # pc PROVE link' = link
        OBVIOUS
    <2>1. ~Others
        BY DEF Others, ChangeLink, DeleteLink, MakeLink, ChangeAddress,
               ChangeGateway, Elsewhere
    <2>2. pc \notin {"idle", "add", "lookup"}
        BY DEF BackendInv, Progress
    <2>3. QED
        BY <2>1, <2>2 DEF Next, Own, Begin, AddLink, NameTaken, Lookup, NotFound,
               AddAddress, AddressRefused, AddRoute, RouteRefused, Rollback, Change,
               ChangeRefused, Delete, DeleteRefused, RequestFails, Kill, GoOn, Return,
               kernel
<1>2. QED BY <1>1, InvAlways, PTL DEF Spec, SparesSuccessor
-------------------------------------------------------------------------------
(***************************************************************************)
(* The refinement.                                                         *)
(***************************************************************************)
\* Backend has its own instance of Lifecycle, with the same parameters.
LEMMA SameLifecycle ==
    /\ Abstract!Observed = Observed /\ Abstract!Calls = Calls
    /\ \A d : Abstract!Created(d) = Created(d)
    /\ \A d : Abstract!Remnants(d) = Remnants(d)
    /\ \A t, d, c : Abstract!Updates(t, d, c) = Updates(t, d, c)
<1>1. /\ Abstract!Tunnel = Tunnel /\ Abstract!DesiredState = DesiredState
      /\ \A o, d : Abstract!SameEndpoints(o, d) = SameEndpoints(o, d)
      /\ \A o, d : Abstract!Changes(o, d) = Changes(o, d)
    BY DEF Abstract!Tunnel, Tunnel, Abstract!DesiredState, DesiredState,
           Abstract!SameEndpoints, SameEndpoints, Abstract!Changes, Changes
<1>2. \A c : Abstract!IsEmpty(c) = IsEmpty(c)
    BY DEF Abstract!IsEmpty, IsEmpty
<1>3. \A o, d : Abstract!PlanResolved(o, d) = PlanResolved(o, d)
    BY <1>1, <1>2 DEF Abstract!PlanResolved, PlanResolved
<1>4. \A d : Abstract!UpdateCalls(d) = UpdateCalls(d)
    BY <1>1, <1>3 DEF Abstract!UpdateCalls, UpdateCalls
<1>5. Abstract!Observed = Observed /\ Abstract!Calls = Calls
    BY <1>1, <1>4 DEF Abstract!Observed, Observed, Abstract!Calls, Calls
<1>6. /\ \A d : Abstract!Created(d) = Created(d)
      /\ \A d : Abstract!Remnants(d) = Remnants(d)
    BY <1>1 DEF Abstract!Created, Created, Abstract!Remnants, Remnants
<1>7. \A t, d, c : Abstract!Updates(t, d, c) = Updates(t, d, c)
    BY <1>1 DEF Abstract!Updates, Updates
<1>8. QED BY <1>5, <1>6, <1>7

LEMMA AbstractInit == Init => Abstract!Init
    BY SameLifecycle DEF Init, Abstract!Init, Shown, Pending, Seen, Plumbed

\* What the requests of a call have in common.
LEMMA RequestShape ==
    ASSUME Own, ~Begin
    PROVE  /\ pc # "idle" /\ UNCHANGED <<call, before, alone>>
           /\ \/ pc' # "idle" /\ UNCHANGED result
              \/ pc' = "idle" /\ result' \in {"ok", "failed"}
    BY DEF Own, AddLink, NameTaken, Lookup, NotFound, AddAddress, AddressRefused,
           AddRoute, RouteRefused, Rollback, Change, ChangeRefused, Delete,
           DeleteRefused, RequestFails, Kill, GoOn, Return

LEMMA OthersStep ==
    ASSUME TypeOK', alone' = FALSE,
           \/ UNCHANGED <<pc, call, result>>
           \/ UNCHANGED <<call, result>> /\ pc # "idle" /\ pc' # "idle"
           \/ /\ ~alone /\ pc # "idle" /\ call # Idle
              /\ pc' = "idle" /\ result' \in {"ok", "failed"}
    PROVE  Abstract!Others
<1>1. Shown' = [tunnel |-> link', plumbed |-> Plumbed']
    BY DEF Shown, Seen
<1>2. /\ Shown'.tunnel \in Observed /\ Shown'.plumbed \in BOOLEAN
      /\ Shown'.plumbed => Shown'.tunnel # Absent
    BY <1>1 DEF TypeOK, Plumbed
<1>3. \/ UNCHANGED <<Pending, result>>
      \/ /\ ~alone /\ Pending # Idle /\ Pending' = Idle
         /\ result' \in {"ok", "failed"}
    BY DEF Pending
<1>4. QED BY <1>2, <1>3, SameLifecycle DEF Abstract!Others

LEMMA AbstractNext ==
    BackendInv /\ BackendInv' /\ [Next]_vars => [Abstract!Next]_(Abstract!vars)
<1> SUFFICES ASSUME BackendInv, BackendInv', [Next]_vars
             PROVE  [Abstract!Next]_(Abstract!vars)
    OBVIOUS
<1> USE DEF BackendInv
<1>1. CASE UNCHANGED vars
    BY <1>1 DEF vars, kernel, Abstract!vars, Shown, Pending, Seen, Plumbed
<1>2. CASE Others
    <2>1. alone' = FALSE /\ UNCHANGED <<pc, call, result>>
        BY <1>2 DEF Others, ChangeLink, DeleteLink, MakeLink, ChangeAddress,
                    ChangeGateway, Elsewhere
    <2>2. QED BY <2>1, OthersStep DEF Abstract!Next
<1>3. CASE Begin
    <2>1. Shown' = Shown /\ Pending = Idle /\ Pending' = call'
        BY <1>3 DEF Begin, Shown, Pending, Seen, Plumbed, kernel
    <2>2. Abstract!Call
        BY <1>3, <2>1, SameLifecycle DEF Begin, Abstract!Call
    <2>3. QED BY <2>2 DEF Abstract!Next
<1>4. CASE Own /\ ~Begin /\ ~alone
    <2>1. pc # "idle" => call # Idle
        BY IdleIsNoCall DEF Progress
    <2>2. QED BY <1>4, <2>1, RequestShape, OthersStep DEF Abstract!Next, TypeOK
<1>5. CASE Own /\ ~Begin /\ alone /\ pc' # "idle"
    BY <1>5, RequestShape DEF Abstract!vars, Shown, Pending
<1>6. CASE Own /\ ~Begin /\ alone /\ pc' = "idle"
    <2>1. /\ pc # "idle" /\ UNCHANGED <<call, before, alone>>
          /\ call \in Calls /\ call # Idle
        BY <1>6, RequestShape, IdleIsNoCall DEF Progress
    <2>2. /\ Shown = before /\ Pending = call /\ Pending' = Idle
          /\ Shown' = [tunnel |-> link', plumbed |-> Plumbed']
        BY <1>6, <2>1 DEF Shown, Pending, Seen
    <2>3. ASSUME NEW outcome, result' = outcome PROVE Abstract!Return(outcome)
        BY <1>6, <2>1, <2>2, <2>3 DEF Abstract!Return
    <2>4. CASE Seen' = before /\ result' = "failed"
        BY <2>2, <2>3, <2>4 DEF Abstract!Refuse, Abstract!Next, Seen
    <2>5. CASE AddRoute
        <3>1. Made /\ link' = link /\ Plumbed' /\ result' = "ok" /\ call.op = "setup"
            BY <1>6, <2>5 DEF AddRoute, MayRoute, Return, Progress, Plumbed
        <3>2. Abstract!SetUp
            BY <2>2, <2>3, <3>1, SameLifecycle DEF Abstract!SetUp, Made
        <3>3. QED BY <3>2 DEF Abstract!Next
    <2>6. CASE Change
        <3>1. /\ call.op = "update" /\ Seen = before /\ link \in Tunnel
              /\ link' = Changed /\ Plumbed' = Plumbed /\ result' = "ok"
            BY <1>6, <2>6 DEF Change, Return, Progress, Plumbed, TypeOK, Observed
        <3>2. link # Absent /\ link' \in Updates(link, call.desired, call.changes)
            BY <3>1, ChangedUpdates, SpecialValues
        <3>3. Abstract!Update
            BY <2>2, <2>3, <3>1, <3>2, SameLifecycle DEF Abstract!Update, Seen
        <3>4. QED BY <3>3 DEF Abstract!Next
    <2>7. CASE Delete
        <3>1. /\ call.op = "teardown" /\ Seen = before /\ link # Absent
              /\ link' = Absent /\ Plumbed' = FALSE /\ result' = "ok"
            BY <1>6, <2>7 DEF Delete, RemoveLink, Return, Progress, Plumbed, TypeOK
        <3>2. Abstract!TearDown
            BY <2>2, <2>3, <3>1 DEF Abstract!TearDown, Seen
        <3>3. QED BY <3>2 DEF Abstract!Next
    <2>8. CASE NameTaken \/ NotFound \/ ChangeRefused \/ DeleteRefused
        <3>1. Seen' = Seen /\ result' = "failed"
            BY <2>8 DEF NameTaken, NotFound, ChangeRefused, DeleteRefused, Return,
                        kernel, Seen, Plumbed
        <3>2. ~(pc = "lookup" /\ call.op = "setup")
            BY <1>6, <2>8, CreatedType, SpecialValues
            DEF NameTaken, NotFound, ChangeRefused, DeleteRefused, Return, Progress, Made
        <3>3. Seen = before
            BY <1>6, <2>8, <3>2
            DEF NameTaken, NotFound, ChangeRefused, DeleteRefused, Return, Progress
        <3>4. QED BY <2>4, <3>1, <3>3
    <2>9. CASE Rollback
        <3>1. Made /\ found = "link" /\ result' = "failed"
            BY <1>6, <2>9 DEF Rollback, Return, Progress
        <3>2. Seen' = before
            BY <2>9, <3>1 DEF Rollback, RemoveLink, Made, Seen, Plumbed
        <3>3. QED BY <2>4, <3>1, <3>2
    <2>10. CASE RequestFails \/ Kill
        <3>1. result' = "failed" /\ Seen' = Seen /\ UNCHANGED <<link, gateway>>
            <4>1. UNCHANGED <<link, address, gateway>>
                BY <2>10 DEF RequestFails, Kill, kernel
            <4>2. result' = "failed"
                BY <1>6, <2>10 DEF RequestFails, Kill
            <4>3. QED BY <4>1, <4>2 DEF Seen, Plumbed
        <3>2. CASE Seen = before
            BY <2>4, <3>1, <3>2
        <3>3. CASE Made /\ call.op = "setup"
            <4>1. Abstract!SetUpFails
                BY <2>2, <2>3, <3>1, <3>3, SameLifecycle
                DEF Abstract!SetUpFails, Made, Plumbed, Created, Remnants
            <4>2. QED BY <4>1 DEF Abstract!Next
        <3>4. QED
            BY <1>6, <2>1, <3>2, <3>3 DEF Progress, TypeOK, Requests
    <2>11. QED
        BY <1>6, <2>5, <2>6, <2>7, <2>8, <2>9, <2>10
        DEF Own, AddLink, Lookup, AddAddress, AddressRefused, RouteRefused, GoOn
<1>7. QED BY <1>1, <1>2, <1>3, <1>4, <1>5, <1>6 DEF Next

\* The Linux backend implements the contract that reconciliation relies on
\* (TunnelBackend): setup, update and teardown, seen from outside, are atomic
\* and have the outcomes that Reconciler gives them.
THEOREM Refines == Spec => Implements
<1>1. Spec => Abstract!Init /\ [][Abstract!Next]_(Abstract!vars)
    BY AbstractInit, AbstractNext, InvAlways, PTL DEF Spec
<1>2. QED BY <1>1 DEF Implements, Abstract!Spec
================================================================================
