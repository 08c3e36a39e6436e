----------------------------- MODULE LinuxBackend -----------------------------
(***************************************************************************)
(* LinuxBackend (tunnel/linux.rs): setup, update and teardown as sequences *)
(* of netlink requests, each of which may fail, while other programs work  *)
(* on the same link, address and route. observe is a single request that   *)
(* changes nothing.                                                        *)
(***************************************************************************)
EXTENDS Lifecycle

CONSTANT Idle

ASSUME IdleIsNoCall == Idle \notin Calls

VARIABLES
    pc,        \* the request that comes next, or "idle"
    call,      \* the call and its arguments
    result,    \* how the last call ended
    found,     \* the interface index in hand: none, the link's, a removed link's
    link,      \* the link of the configured name
    address,   \* it has the B4 address
    gateway,   \* where the IPv4 default route goes: nowhere, through it, elsewhere
    before,    \* history: tunnel and plumbed when the call began or, later,
               \* somebody else has last done something
    faults,    \* history: the requests of the call that failed for reasons of their own,
               \* and whether the process was killed
    alone      \* history: nobody else has done anything since the call began

kernel == <<link, address, gateway>>
vars   == <<pc, call, result, found, kernel, before, faults, alone>>

Plumbed == address /\ gateway = "link"

Seen == [tunnel |-> link, plumbed |-> Plumbed]

\* The backend as its callers see it: unless somebody interferes, a call takes
\* effect when it returns.
Shown == IF pc = "idle" \/ ~alone THEN Seen ELSE before

Pending == IF pc = "idle" THEN Idle ELSE call

Abstract == INSTANCE Backend WITH
    tunnel <- Shown.tunnel, plumbed <- Shown.plumbed, call <- Pending

Requests == {"add", "lookup", "address", "route", "rollback", "change", "delete"}

TypeOK ==
    /\ pc \in {"idle"} \cup Requests
    /\ call \in Calls \cup {Idle}
    /\ result \in {"none", "ok", "failed"}
    /\ found \in {"none", "link", "gone"} /\ (found = "link" => link # Absent)
    /\ link \in Observed
    /\ address \in BOOLEAN /\ (address => link # Absent)
    /\ gateway \in {"none", "link", "other"} /\ (gateway = "link" => link # Absent)
    /\ before \in [tunnel : Observed, plumbed : BOOLEAN]
    /\ faults \subseteq Requests \cup {"kill"}
    /\ alone \in BOOLEAN

Init ==
    /\ pc = "idle" /\ call = Idle /\ result = "none" /\ found = "none"
    /\ link \in Observed
    /\ address \in BOOLEAN /\ (address => link # Absent)
    /\ gateway \in {"none", "link", "other"}
    /\ gateway = "link" => link # Absent /\ link.up
    /\ before = Seen /\ faults = {} /\ alone = TRUE
-------------------------------------------------------------------------------
Begin ==
    /\ pc = "idle" /\ call' \in Calls
    /\ pc' = IF call'.op = "setup" THEN "add" ELSE "lookup"
    /\ result' = "none" /\ found' = "none"
    /\ before' = Seen /\ faults' = {} /\ alone' = TRUE
    /\ UNCHANGED kernel

\* A step of the call in progress: it goes on to another request, or returns.
GoOn(from, to) ==
    pc = from /\ pc' = to /\ UNCHANGED <<call, result, before, faults, alone>>

Return(from, outcome) ==
    /\ pc = from /\ pc' = "idle" /\ result' = outcome /\ found' = "none"
    /\ UNCHANGED <<call, before, faults, alone>>

\* The kernel removes a link with its address and its routes.
RemoveLink ==
    /\ link' = Absent /\ address' = FALSE
    /\ gateway' = IF gateway = "link" THEN "none" ELSE gateway
-------------------------------------------------------------------------------
(***************************************************************************)
(* setup.                                                                  *)
(***************************************************************************)
\* create_tunnel: the link is created with all its properties, and up.
AddLink ==
    /\ GoOn("add", "lookup") /\ link = Absent
    /\ link' \in Created(call.desired)
    /\ UNCHANGED <<found, address, gateway>>

\* EEXIST.
NameTaken == Return("add", "failed") /\ link # Absent /\ UNCHANGED kernel

\* Mutant: that there is no such link goes unnoticed.
Lookup_Unchecked ==
    /\ GoOn("lookup", CASE call.op = "setup"  -> "address"
                        [] call.op = "update" -> "change"
                        [] OTHER              -> "delete")
    /\ found' = "link"
    /\ UNCHANGED kernel

\* get_link_index, by name: whose link it is now is not asked.
Lookup ==
    /\ GoOn("lookup", CASE call.op = "setup"  -> "address"
                        [] call.op = "update" -> "change"
                        [] OTHER              -> "delete")
    /\ link # Absent /\ found' = "link"
    /\ UNCHANGED kernel

NotFound == Return("lookup", "failed") /\ link = Absent /\ UNCHANGED kernel

\* A request by index reaches the link that had it, or none.
AddAddress ==
    /\ GoOn("address", "route") /\ found = "link" /\ ~address
    /\ address' = TRUE
    /\ UNCHANGED <<found, link, gateway>>

AddressRefused ==
    /\ GoOn("address", "rollback") /\ (found = "gone" \/ address)
    /\ UNCHANGED <<found, kernel>>

\* The gateway is reached through the link's address. There may be one default
\* route (of that priority): the request does not replace it.
MayRoute == found = "link" /\ link.up /\ address /\ gateway = "none"

\* Mutant: the request replaces a default route.
AddRoute_Replaces ==
    /\ Return("route", "ok") /\ found = "link" /\ link.up /\ address
    /\ gateway' = "link"
    /\ UNCHANGED <<link, address>>

AddRoute ==
    /\ Return("route", "ok") /\ MayRoute
    /\ gateway' = "link"
    /\ UNCHANGED <<link, address>>

\* Mutant: only a refused address is rolled back.
RouteRefused_Returns == Return("route", "failed") /\ ~MayRoute /\ UNCHANGED kernel

RouteRefused ==
    /\ GoOn("route", "rollback") /\ ~MayRoute
    /\ UNCHANGED <<found, kernel>>

\* rollback_setup: a failure to delete the link is only logged.
Rollback ==
    /\ Return("rollback", "failed")
    /\ IF found = "link" THEN RemoveLink ELSE UNCHANGED kernel
-------------------------------------------------------------------------------
(***************************************************************************)
(* update and teardown.                                                    *)
(***************************************************************************)
\* Mutant: a link that is down stays down.
Changed_NotUp ==
    LET c == call.changes
    IN  [link EXCEPT !.mtu   = IF c.mtu = Unset THEN @ ELSE c.mtu,
                     !.limit = IF c.limit = Unset THEN @ ELSE c.limit]

\* build_update_message: a limit is sent as tunnel data, and the tunnel data
\* has the desired endpoints.
Changed ==
    LET c == call.changes
        t == [link EXCEPT !.mtu   = IF c.mtu = Unset THEN @ ELSE c.mtu,
                          !.limit = IF c.limit = Unset THEN @ ELSE c.limit,
                          !.up    = @ \/ c.up]
    IN  IF c.limit = Unset THEN t
        ELSE [t EXCEPT !.local = call.desired.local, !.remote = call.desired.remote]

Change ==
    /\ Return("change", "ok") /\ found = "link"
    /\ link' = Changed
    /\ UNCHANGED <<address, gateway>>

ChangeRefused == Return("change", "failed") /\ found = "gone" /\ UNCHANGED kernel

\* Mutant: the link is deleted by its name.
Delete_ByName == Return("delete", "ok") /\ link # Absent /\ RemoveLink

\* delete_link, by the index.
Delete == Return("delete", "ok") /\ found = "link" /\ RemoveLink

DeleteRefused == Return("delete", "failed") /\ found = "gone" /\ UNCHANGED kernel
-------------------------------------------------------------------------------
\* The request that comes next fails without effect: no socket, no buffer, no
\* permission, a kernel that refuses.
RequestFails ==
    /\ pc # "idle"
    /\ faults' = faults \cup {pc}
    /\ IF pc \in {"address", "route"}
         THEN pc' = "rollback" /\ UNCHANGED <<result, found>>
         ELSE pc' = "idle" /\ result' = "failed" /\ found' = "none"
    /\ UNCHANGED <<call, kernel, before, alone>>

\* The process ends between two requests. (If it ends after the last one, the call
\* has returned as far as the kernel is concerned.)
Kill ==
    /\ pc # "idle" /\ pc' = "idle" /\ result' = "failed" /\ found' = "none"
    /\ faults' = faults \cup {"kill"}
    /\ UNCHANGED <<call, kernel, before, alone>>
-------------------------------------------------------------------------------
(***************************************************************************)
(* Other programs, at any moment.                                          *)
(***************************************************************************)
Elsewhere ==
    alone' = FALSE /\ before' = Seen' /\ UNCHANGED <<pc, call, result, faults>>

\* With a link that goes down go its routes.
ChangeLink ==
    /\ link # Absent /\ link' \in Tunnel \ {link}
    /\ gateway' = IF gateway = "link" /\ ~link'.up THEN "none" ELSE gateway
    /\ UNCHANGED <<found, address>> /\ Elsewhere

\* An index in hand is then one of no link any more.
DeleteLink ==
    /\ link # Absent /\ RemoveLink
    /\ found' = IF found = "link" THEN "gone" ELSE found
    /\ Elsewhere

MakeLink ==
    /\ link = Absent /\ link' \in Tunnel
    /\ UNCHANGED <<found, address, gateway>> /\ Elsewhere

ChangeAddress ==
    /\ link # Absent /\ address' = ~address
    /\ UNCHANGED <<found, link, gateway>> /\ Elsewhere

ChangeGateway ==
    /\ gateway' \in {"none", "other"} \ {gateway}
    /\ UNCHANGED <<found, link, address>> /\ Elsewhere
-------------------------------------------------------------------------------
Own ==
    \/ Begin \/ AddLink \/ NameTaken \/ Lookup \/ NotFound
    \/ AddAddress \/ AddressRefused \/ AddRoute \/ RouteRefused \/ Rollback
    \/ Change \/ ChangeRefused \/ Delete \/ DeleteRefused \/ RequestFails
    \/ Kill

Others == ChangeLink \/ DeleteLink \/ MakeLink \/ ChangeAddress \/ ChangeGateway

Next == Own \/ Others

Spec == Init /\ [][Next]_vars
-------------------------------------------------------------------------------
\* The backend does what reconciliation relies on: unless somebody interferes,
\* its calls have the effects, as a whole, that Reconciler gives them.
Implements == Abstract!Spec

SetUpFailed == pc = "idle" /\ result = "failed" /\ call.op = "setup" /\ alone

\* The contract of TunnelBackend: of a setup that fails nothing remains, as
\* long as the link can be deleted and the process lives to do it.
RollsBack == SetUpFailed /\ faults \cap {"rollback", "kill"} = {} => Seen = before

\* It holds but for a failure to look up the link after its creation.
RollsBackUnlessUnseen ==
    SetUpFailed /\ faults \cap {"rollback", "kill", "lookup"} = {} => Seen = before

\* No request of the backend takes away somebody else's default route, whether it
\* was there when the call began or has come since, as while setup makes the link:
\* setup does not replace it, and neither rollback nor teardown removes it. (The
\* steps of a call are those that change pc. Other programs may do as they like.)
KeepsForeignRoute == [][gateway = "other" /\ pc' # pc => gateway' = "other"]_vars

\* A link that has taken the place of the one a call has looked up is left
\* alone, whatever the call goes on to do.
SparesSuccessor == [][found = "gone" /\ pc' # pc => link' = link]_vars
===============================================================================
