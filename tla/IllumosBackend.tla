---------------------------- MODULE IllumosBackend ----------------------------
(***************************************************************************)
(* IllumosBackend (tunnel/illumos.rs): setup, update and teardown as       *)
(* ladders of requests to libdladm (the IP tunnel), libipadm (the IP       *)
(* interface on it), a datagram socket (its properties) and a routing      *)
(* socket (pf_route.rs: the default route). Each request may fail; the     *)
(* routing socket answers by a message that may be late or lost; the       *)
(* process may be killed; other programs work on the same objects.         *)
(*                                                                         *)
(* Opening a handle or a datagram socket has no effect of its own: that it *)
(* fails is a failure of the request it is opened for.                     *)
(***************************************************************************)
EXTENDS Lifecycle, Naturals, Sequences

CONSTANTS
    Idle,
    Backlog        \* bound: routing requests the kernel may have before it

ASSUME IllumosAssumption ==
    /\ Idle \notin Calls
    /\ Backlog \in Nat \ {0}
    /\ Mtu # {} /\ Absent \notin [mtu : Mtu, up : BOOLEAN]
    /\ Absent \notin [local : Local, remote : Remote, limit : Limit \cup {Disabled}]

VARIABLES
    pc,        \* the request that comes next, or "idle"
    call,      \* the call and its arguments
    result,    \* how the last call ended
    link,      \* the IP tunnel of the configured name
    interface, \* the IP interface on it
    address,   \* it has the B4 address
    route,     \* there is a default route via the AFTR's well-known address
    sent,      \* routing requests written and not carried out yet, by age
    ack,       \* an acknowledgement the open routing socket would take for its own
    before,    \* history: the kernel's state when the call began
    stuck,     \* history: the call has failed to remove something for reasons
               \* of the system's own
    alone      \* history: nobody else has done anything since the call began,
               \* and no routing request of a former call has been carried out

kernel == <<link, interface, address, route>>
vars   == <<pc, call, result, kernel, sent, ack, before, stuck, alone>>

Link      == [local : Local, remote : Remote, limit : Limit \cup {Disabled}]
Interface == [mtu : Mtu, up : BOOLEAN]

Kernel == [link |-> link, interface |-> interface, address |-> address, route |-> route]

Nothing == [link |-> Absent, interface |-> Absent, address |-> FALSE, route |-> FALSE]

\* Without an interface the tunnel is neither up nor has an MTU.
IsAdminUp(k) == k.interface # Absent /\ k.interface.up
GetMtu(k)    == IF k.interface = Absent THEN CHOOSE m \in Mtu : TRUE ELSE k.interface.mtu

TunnelOf(k) ==
    IF k.link = Absent THEN Absent
    ELSE [local |-> k.link.local, remote |-> k.link.remote, mtu |-> GetMtu(k),
          limit |-> k.link.limit, up |-> IsAdminUp(k)]

\* observe: flags and MTU are asked of the interface, so it fails without one.
Readable(k) == k.link # Absent => k.interface # Absent

\* The backend as its callers see it.
Shown == IF pc = "idle" \/ ~alone THEN Kernel ELSE before

Abstract == INSTANCE Backend WITH
    tunnel <- TunnelOf(Shown), plumbed <- Shown.address /\ Shown.route,
    result <- IF result = "killed" THEN "failed" ELSE result

Removals == {"remove", "removed", "clear", "unplumb", "unlink"}
Steps == Removals \cup
         {"create", "limit", "plumb", "mtu", "address", "up", "open", "add", "added"}

Acks == {"ok", "exists", "missing", "error"}

TypeOK ==
    /\ pc \in {"idle"} \cup Steps
    /\ call \in Calls \cup {Idle} /\ (pc = "idle" <=> call = Idle)
    /\ result \in {"none", "ok", "failed", "killed"}
    /\ link \in Link \cup {Absent}
    /\ interface \in Interface \cup {Absent} /\ (interface # Absent => link # Absent)
    /\ address \in BOOLEAN /\ (address => interface # Absent)
    /\ route \in BOOLEAN
    /\ sent \in Seq([op : {"add", "delete"}, of : {"call", "past", "dead"}])
    /\ Len(sent) <= Backlog
    /\ ack \in Acks \cup {"none"}
    /\ before \in [link : Link \cup {Absent}, interface : Interface \cup {Absent},
                   address : BOOLEAN, route : BOOLEAN]
    /\ stuck \in BOOLEAN
    /\ alone \in BOOLEAN

Init ==
    /\ pc = "idle" /\ call = Idle /\ result = "none"
    /\ link \in Link \cup {Absent}
    /\ interface \in Interface \cup {Absent} /\ (interface # Absent => link # Absent)
    /\ address \in BOOLEAN /\ (address => interface # Absent)
    /\ route \in BOOLEAN
    /\ sent = <<>> /\ ack = "none"
    /\ before = Nothing /\ stuck = FALSE /\ alone = TRUE
-------------------------------------------------------------------------------
(***************************************************************************)
(* The ladders.                                                            *)
(***************************************************************************)
Past(s) == [i \in DOMAIN s |->
               [s[i] EXCEPT !.of = IF @ = "dead" THEN "dead" ELSE "past"]]

Begin ==
    /\ pc = "idle" /\ call' \in Calls
    /\ pc' = CASE call'.op = "setup"    -> "create"
               [] call'.op = "teardown" -> "clear"
               [] OTHER -> IF call'.changes.limit # Unset THEN "limit"
                           ELSE IF call'.changes.mtu # Unset THEN "mtu" ELSE "up"
    /\ result' = "none" /\ sent' = Past(sent)
    /\ before' = Kernel /\ alone' = TRUE
    /\ UNCHANGED <<kernel, ack, stuck>>

\* A call is over; the history of it is not kept.
Return(how) ==
    /\ pc' = "idle" /\ call' = Idle /\ result' = how
    /\ before' = Nothing /\ stuck' = FALSE
    /\ UNCHANGED alone

\* The request after one that has succeeded. A rollback takes the default route
\* away first, a teardown the address.
After(step) ==
    LET setup == call.op = "setup"
    IN  CASE step = "create"  -> IF call.desired.limit = Unset THEN "plumb" ELSE "limit"
          [] step = "limit"   -> IF setup THEN "plumb"
                                 ELSE IF call.changes.mtu # Unset THEN "mtu"
                                 ELSE IF call.changes.up THEN "up" ELSE "idle"
          [] step = "plumb"   -> IF call.desired.mtu = Unset THEN "address" ELSE "mtu"
          [] step = "mtu"     -> IF setup THEN "address"
                                 ELSE IF call.changes.up THEN "up" ELSE "idle"
          [] step = "address" -> "up"
          [] step = "up"      -> IF setup THEN "open" ELSE "idle"
          [] step = "open"    -> "add"
          [] step = "add"     -> "added"
          [] step = "remove"  -> "removed"
          [] step = "removed" -> IF setup THEN "clear" ELSE "unplumb"
          [] step = "clear"   -> IF setup THEN "unplumb" ELSE "remove"
          [] step = "unplumb" -> "unlink"
          [] OTHER            -> "idle"

\* A setup that gets to "unlink" is one that is rolled back.
Advance(step) ==
    /\ pc = step
    /\ IF After(step) = "idle"
         THEN Return(IF call.op = "setup" /\ step = "unlink" THEN "failed" ELSE "ok")
         ELSE pc' = After(step) /\ UNCHANGED <<call, result, before, stuck, alone>>

\* Mutant: the flag is set once the route is known to be there.
Undo_IfAcknowledged ==
    [limit |-> "unlink", plumb |-> "unlink", mtu |-> "unplumb",
     address |-> "unplumb", up |-> "clear", open |-> "clear", add |-> "clear",
     added |-> "clear",
     remove |-> "clear", removed |-> "clear", clear |-> "unplumb",
     unplumb |-> "unlink"]

\* rollback_setup starts with what the flags say may be there, and goes on
\* whatever fails on the way.
Undo ==
    [limit |-> "unlink", plumb |-> "unlink", mtu |-> "unplumb",
     address |-> "unplumb", up |-> "clear", open |-> "clear", add |-> "remove",
     added |-> "remove",
     remove |-> "clear", removed |-> "clear", clear |-> "unplumb",
     unplumb |-> "unlink"]

\* Mutant: without an interface there is nothing to roll back.
Abort_KeepsBareLink(step, removal) ==
    /\ pc = step
    /\ IF call.op = "setup" /\ step \in DOMAIN Undo \ {"limit", "plumb"}
         THEN /\ pc' = Undo[step] /\ stuck' = (stuck \/ removal)
              /\ UNCHANGED <<call, result, before, alone>>
         ELSE Return("failed")

Abort(step, removal) ==
    /\ pc = step
    /\ IF call.op = "setup" /\ step \in DOMAIN Undo
         THEN /\ pc' = Undo[step] /\ stuck' = (stuck \/ removal)
              /\ UNCHANGED <<call, result, before, alone>>
         ELSE Return("failed")
-------------------------------------------------------------------------------
(***************************************************************************)
(* Requests with an effect.                                                *)
(***************************************************************************)
\* create_tunnel, with the platform's limit.
Create ==
    /\ Advance("create") /\ link = Absent
    /\ \E limit \in Limit \cup {Disabled} :
          link' = [local |-> call.desired.local, remote |-> call.desired.remote,
                   limit |-> limit]
    /\ UNCHANGED <<interface, address, route, sent, ack>>

Wanted == IF call.op = "setup" THEN call.desired ELSE call.changes

\* Mutant: the current limit is kept.
SetLimit_Ignored ==
    /\ Advance("limit") /\ link # Absent
    /\ UNCHANGED <<kernel, sent, ack>>

SetLimit ==
    /\ Advance("limit") /\ link # Absent
    /\ link' = [link EXCEPT !.limit = Wanted.limit]
    /\ UNCHANGED <<interface, address, route, sent, ack>>

\* create_if, with the platform's MTU.
Plumb ==
    /\ Advance("plumb") /\ link # Absent /\ interface = Absent
    /\ \E mtu \in Mtu : interface' = [mtu |-> mtu, up |-> FALSE]
    /\ UNCHANGED <<link, address, route, sent, ack>>

SetMtu ==
    /\ Advance("mtu") /\ interface # Absent
    /\ interface' = [interface EXCEPT !.mtu = Wanted.mtu]
    /\ UNCHANGED <<link, address, route, sent, ack>>

\* set_local_addr
SetAddress ==
    /\ Advance("address") /\ interface # Absent
    /\ address' = TRUE
    /\ UNCHANGED <<link, interface, route, sent, ack>>

\* set_dst_addr and set_netmask, of which a setup that fails needs no rollback
\* of their own, and bring_up.
BringUp ==
    /\ Advance("up") /\ interface # Absent
    /\ interface' = [interface EXCEPT !.up = TRUE]
    /\ UNCHANGED <<link, address, route, sent, ack>>

\* set_local_addr(0.0.0.0): a route through the address may go with it.
Clear ==
    /\ Advance("clear") /\ interface # Absent
    /\ address' = FALSE /\ route' \in {FALSE, route}
    /\ UNCHANGED <<link, interface, sent, ack>>

\* delete_if
Unplumb ==
    /\ Advance("unplumb") /\ interface # Absent
    /\ interface' = Absent /\ address' = FALSE /\ route' \in {FALSE, route}
    /\ UNCHANGED <<link, sent, ack>>

\* Mutant: the tunnel goes before its interface.
Unlink_InUse ==
    /\ Advance("unlink") /\ link # Absent
    /\ link' = Absent
    /\ UNCHANGED <<interface, address, route, sent, ack>>

\* delete_tunnel. A link with an interface is in use.
Unlink ==
    /\ Advance("unlink") /\ link # Absent /\ interface = Absent
    /\ link' = Absent
    /\ UNCHANGED <<interface, address, route, sent, ack>>

Possible(step) ==
    CASE step = "create" -> link = Absent
      [] step = "limit"  -> link # Absent
      [] step \in {"plumb", "unlink"} -> link # Absent /\ interface = Absent
      [] step \in {"mtu", "address", "up", "clear", "unplumb"} -> interface # Absent
      [] OTHER -> TRUE

Refused ==
    /\ pc # "idle" /\ ~Possible(pc) /\ Abort(pc, FALSE)
    /\ UNCHANGED <<kernel, sent, ack>>

\* A request fails without effect, for reasons of its own. Of an exchange on
\* the routing socket this is that no acknowledgement comes in time.
Fails ==
    /\ pc # "idle" /\ Abort(pc, pc \in Removals)
    /\ pc \in {"added", "removed"} => ack = "none"
    /\ ack' = "none"
    /\ UNCHANGED <<kernel, sent>>

\* The process ends within a call.
Kill ==
    /\ pc # "idle" /\ Return("killed") /\ ack' = "none"
    /\ sent' = [i \in DOMAIN sent |-> [sent[i] EXCEPT !.of = "dead"]]
    /\ UNCHANGED kernel
-------------------------------------------------------------------------------
(***************************************************************************)
(* The routing socket. Each exchange has a socket of its own, and its      *)
(* sequence numbers start at zero: of the messages with this process's PID *)
(* the first is taken for the acknowledgement, whatever was asked.         *)
(***************************************************************************)
\* The messages that wait for a socket are gone with it.
Open == Advance("open") /\ ack' = "none" /\ UNCHANGED <<kernel, sent>>

Ask(step, op) ==
    /\ Advance(step) /\ Len(sent) < Backlog
    /\ sent' = Append(sent, [op |-> op, of |-> "call"])
    /\ UNCHANGED kernel

Add    == Ask("add", "add") /\ UNCHANGED ack
Remove == Ask("remove", "delete") /\ ack' = "none"

\* The kernel does what it was asked first. The gateway must be reachable.
Outcome(op) ==
    CASE op = "add"    -> IF route THEN "exists"
                          ELSE IF address /\ interface.up THEN "ok" ELSE "error"
      [] op = "delete" -> IF route THEN "ok" ELSE "missing"

\* An acknowledgement reaches the socket that is open then, or is lost. A
\* request that is carried out after its call is like somebody else's.
Acknowledge(answer) ==
    LET request == Head(sent)
        own     == pc # "idle" /\ request.of = "call"
        heard   == /\ pc \in {"add", "added", "removed"}
                   /\ request.of # "dead" /\ ack = "none"
    IN  /\ sent' = Tail(sent)
        /\ ack' \in {ack} \cup (IF heard THEN {answer} ELSE {})
        /\ alone' = (alone /\ own)
        /\ before' = IF alone' THEN before ELSE Nothing

CarryOut ==
    /\ sent # <<>>
    /\ LET op == Head(sent).op
       IN  /\ route' = IF Outcome(op) = "ok" THEN op = "add" ELSE route
           /\ Acknowledge(Outcome(op))
    /\ UNCHANGED <<pc, call, result, link, interface, address, stuck>>

\* The kernel has reasons of its own.
Decline ==
    /\ sent # <<>> /\ Acknowledge("error")
    /\ stuck' = (stuck \/ (pc # "idle" /\ Head(sent).op = "delete"))
    /\ UNCHANGED <<pc, call, result, kernel>>

Added ==
    /\ Advance("added") /\ ack = "ok" /\ ack' = "none"
    /\ UNCHANGED <<kernel, sent>>

\* Mutant: that there is no such route is an error.
Gone_NotTolerated == {"ok"}

\* ESRCH is as good.
Gone == {"ok", "missing"}

Removed ==
    /\ Advance("removed") /\ ack \in Gone /\ ack' = "none"
    /\ UNCHANGED <<kernel, sent>>

NotDone ==
    /\ \/ Abort("added", FALSE)   /\ ack \in Acks \ {"ok"}
       \/ Abort("removed", FALSE) /\ ack \in Acks \ Gone
    /\ ack' = "none"
    /\ UNCHANGED <<kernel, sent>>
-------------------------------------------------------------------------------
(***************************************************************************)
(* Other programs, at any moment.                                          *)
(***************************************************************************)
Elsewhere ==
    /\ alone' = FALSE /\ before' = Nothing
    /\ UNCHANGED <<pc, call, result, sent, ack, stuck>>

ChangeLink ==
    /\ link' \in (Link \cup {Absent}) \ {link}
    /\ link' = Absent => interface = Absent
    /\ UNCHANGED <<interface, address, route>> /\ Elsewhere

ChangeInterface ==
    /\ link # Absent /\ interface' \in (Interface \cup {Absent}) \ {interface}
    /\ address' = (address /\ interface' # Absent)
    /\ route' \in {FALSE, route}
    /\ UNCHANGED link /\ Elsewhere

ChangeAddress ==
    /\ interface # Absent /\ address' = ~address /\ route' \in {FALSE, route}
    /\ UNCHANGED <<link, interface>> /\ Elsewhere

ChangeRoute == route' = ~route /\ UNCHANGED <<link, interface, address>> /\ Elsewhere
-------------------------------------------------------------------------------
Own ==
    \/ Begin \/ Create \/ SetLimit \/ Plumb \/ SetMtu \/ SetAddress \/ BringUp
    \/ Clear \/ Unplumb \/ Unlink \/ Refused \/ Fails \/ Kill
    \/ Open \/ Add \/ Remove \/ Added \/ Removed \/ NotDone

Others == ChangeLink \/ ChangeInterface \/ ChangeAddress \/ ChangeRoute

Next == Own \/ CarryOut \/ Decline \/ Others

Spec == Init /\ [][Next]_vars
-------------------------------------------------------------------------------
\* The backend does what reconciliation relies on, unless somebody interferes or
\* a request that a former call has given up takes effect.
Implements == Abstract!Spec

Ends(op, how) == call.op = op /\ pc' = "idle" /\ result' = how /\ alone

NothingRemains ==
    /\ pc # "idle" /\ Ends("setup", "failed")
    /\ ~stuck /\ (pc = "unlink" => ~Fails)
    => /\ <<link', interface', address'>>
             = <<before.link, before.interface, before.address>>
       /\ route' => before.route \/ \E i \in DOMAIN sent : sent[i].op = "delete"

\* The contract of TunnelBackend: of a setup that fails nothing remains, unless
\* the removal of something fails too. A default route may still be there if the
\* request to remove it, unanswered in time, has yet to be carried out.
RollsBack == [][NothingRemains]_vars

UnreadableOnly ==
    /\ pc # "idle" /\ pc' = "idle" /\ alone
    /\ Readable(before) /\ ~Readable(Kernel')
    => result' = "killed" \/ (pc = "unlink" /\ Fails)

\* A call leaves a tunnel that observe cannot read, and with it every later
\* reconciliation fail, only if the process is killed or the link alone cannot
\* be removed.
StaysReadable == [][UnreadableOnly]_vars

RepeatableUnless ==
    pc # "idle" /\ Ends("teardown", "failed") /\ ~Fails /\ ~stuck
    => before.link = Absent \/ before.interface = Absent

\* A teardown that has failed before it removed the interface can be repeated,
\* whatever it had done: only a missing link or interface is in its way.
TearDownRepeats == [][RepeatableUnless]_vars
===============================================================================
