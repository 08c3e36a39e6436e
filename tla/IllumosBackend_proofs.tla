------------------------- MODULE IllumosBackend_proofs -------------------------
(***************************************************************************)
(* IllumosBackend implements Backend, for all addresses, MTUs, limits and  *)
(* any number of outstanding routing requests, and rolls back.             *)
(***************************************************************************)
EXTENDS IllumosBackend, TLAPS

\* The routing requests of the call in progress.
Mine == {i \in DOMAIN sent : sent[i].of = "call"}

\* Which call a request belongs to, and which of its arguments are there.
CallInv ==
    /\ pc # "idle" => call \in Calls
    /\ pc \in {"create", "plumb", "address", "open", "add", "added"} => call.op = "setup"
    /\ pc \in {"limit", "mtu", "up"} => call.op \in {"setup", "update"}
    /\ pc \in Removals => call.op \in {"setup", "teardown"}
    /\ pc = "limit" => Wanted.limit # Unset
    /\ pc = "mtu" => Wanted.mtu # Unset
    /\ pc = "up" /\ call.op = "update" => call.changes.up
    /\ pc \notin {"add", "added", "removed"} => ack = "none"

\* A setup that has created the tunnel: what it and the interface are by now.
MadeInv ==
    /\ <<before.link, before.interface, before.address>> = <<Absent, Absent, FALSE>>
    /\ link # Absent
    /\ link.local = call.desired.local /\ link.remote = call.desired.remote
    /\ pc \notin Removals \cup {"limit"} => call.desired.limit \in {Unset, link.limit}
    /\ pc \in {"limit", "plumb"} => interface = Absent
    /\ pc \notin {"limit", "plumb", "unlink"} => interface # Absent
    /\ pc \in {"address", "up", "open", "add", "added"}
         => call.desired.mtu \in {Unset, interface.mtu}
    /\ pc \in {"up", "open", "add", "added"} => address
    /\ pc \in {"open", "add", "added"} => interface.up
    /\ pc = "unlink" /\ ~stuck => interface = Absent

\* A request to delete the default route comes after everything else the setup
\* has asked for, however late that is carried out.
RouteInv ==
    /\ pc \in {"added", "remove"} =>
         /\ \A i \in Mine : i = Len(sent) /\ sent[i].op = "add"
         /\ ack = "ok" => route
    /\ pc \in Removals \ {"remove"} =>
         \/ Mine = {} /\ (route => before.route)
         \/ /\ sent # <<>> /\ Len(sent) \in Mine /\ sent[Len(sent)].op = "delete"
            /\ \A i \in Mine : sent[i].op = "delete" => i = Len(sent)
         \/ stuck
    /\ pc \notin Removals \cup {"added"} =>
         Mine = {} /\ route = before.route /\ (pc = "add" => ack = "none")

SetUpInv ==
    IF pc = "create" THEN Kernel = before /\ Mine = {} ELSE MadeInv /\ RouteInv

\* An update has made the changes before the present one.
UpdateInv ==
    /\ address = before.address /\ route = before.route /\ Mine = {}
    /\ IF pc = "limit" \/ call.changes.limit = Unset THEN link = before.link
       ELSE before.link # Absent /\ link = [before.link EXCEPT !.limit = call.changes.limit]
    /\ IF pc # "up" \/ call.changes.mtu = Unset THEN interface = before.interface
       ELSE /\ before.interface # Absent
            /\ interface = [before.interface EXCEPT !.mtu = call.changes.mtu]

\* A teardown goes down the ladder: what it has not come to is as it was.
TearDownInv ==
    /\ \A i \in Mine : sent[i].op = "delete"
    /\ pc \in {"clear", "remove"} => Mine = {}
    /\ pc = "clear" => Kernel = before
    /\ pc # "clear" => link = before.link /\ link # Absent /\ ~address
    /\ pc \in {"remove", "removed", "unplumb"} => interface = before.interface /\ interface # Absent
    /\ pc = "unlink" => interface = Absent
    /\ pc = "removed" /\ ~stuck => ack \in {"none"} \cup Gone

Progress ==
    alone /\ pc # "idle" =>
        CASE call.op = "setup"    -> SetUpInv
          [] call.op = "update"   -> UpdateInv
          [] call.op = "teardown" -> TearDownInv

BackendInv == TypeOK /\ CallInv /\ Progress
-------------------------------------------------------------------------------
(***************************************************************************)
(* Calls and requests.                                                     *)
(***************************************************************************)
LEMMA CallCases ==
    ASSUME NEW c \in Calls
    PROVE  /\ c.op \in {"setup", "update", "teardown"}
           /\ c.op = "setup" => c.desired \in DesiredState
           /\ c.op = "update" =>
                /\ c.desired \in DesiredState
                /\ c.changes.mtu \in Mtu \cup {Unset}
                /\ c.changes.limit \in Limit \cup {Disabled, Unset}
                /\ c.changes.up \in BOOLEAN
                /\ c.changes.limit # Unset \/ c.changes.mtu # Unset \/ c.changes.up
<1>1. CASE c \in [op : {"setup"}, desired : DesiredState]
    BY <1>1
<1>2. CASE \E d \in DesiredState : c \in UpdateCalls(d)
  <2>1. PICK d \in DesiredState, o \in Tunnel :
            /\ PlanResolved(o, d) = "update"
            /\ c = [op |-> "update", desired |-> d, changes |-> Changes(o, d)]
      BY <1>2 DEF UpdateCalls
  <2>2. ~IsEmpty(Changes(o, d))
      BY <2>1 DEF PlanResolved
  <2>3. /\ Changes(o, d).mtu \in Mtu \cup {Unset}
        /\ Changes(o, d).limit \in Limit \cup {Disabled, Unset}
        /\ Changes(o, d).up \in BOOLEAN
      BY DEF Changes, Tunnel, DesiredState
  <2>4. QED BY <2>1, <2>2, <2>3 DEF IsEmpty
<1>3. CASE c = [op |-> "teardown"]
    BY <1>3
<1>4. QED BY <1>1, <1>2, <1>3 DEF Calls

Request == [op : {"add", "delete"}, of : {"call", "past", "dead"}]
Before  == [link : Link \cup {Absent}, interface : Interface \cup {Absent},
            address : BOOLEAN, route : BOOLEAN]

LEMMA KernelType == TypeOK => Kernel \in Before
BY DEF TypeOK, Kernel, Before

LEMMA NothingType == Nothing \in Before
BY DEF Nothing, Before

\* Relabelling requests keeps them.
LEMMA Relabelled ==
    ASSUME NEW s \in Seq(Request), NEW r \in [DOMAIN s -> Request]
    PROVE  r \in Seq(Request) /\ Len(r) = Len(s) /\ DOMAIN r = DOMAIN s
BY DEF Request

LEMMA PastRequests ==
    ASSUME NEW s \in Seq(Request)
    PROVE  /\ Past(s) \in [DOMAIN s -> Request]
           /\ \A i \in DOMAIN s : Past(s)[i].of # "call"
<1> DEFINE label(r) == IF r.of = "dead" THEN "dead" ELSE "past"
<1>1. Past(s) = [i \in DOMAIN s |-> [s[i] EXCEPT !.of = label(s[i])]]
    BY DEF Past
<1>2. \A r \in Request : label(r) \in {"past", "dead"}
    OBVIOUS
<1> HIDE DEF label
<1>3. \A i \in DOMAIN s : s[i] \in Request
    OBVIOUS
<1>4. ASSUME NEW r \in Request
      PROVE  [r EXCEPT !.of = label(r)] \in Request /\ [r EXCEPT !.of = label(r)].of # "call"
    BY <1>2 DEF Request
<1>5. QED BY <1>1, <1>3, <1>4

\* The request after one that has succeeded, or the return.
LEMMA Advances ==
    ASSUME TypeOK, CallInv, NEW step \in Steps, Advance(step)
    PROVE  /\ pc = step /\ alone' = alone /\ call \in Calls
           /\ pc' = After(step) /\ pc' \in Steps \cup {"idle"}
           /\ pc' # "idle" => UNCHANGED <<call, result, before, stuck>>
           /\ pc' = "idle" => /\ call' = Idle /\ result' \in {"ok", "failed"}
                              /\ before' = Nothing /\ stuck' = FALSE
                              /\ result' = "ok" <=> ~(call.op = "setup" /\ step = "unlink")
<1>1. pc = step /\ alone' = alone
    BY DEF Advance, Return
<1>2. call \in Calls
    BY <1>1, IllumosAssumption DEF TypeOK, Steps, Removals
<1>3. After(step) \in Steps \cup {"idle"}
    BY DEF After, Steps, Removals
<1>4. QED BY <1>1, <1>2, <1>3 DEF Advance, Return

\* The rollback after a request that has not succeeded, or the return.
LEMMA Aborts ==
    ASSUME TypeOK, CallInv, NEW step \in Steps, NEW removal \in BOOLEAN, Abort(step, removal)
    PROVE  /\ pc = step /\ alone' = alone /\ call \in Calls
           /\ pc' # "idle" => /\ call.op = "setup" /\ step \in DOMAIN Undo
                              /\ pc' = Undo[step] /\ pc' \in Removals
                              /\ stuck' = (stuck \/ removal)
                              /\ UNCHANGED <<call, result, before>>
           /\ pc' = "idle" => /\ ~(call.op = "setup" /\ step \in DOMAIN Undo)
                              /\ call' = Idle /\ result' = "failed"
                              /\ before' = Nothing /\ stuck' = FALSE
<1>1. pc = step /\ alone' = alone
    BY DEF Abort, Return
<1>2. call \in Calls
    BY <1>1, IllumosAssumption DEF TypeOK, Steps, Removals
<1>3. step \in DOMAIN Undo => Undo[step] \in Removals /\ Undo[step] # "idle"
    BY DEF Undo, Removals
<1>4. QED BY <1>1, <1>2, <1>3 DEF Abort, Return

\* The parts of TypeOK that requests to the kernel are about.
KernelOK ==
    /\ link \in Link \cup {Absent}
    /\ interface \in Interface \cup {Absent} /\ (interface # Absent => link # Absent)
    /\ address \in BOOLEAN /\ (address => interface # Absent)
    /\ route \in BOOLEAN

QueueOK == sent \in Seq(Request) /\ Len(sent) <= Backlog /\ ack \in Acks \cup {"none"}

LEMMA TypeParts == TypeOK => KernelOK /\ QueueOK /\ Kernel \in Before
BY KernelType DEF TypeOK, KernelOK, QueueOK, Request

LEMMA AdvanceKeeps ==
    ASSUME TypeOK, CallInv, NEW step \in Steps, Advance(step), KernelOK', QueueOK',
           pc' \notin {"add", "added", "removed"} => ack' = "none"
    PROVE  TypeOK' /\ CallInv'
<1>1. /\ pc = step /\ alone' = alone /\ call \in Calls
      /\ pc' = After(step) /\ pc' \in Steps \cup {"idle"}
      /\ pc' # "idle" => UNCHANGED <<call, result, before, stuck>>
      /\ pc' = "idle" => /\ call' = Idle /\ result' \in {"ok", "failed"}
                         /\ before' = Nothing /\ stuck' = FALSE
    BY Advances
<1>2. TypeOK'
  <2>1. call' \in Calls \cup {Idle} /\ (pc' = "idle" <=> call' = Idle)
      BY <1>1, IllumosAssumption DEF Steps, Removals
  <2>2. /\ result' \in {"none", "ok", "failed", "killed"}
        /\ before' \in Before /\ stuck' \in BOOLEAN /\ alone' \in BOOLEAN
      BY <1>1, NothingType DEF TypeOK, Before
  <2>3. QED BY <1>1, <2>1, <2>2 DEF TypeOK, KernelOK, QueueOK, Request, Before
<1>3. CallInv'
  <2>1. CASE pc' = "idle"
      BY <1>1, <2>1 DEF CallInv, Removals
  <2>2. CASE pc' # "idle"
    <3>1. call.op \in {"setup", "update", "teardown"}
        BY <1>1, CallCases
    <3>2. call' = call /\ Wanted' = Wanted
        BY <1>1, <2>2 DEF Wanted
    <3>3. CASE call.op = "setup"
        BY <1>1, <2>2, <3>2, <3>3 DEF CallInv, After, Removals, Steps, Wanted
    <3>4. CASE call.op = "update"
        BY <1>1, <2>2, <3>2, <3>4 DEF CallInv, After, Removals, Steps, Wanted
    <3>5. CASE call.op = "teardown"
        BY <1>1, <2>2, <3>2, <3>5 DEF CallInv, After, Removals, Steps, Wanted
    <3>6. QED BY <3>1, <3>3, <3>4, <3>5
  <2>3. QED BY <2>1, <2>2
<1>4. QED BY <1>2, <1>3

LEMMA AbortKeeps ==
    ASSUME TypeOK, CallInv, NEW step \in Steps, NEW removal \in BOOLEAN, Abort(step, removal),
           KernelOK', QueueOK', pc' \notin {"add", "added", "removed"} => ack' = "none"
    PROVE  TypeOK' /\ CallInv'
<1>1. /\ pc = step /\ alone' = alone /\ call \in Calls
      /\ pc' # "idle" => /\ call.op = "setup" /\ pc' \in Removals
                         /\ stuck' = (stuck \/ removal)
                         /\ UNCHANGED <<call, result, before>>
      /\ pc' = "idle" => /\ call' = Idle /\ result' = "failed"
                         /\ before' = Nothing /\ stuck' = FALSE
    BY Aborts
<1>2. TypeOK'
  <2>1. /\ call' \in Calls \cup {Idle} /\ (pc' = "idle" <=> call' = Idle)
        /\ pc' \in {"idle"} \cup Steps
      BY <1>1, IllumosAssumption DEF Steps, Removals
  <2>2. /\ result' \in {"none", "ok", "failed", "killed"}
        /\ before' \in Before /\ stuck' \in BOOLEAN /\ alone' \in BOOLEAN
      BY <1>1, NothingType DEF TypeOK, Before
  <2>3. QED BY <2>1, <2>2 DEF TypeOK, KernelOK, QueueOK, Request, Before
<1>3. CallInv'
    BY <1>1 DEF CallInv, Removals
<1>4. QED BY <1>2, <1>3
-------------------------------------------------------------------------------
(***************************************************************************)
(* The queue of routing requests.                                          *)
(***************************************************************************)
\* A request is the last one, and the call's.
LEMMA Asked ==
    ASSUME QueueOK, NEW op \in {"add", "delete"}, Len(sent) < Backlog,
           sent' = Append(sent, [op |-> op, of |-> "call"])
    PROVE  /\ sent' \in Seq(Request) /\ Len(sent') <= Backlog /\ sent' # <<>>
           /\ Len(sent') \in Mine' /\ sent'[Len(sent')].op = op
           /\ \A i \in Mine' : i = Len(sent') \/ (i \in Mine /\ sent'[i] = sent[i] /\ i # Len(sent'))
<1>1. Len(sent) \in Nat /\ Len(sent') = Len(sent) + 1
    BY DEF QueueOK
<1>2. sent' \in Seq(Request)
    BY DEF QueueOK, Request
<1>3. sent'[Len(sent')] = [op |-> op, of |-> "call"]
    BY <1>1 DEF QueueOK
<1>4. \A i \in 1..Len(sent) : sent'[i] = sent[i]
    BY DEF QueueOK
<1>5. DOMAIN sent = 1..Len(sent) /\ DOMAIN sent' = 1..(Len(sent) + 1)
    BY <1>1, <1>2 DEF QueueOK
<1>6. Len(sent') <= Backlog /\ sent' # <<>>
    BY <1>1, IllumosAssumption
<1>7. Len(sent') \in Mine'
    BY <1>1, <1>3, <1>5 DEF Mine
<1>8. ASSUME NEW i \in Mine', i # Len(sent')
      PROVE  i \in Mine /\ sent'[i] = sent[i]
    BY <1>1, <1>4, <1>5, <1>8 DEF Mine
<1>9. sent'[Len(sent')].op = op
    BY <1>3
<1>10. QED BY <1>2, <1>6, <1>7, <1>8, <1>9

\* What is left once the oldest has been dealt with.
LEMMA Taken ==
    ASSUME QueueOK, sent # <<>>, sent' = Tail(sent)
    PROVE  /\ sent' \in Seq(Request) /\ Len(sent') <= Backlog
           /\ Head(sent) \in Request /\ Head(sent) = sent[1] /\ 1 \in DOMAIN sent
           /\ Len(sent) \in Nat /\ Len(sent') = Len(sent) - 1
           /\ \A i \in DOMAIN sent' : i + 1 \in DOMAIN sent /\ sent'[i] = sent[i + 1]
           /\ \A i \in Mine' : i + 1 \in Mine /\ sent'[i] = sent[i + 1]
           /\ Len(sent) \in Mine /\ Len(sent) # 1
                => Len(sent') \in Mine' /\ sent'[Len(sent')] = sent[Len(sent)]
<1>1. Len(sent) \in Nat \ {0} /\ Len(sent') = Len(sent) - 1 /\ sent' \in Seq(Request)
    BY DEF QueueOK, Request
<1>2. DOMAIN sent = 1..Len(sent) /\ DOMAIN sent' = 1..(Len(sent) - 1)
    BY <1>1 DEF QueueOK
<1>3. \A i \in 1..(Len(sent) - 1) : sent'[i] = sent[i + 1]
    BY <1>1 DEF QueueOK
<1>4. Len(sent') <= Backlog
    BY <1>1, IllumosAssumption DEF QueueOK
<1>5. Head(sent) = sent[1] /\ Head(sent) \in Request /\ 1 \in DOMAIN sent
    BY <1>1, <1>2 DEF QueueOK
<1>6. \A i \in DOMAIN sent' : i + 1 \in DOMAIN sent /\ sent'[i] = sent[i + 1]
    BY <1>1, <1>2, <1>3
<1>7. \A i \in Mine' : i + 1 \in Mine /\ sent'[i] = sent[i + 1]
    BY <1>6 DEF Mine
<1>8. ASSUME Len(sent) \in Mine, Len(sent) # 1
      PROVE  Len(sent') \in Mine' /\ sent'[Len(sent')] = sent[Len(sent)]
  <2>1. Len(sent') \in DOMAIN sent' /\ Len(sent') + 1 = Len(sent)
      BY <1>1, <1>2, <1>8
  <2>2. QED BY <1>6, <1>8, <2>1 DEF Mine
<1>9. QED BY <1>1, <1>4, <1>5, <1>6, <1>7, <1>8

LEMMA MineKept == UNCHANGED sent => Mine' = Mine
BY DEF Mine
-------------------------------------------------------------------------------
(***************************************************************************)
(* The invariant: types and calls.                                         *)
(***************************************************************************)
LEMMA InvInit == Init => BackendInv
<1> SUFFICES ASSUME Init PROVE BackendInv
    OBVIOUS
<1>1. TypeOK
  <2>1. sent \in Seq(Request) /\ Len(sent) <= Backlog
      BY IllumosAssumption DEF Init
  <2>2. before \in Before
      BY NothingType DEF Init
  <2>3. QED BY <2>1, <2>2 DEF Init, TypeOK, Request, Before
<1>2. CallInv /\ Progress
    BY DEF Init, CallInv, Progress, Removals
<1>3. QED BY <1>1, <1>2 DEF BackendInv

LEMMA ShapeNext == TypeOK /\ CallInv /\ [Next]_vars => TypeOK' /\ CallInv'
<1> SUFFICES ASSUME TypeOK, CallInv, [Next]_vars PROVE TypeOK' /\ CallInv'
    OBVIOUS
<1>0. KernelOK /\ QueueOK /\ Kernel \in Before
    BY TypeParts
<1>1. CASE Begin
  <2>1. /\ call' \in Calls /\ call'.op \in {"setup", "update", "teardown"} /\ pc = "idle"
        /\ call'.op = "update" =>
               call'.changes.limit # Unset \/ call'.changes.mtu # Unset \/ call'.changes.up
      BY <1>1, CallCases DEF Begin
  <2>2. sent' \in Seq(Request) /\ Len(sent') <= Backlog
      BY <1>0, <1>1, PastRequests, Relabelled DEF Begin, QueueOK
  <2>3. pc' \in Steps /\ ack' = ack /\ ack = "none"
      BY <1>1, <2>1 DEF Begin, Steps, Removals, CallInv
  <2>4. call' # Idle
      BY <2>1, IllumosAssumption
  <2>5. /\ UNCHANGED <<link, interface, address, route, stuck>> /\ before' = Kernel
        /\ result' = "none" /\ alone' = TRUE
      BY <1>1 DEF Begin, kernel
  <2>6. TypeOK'
      BY <1>0, <2>1, <2>2, <2>3, <2>4, <2>5 DEF TypeOK, Steps, Removals, Request, Before, QueueOK
  <2>7. CallInv'
      BY <1>1, <2>1, <2>3 DEF Begin, CallInv, Removals, Wanted
  <2>8. QED BY <2>6, <2>7
<1>2. CASE Create
  <2>1. Advance("create") /\ "create" \in Steps /\ UNCHANGED <<interface, address, route, sent, ack>>
      BY <1>2 DEF Create, Steps
  <2>2. pc = "create" /\ call.desired \in DesiredState /\ pc' \notin {"add", "added", "removed"}
      BY <2>1, Advances, CallCases DEF CallInv, After
  <2>3. link' \in Link
      BY <1>2, <2>2 DEF Create, Link, DesiredState
  <2>4. KernelOK' /\ QueueOK'
      BY <1>0, <2>1, <2>3, IllumosAssumption DEF KernelOK, QueueOK, Link
  <2>5. ack' = "none"
      BY <2>1, <2>2 DEF CallInv
  <2>6. QED BY <2>1, <2>4, <2>5, AdvanceKeeps
<1>3. CASE SetLimit
  <2>1. Advance("limit") /\ "limit" \in Steps /\ UNCHANGED <<interface, address, route, sent, ack>>
      BY <1>3 DEF SetLimit, Steps
  <2>2. pc = "limit" /\ call \in Calls /\ Wanted.limit # Unset /\ call.op \in {"setup", "update"}
      BY <2>1, Advances DEF CallInv
  <2>3. Wanted.limit \in Limit \cup {Disabled}
      BY <2>2, CallCases DEF Wanted, DesiredState
  <2>4. link' \in Link
      BY <1>0, <1>3, <2>3 DEF SetLimit, Link, KernelOK
  <2>5. KernelOK' /\ QueueOK'
      BY <1>0, <2>1, <2>4, IllumosAssumption DEF KernelOK, QueueOK, Link
  <2>6. ack' = "none"
      BY <2>1, <2>2 DEF CallInv
  <2>7. QED BY <2>1, <2>5, <2>6, AdvanceKeeps
<1>4. CASE Plumb
  <2>1. Advance("plumb") /\ "plumb" \in Steps /\ UNCHANGED <<link, address, route, sent, ack>>
      BY <1>4 DEF Plumb, Steps
  <2>2. interface' \in Interface /\ link' # Absent /\ interface' # Absent
    <3>1. PICK mtu \in Mtu : interface' = [mtu |-> mtu, up |-> FALSE]
        BY <1>4 DEF Plumb
    <3>2. interface' \in Interface
        BY <3>1 DEF Interface
    <3>3. QED BY <1>4, <2>1, <3>2, IllumosAssumption DEF Plumb, Interface
  <2>3. KernelOK' /\ QueueOK'
      BY <1>0, <2>1, <2>2 DEF KernelOK, QueueOK
  <2>4. ack' = "none"
      BY <2>1, Advances DEF CallInv
  <2>5. QED BY <2>1, <2>3, <2>4, AdvanceKeeps
<1>5. CASE SetMtu
  <2>1. Advance("mtu") /\ "mtu" \in Steps /\ UNCHANGED <<link, address, route, sent, ack>>
      BY <1>5 DEF SetMtu, Steps
  <2>2. pc = "mtu" /\ call \in Calls /\ Wanted.mtu # Unset /\ call.op \in {"setup", "update"}
      BY <2>1, Advances DEF CallInv
  <2>3. Wanted.mtu \in Mtu
      BY <2>2, CallCases DEF Wanted, DesiredState
  <2>4. interface' \in Interface /\ link' # Absent
      BY <1>0, <1>5, <2>3 DEF SetMtu, Interface, KernelOK
  <2>5. KernelOK' /\ QueueOK'
      BY <1>0, <2>1, <2>4, IllumosAssumption DEF KernelOK, QueueOK, Interface
  <2>6. ack' = "none"
      BY <2>1, <2>2 DEF CallInv
  <2>7. QED BY <2>1, <2>5, <2>6, AdvanceKeeps
<1>6. CASE SetAddress
  <2>1. Advance("address") /\ "address" \in Steps /\ UNCHANGED <<link, interface, route, sent, ack>>
      BY <1>6 DEF SetAddress, Steps
  <2>2. KernelOK' /\ QueueOK'
      BY <1>0, <1>6, <2>1 DEF SetAddress, KernelOK, QueueOK
  <2>3. ack' = "none"
      BY <2>1, Advances DEF CallInv
  <2>4. QED BY <2>1, <2>2, <2>3, AdvanceKeeps
<1>7. CASE BringUp
  <2>1. Advance("up") /\ "up" \in Steps /\ UNCHANGED <<link, address, route, sent, ack>>
      BY <1>7 DEF BringUp, Steps
  <2>2. interface' \in Interface /\ link' # Absent
      BY <1>0, <1>7 DEF BringUp, Interface, KernelOK
  <2>3. KernelOK' /\ QueueOK'
      BY <1>0, <2>1, <2>2, IllumosAssumption DEF KernelOK, QueueOK, Interface
  <2>4. ack' = "none"
      BY <2>1, Advances DEF CallInv
  <2>5. QED BY <2>1, <2>3, <2>4, AdvanceKeeps
<1>8. CASE Clear \/ Unplumb \/ Unlink
  <2>1. /\ KernelOK' /\ UNCHANGED <<sent, ack>>
        /\ \E step \in {"clear", "unplumb", "unlink"} : Advance(step)
    <3>1. CASE Clear
      <4>1. /\ address' = FALSE /\ (route' = FALSE \/ route' = route)
            /\ Advance("clear") /\ UNCHANGED <<link, interface, sent, ack>>
          BY <3>1 DEF Clear
      <4>2. QED BY <1>0, <4>1, Zenon DEF KernelOK
    <3>2. CASE Unplumb
      <4>1. /\ interface' = Absent /\ address' = FALSE /\ (route' = FALSE \/ route' = route)
            /\ Advance("unplumb") /\ UNCHANGED <<link, sent, ack>>
          BY <3>2 DEF Unplumb
      <4>2. QED BY <1>0, <4>1, Zenon DEF KernelOK
    <3>3. CASE Unlink
      <4>1. /\ link' = Absent /\ interface = Absent
            /\ Advance("unlink") /\ UNCHANGED <<interface, address, route, sent, ack>>
          BY <3>3 DEF Unlink
      <4>2. QED BY <1>0, <4>1, Zenon DEF KernelOK
    <3>4. QED BY <1>8, <3>1, <3>2, <3>3
  <2>2. PICK step \in {"clear", "unplumb", "unlink"} : Advance(step)
      BY <2>1
  <2>3. step \in Steps BY DEF Steps, Removals
  <2>4. ack' = "none"
      BY <2>1, <2>2, <2>3, Advances DEF CallInv
  <2>5. QED BY <1>0, <2>1, <2>2, <2>3, <2>4, AdvanceKeeps DEF QueueOK
<1>9. CASE Refused \/ Fails
  <2>1. PICK removal \in BOOLEAN : Abort(pc, removal)
    <3>1. CASE Refused
        BY <3>1, Zenon DEF Refused
    <3>2. CASE Fails
      <4>1. Abort(pc, pc \in Removals) /\ (pc \in Removals) \in BOOLEAN
          BY <3>2 DEF Fails
      <4>2. QED BY <4>1, Zenon
    <3>3. QED BY <1>9, <3>1, <3>2
  <2>2. pc \in Steps
      BY <1>9 DEF Refused, Fails, TypeOK
  <2>3. UNCHANGED <<link, interface, address, route, sent>>
      BY <1>9 DEF Refused, Fails, kernel
  <2>4. ack' = "none"
    <3>1. CASE Fails BY <3>1 DEF Fails
    <3>2. CASE Refused
        BY <3>2 DEF Refused, Possible, CallInv
    <3>3. QED BY <1>9, <3>1, <3>2
  <2>5. KernelOK' /\ QueueOK'
      BY <1>0, <2>3, <2>4 DEF KernelOK, QueueOK
  <2>6. QED BY <2>1, <2>2, <2>4, <2>5, AbortKeeps
<1>10. CASE Kill
  <2>1. /\ pc' = "idle" /\ call' = Idle /\ result' = "killed" /\ before' = Nothing
        /\ stuck' = FALSE /\ alone' = alone /\ ack' = "none"
        /\ UNCHANGED <<link, interface, address, route>>
      BY <1>10 DEF Kill, Return, kernel
  <2>2. sent' \in [DOMAIN sent -> Request]
    <3>1. sent' = [i \in DOMAIN sent |-> [sent[i] EXCEPT !.of = "dead"]]
        BY <1>10 DEF Kill
    <3>2. \A i \in DOMAIN sent : sent[i] \in Request
        BY <1>0 DEF QueueOK
    <3>3. \A r \in Request : [r EXCEPT !.of = "dead"] \in Request
        BY DEF Request
    <3>4. QED BY <3>1, <3>2, <3>3
  <2>3. sent' \in Seq(Request) /\ Len(sent') <= Backlog
      BY <1>0, <2>2, Relabelled DEF QueueOK
  <2>4. TypeOK'
      BY <1>0, <2>1, <2>3, NothingType DEF TypeOK, Request, Before
  <2>5. CallInv'
      BY <2>1 DEF CallInv, Removals
  <2>6. QED BY <2>4, <2>5
<1>11. CASE Open
  <2>1. /\ Advance("open") /\ "open" \in Steps /\ ack' = "none"
        /\ UNCHANGED <<link, interface, address, route, sent>>
      BY <1>11 DEF Open, Steps, kernel
  <2>2. KernelOK' /\ QueueOK'
      BY <1>0, <2>1 DEF KernelOK, QueueOK
  <2>3. QED BY <2>1, <2>2, AdvanceKeeps
<1>12. CASE Add \/ Remove
  <2>1. PICK step \in {"add", "remove"}, op \in {"add", "delete"} :
            Ask(step, op) /\ (ack' = ack \/ ack' = "none")
      BY <1>12 DEF Add, Remove
  <2>2. Advance(step) /\ step \in Steps /\ UNCHANGED <<link, interface, address, route>>
      BY <2>1 DEF Ask, kernel, Steps, Removals
  <2>3. KernelOK' /\ QueueOK'
      BY <1>0, <2>1, <2>2, Asked DEF Ask, KernelOK, QueueOK
  <2>4. pc' \in {"added", "removed"}
      BY <2>1, <2>2, Advances DEF After
  <2>5. QED BY <2>2, <2>3, <2>4, AdvanceKeeps
<1>13. CASE Added \/ Removed
  <2>1. PICK step \in {"added", "removed"} : Advance(step)
      BY <1>13 DEF Added, Removed
  <2>2. step \in Steps BY DEF Steps, Removals
  <2>3. ack' = "none" /\ UNCHANGED <<link, interface, address, route, sent>>
      BY <1>13 DEF Added, Removed, kernel
  <2>4. KernelOK' /\ QueueOK'
      BY <1>0, <2>3 DEF KernelOK, QueueOK
  <2>5. QED BY <2>1, <2>2, <2>3, <2>4, AdvanceKeeps
<1>14. CASE NotDone
  <2>1. PICK step \in {"added", "removed"} : Abort(step, FALSE)
      BY <1>14 DEF NotDone
  <2>2. step \in Steps BY DEF Steps, Removals
  <2>3. ack' = "none" /\ UNCHANGED <<link, interface, address, route, sent>>
      BY <1>14 DEF NotDone, kernel
  <2>4. KernelOK' /\ QueueOK'
      BY <1>0, <2>3 DEF KernelOK, QueueOK
  <2>5. QED BY <2>1, <2>2, <2>3, <2>4, AbortKeeps
<1>15. CASE CarryOut \/ Decline
  <2>1. /\ sent # <<>> /\ route' \in BOOLEAN /\ stuck' \in BOOLEAN
        /\ \E answer \in Acks : Acknowledge(answer)
        /\ UNCHANGED <<pc, call, result, link, interface, address>>
    <3>1. CASE CarryOut
      <4>1. Outcome(Head(sent).op) \in Acks
          BY <1>0, <3>1, Taken DEF CarryOut, Acknowledge, Outcome, Acks, Request
      <4>2. QED BY <1>0, <3>1, <4>1 DEF CarryOut, KernelOK, TypeOK
    <3>2. CASE Decline
        BY <1>0, <3>2 DEF Decline, kernel, Acks, KernelOK, TypeOK
    <3>3. QED BY <1>15, <3>1, <3>2
  <2>2. PICK answer \in Acks : Acknowledge(answer)
      BY <2>1
  <2>3. /\ sent' = Tail(sent) /\ ack' \in Acks \cup {"none"}
        /\ alone' \in BOOLEAN /\ before' \in {before, Nothing}
        /\ pc \notin {"add", "added", "removed"} => ack' = ack
      BY <1>0, <2>2 DEF Acknowledge, QueueOK, TypeOK
  <2>4. KernelOK' /\ QueueOK'
      BY <1>0, <2>1, <2>3, Taken DEF KernelOK, QueueOK
  <2>5. before' \in Before
      BY <2>3, NothingType DEF TypeOK, Before
  <2>6. TypeOK'
      BY <2>1, <2>3, <2>4, <2>5 DEF TypeOK, KernelOK, QueueOK, Request, Before
  <2>7. CallInv'
      BY <2>1, <2>3 DEF CallInv, Removals, Wanted
  <2>8. QED BY <2>6, <2>7
<1>16. CASE Others
  <2>1. /\ alone' = FALSE /\ before' = Nothing
        /\ UNCHANGED <<pc, call, result, sent, ack, stuck>>
      BY <1>16 DEF Others, ChangeLink, ChangeInterface, ChangeAddress, ChangeRoute, Elsewhere
  <2>2. KernelOK'
    <3>1. CASE ChangeLink
        BY <1>0, <3>1 DEF ChangeLink, KernelOK
    <3>2. CASE ChangeInterface
        BY <1>0, <3>2 DEF ChangeInterface, KernelOK
    <3>3. CASE ChangeAddress
        BY <1>0, <3>3 DEF ChangeAddress, KernelOK
    <3>4. CASE ChangeRoute
        BY <1>0, <3>4 DEF ChangeRoute, KernelOK
    <3>5. QED BY <1>16, <3>1, <3>2, <3>3, <3>4 DEF Others
  <2>3. TypeOK'
      BY <2>1, <2>2, NothingType DEF TypeOK, KernelOK, Before
  <2>4. CallInv'
      BY <2>1 DEF CallInv, Removals, Wanted
  <2>5. QED BY <2>3, <2>4
<1>17. CASE UNCHANGED vars
    BY <1>17 DEF vars, kernel, TypeOK, CallInv, Removals, Wanted
<1>18. QED
    BY <1>1, <1>2, <1>3, <1>4, <1>5, <1>6, <1>7, <1>8, <1>9, <1>10, <1>11, <1>12, <1>13,
       <1>14, <1>15, <1>16, <1>17
    DEF Next, Own
-------------------------------------------------------------------------------
(***************************************************************************)
(* The invariant: what a call has done so far, as long as it is alone.     *)
(***************************************************************************)
LEMMA BeginProgress == TypeOK /\ Begin => Progress'
<1> SUFFICES ASSUME TypeOK, Begin PROVE Progress'
    OBVIOUS
<1>1. Kernel' = before' /\ UNCHANGED <<link, interface, address, route>>
    BY DEF Begin, kernel, Kernel
<1>2. Mine' = {}
  <2>1. sent \in Seq(Request) /\ sent' = Past(sent)
      BY TypeParts DEF Begin, QueueOK
  <2>2. DOMAIN sent' = DOMAIN sent
      BY <2>1, PastRequests, Relabelled
  <2>3. QED BY <2>1, <2>2, PastRequests DEF Mine
<1>3. call' \in Calls /\ call'.op \in {"setup", "update", "teardown"}
    BY CallCases DEF Begin
<1>4. CASE call'.op = "setup"
    BY <1>1, <1>2, <1>4 DEF Begin, Progress, SetUpInv
<1>5. CASE call'.op = "update"
    BY <1>1, <1>2, <1>5 DEF Begin, Progress, UpdateInv, Kernel
<1>6. CASE call'.op = "teardown"
    BY <1>1, <1>2, <1>6 DEF Begin, Progress, TearDownInv
<1>7. QED BY <1>3, <1>4, <1>5, <1>6

\* An own request that has succeeded.
LEMMA SetUpProgress ==
    ASSUME TypeOK, CallInv, Progress, TypeOK', Next, alone, pc # "idle", pc' # "idle",
           call.op = "setup", UNCHANGED <<call, before, stuck>>,
           \/ Create \/ SetLimit \/ Plumb \/ SetMtu \/ SetAddress \/ BringUp
           \/ Clear \/ Unplumb \/ Unlink \/ Open \/ Add \/ Remove \/ Added \/ Removed
    PROVE  SetUpInv'
<1>0. SetUpInv /\ KernelOK
    BY TypeParts DEF Progress
<1>1. CASE Create
  <2>1. pc = "create" /\ pc' \in {"limit", "plumb"}
      BY <1>1 DEF Create, Advance, Return, After
  <2>2. /\ Kernel = before /\ Mine' = {} /\ link = Absent
        /\ UNCHANGED <<interface, address, route, sent>>
      BY <1>0, <1>1, <2>1, MineKept DEF Create, SetUpInv
  <2>3. /\ interface = Absent /\ address = FALSE
        /\ before.link = link /\ before.interface = interface /\ before.address = address
        /\ before.route = route
      BY <1>0, <2>2 DEF KernelOK, Kernel
  <2>4. /\ link' # Absent /\ link'.local = call.desired.local /\ link'.remote = call.desired.remote
        /\ pc' = "plumb" => call.desired.limit = Unset
    <3>1. PICK limit \in Limit \cup {Disabled} :
              link' = [local |-> call.desired.local, remote |-> call.desired.remote,
                       limit |-> limit]
        BY <1>1 DEF Create
    <3>2. call.desired \in DesiredState
        BY <2>1, CallCases DEF TypeOK, CallInv
    <3>3. link' # Absent
        BY <3>1, <3>2, IllumosAssumption DEF DesiredState
    <3>4. pc' = "plumb" => call.desired.limit = Unset
        BY <1>1 DEF Create, Advance, Return, After
    <3>5. QED BY <3>1, <3>3, <3>4
  <2>5. MadeInv'
      BY <2>1, <2>2, <2>3, <2>4 DEF MadeInv, Removals
  <2>6. RouteInv'
      BY <2>1, <2>2, <2>3 DEF RouteInv, Removals
  <2>7. QED BY <2>1, <2>5, <2>6 DEF SetUpInv
<1>2. CASE SetLimit
  <2>1. pc = "limit" /\ pc' = "plumb" /\ UNCHANGED <<interface, address, route, sent>>
      BY <1>2 DEF SetLimit, Advance, Return, After
  <2>2. MadeInv /\ RouteInv
      BY <1>0, <2>1 DEF SetUpInv
  <2>3. link \in Link /\ link' = [link EXCEPT !.limit = call.desired.limit]
      BY <1>0, <1>2, <2>2 DEF SetLimit, Wanted, KernelOK, MadeInv
  <2>4. /\ link' # Absent /\ link'.local = link.local /\ link'.remote = link.remote
        /\ link'.limit = call.desired.limit
    <3>1. link'.limit = call.desired.limit /\ link'.local = link.local /\ link'.remote = link.remote
        BY <2>3 DEF Link
    <3>2. link' # Absent
        BY <1>0, <2>1, <2>3, CallCases, IllumosAssumption DEF CallInv, Link, DesiredState, Wanted
    <3>3. QED BY <3>1, <3>2
  <2>5. MadeInv'
      BY <2>1, <2>2, <2>4 DEF MadeInv, Removals
  <2>6. RouteInv'
      BY <2>1, <2>2, MineKept DEF RouteInv, Removals
  <2>7. QED BY <2>1, <2>5, <2>6 DEF SetUpInv
<1>3. CASE Plumb
  <2>1. /\ pc = "plumb" /\ pc' \in {"address", "mtu"} /\ UNCHANGED <<link, address, route, sent>>
        /\ pc' = "address" => call.desired.mtu = Unset
      BY <1>3 DEF Plumb, Advance, Return, After
  <2>2. MadeInv /\ RouteInv
      BY <1>0, <2>1 DEF SetUpInv
  <2>3. interface' # Absent
    <3>1. PICK mtu \in Mtu : interface' = [mtu |-> mtu, up |-> FALSE]
        BY <1>3 DEF Plumb
    <3>2. interface' \in Interface
        BY <3>1 DEF Interface
    <3>3. QED BY <3>2, IllumosAssumption DEF Interface
  <2>4. MadeInv'
      BY <2>1, <2>2, <2>3 DEF MadeInv, Removals
  <2>5. RouteInv'
      BY <2>1, <2>2, MineKept DEF RouteInv, Removals
  <2>6. QED BY <2>1, <2>4, <2>5 DEF SetUpInv
<1>4. CASE SetMtu
  <2>1. pc = "mtu" /\ pc' = "address" /\ UNCHANGED <<link, address, route, sent>>
      BY <1>4 DEF SetMtu, Advance, Return, After
  <2>2. MadeInv /\ RouteInv
      BY <1>0, <2>1 DEF SetUpInv
  <2>3. interface \in Interface /\ interface' = [interface EXCEPT !.mtu = call.desired.mtu]
      BY <1>0, <1>4, <2>2 DEF SetMtu, Wanted, KernelOK
  <2>4. interface' # Absent /\ interface'.mtu = call.desired.mtu
    <3>1. interface'.mtu = call.desired.mtu
        BY <2>3 DEF Interface
    <3>2. call.desired.mtu \in Mtu
        BY <2>1, CallCases DEF CallInv, DesiredState, Wanted
    <3>3. interface' \in Interface
        BY <2>3, <3>2 DEF Interface
    <3>4. QED BY <3>1, <3>3, IllumosAssumption DEF Interface
  <2>5. MadeInv'
      BY <2>1, <2>2, <2>4 DEF MadeInv, Removals
  <2>6. RouteInv'
      BY <2>1, <2>2, MineKept DEF RouteInv, Removals
  <2>7. QED BY <2>1, <2>5, <2>6 DEF SetUpInv
<1>5. CASE SetAddress
  <2>1. /\ pc = "address" /\ pc' = "up" /\ address' = TRUE
        /\ UNCHANGED <<link, interface, route, sent>>
      BY <1>5 DEF SetAddress, Advance, Return, After
  <2>2. MadeInv /\ RouteInv
      BY <1>0, <2>1 DEF SetUpInv
  <2>3. MadeInv'
      BY <2>1, <2>2 DEF MadeInv, Removals
  <2>4. RouteInv'
      BY <2>1, <2>2, MineKept DEF RouteInv, Removals
  <2>5. QED BY <2>1, <2>3, <2>4 DEF SetUpInv
<1>6. CASE BringUp
  <2>1. /\ pc = "up" /\ pc' = "open" /\ UNCHANGED <<link, address, route, sent>>
        /\ interface' = [interface EXCEPT !.up = TRUE]
      BY <1>6 DEF BringUp, Advance, Return, After
  <2>2. MadeInv /\ RouteInv
      BY <1>0, <2>1 DEF SetUpInv
  <2>3. interface \in Interface /\ interface' \in Interface
      BY <1>0, <2>1, <2>2 DEF MadeInv, KernelOK, Interface, Removals
  <2>4. interface' # Absent /\ interface'.up /\ interface'.mtu = interface.mtu
      BY <2>1, <2>3, IllumosAssumption DEF Interface
  <2>5. MadeInv'
      BY <2>1, <2>2, <2>4 DEF MadeInv, Removals
  <2>6. RouteInv'
      BY <2>1, <2>2, MineKept DEF RouteInv, Removals
  <2>7. QED BY <2>1, <2>5, <2>6 DEF SetUpInv
<1>7. CASE Open
  <2>1. /\ pc = "open" /\ pc' = "add" /\ ack' = "none"
        /\ UNCHANGED <<link, interface, address, route, sent>>
      BY <1>7 DEF Open, Advance, Return, After, kernel
  <2>2. MadeInv /\ RouteInv
      BY <1>0, <2>1 DEF SetUpInv
  <2>3. MadeInv'
      BY <2>1, <2>2 DEF MadeInv, Removals
  <2>4. RouteInv'
      BY <2>1, <2>2, MineKept DEF RouteInv, Removals
  <2>5. QED BY <2>1, <2>3, <2>4 DEF SetUpInv
<1>8. CASE Add
  <2>1. /\ pc = "add" /\ pc' = "added" /\ UNCHANGED <<link, interface, address, route, ack>>
        /\ Len(sent) < Backlog /\ sent' = Append(sent, [op |-> "add", of |-> "call"])
      BY <1>8 DEF Add, Ask, Advance, Return, After, kernel
  <2>2. MadeInv /\ RouteInv
      BY <1>0, <2>1 DEF SetUpInv
  <2>3. MadeInv'
      BY <2>1, <2>2 DEF MadeInv, Removals
  <2>4. \A i \in Mine' : i = Len(sent') /\ sent'[i].op = "add"
      BY <2>1, <2>2, TypeParts, Asked DEF RouteInv, Removals
  <2>5. ack' = "none"
      BY <2>1, <2>2 DEF RouteInv, Removals
  <2>6. RouteInv'
      BY <2>1, <2>4, <2>5 DEF RouteInv, Removals
  <2>7. QED BY <2>1, <2>3, <2>6 DEF SetUpInv
<1>9. CASE Remove
  <2>1. /\ pc = "remove" /\ pc' = "removed" /\ UNCHANGED <<link, interface, address, route>>
        /\ Len(sent) < Backlog /\ sent' = Append(sent, [op |-> "delete", of |-> "call"])
      BY <1>9 DEF Remove, Ask, Advance, Return, After, kernel
  <2>2. MadeInv /\ RouteInv
      BY <1>0, <2>1 DEF SetUpInv
  <2>3. MadeInv'
      BY <2>1, <2>2 DEF MadeInv, Removals
  <2>4. /\ sent' # <<>> /\ Len(sent') \in Mine' /\ sent'[Len(sent')].op = "delete"
        /\ \A i \in Mine' : i = Len(sent') \/ (i \in Mine /\ sent'[i] = sent[i])
      BY <2>1, TypeParts, Asked
  <2>5. \A i \in Mine' : sent'[i].op = "delete" => i = Len(sent')
      BY <2>1, <2>2, <2>4 DEF RouteInv
  <2>6. RouteInv'
      BY <2>1, <2>4, <2>5 DEF RouteInv, Removals
  <2>7. QED BY <2>1, <2>3, <2>6 DEF SetUpInv
<1>10. CASE Removed
  <2>1. pc = "removed" /\ pc' = "clear" /\ UNCHANGED <<link, interface, address, route, sent>>
      BY <1>10 DEF Removed, Advance, Return, After, kernel
  <2>2. MadeInv /\ RouteInv
      BY <1>0, <2>1 DEF SetUpInv
  <2>3. MadeInv'
      BY <2>1, <2>2 DEF MadeInv, Removals
  <2>4. RouteInv'
      BY <2>1, <2>2, MineKept DEF RouteInv, Removals
  <2>5. QED BY <2>1, <2>3, <2>4 DEF SetUpInv
<1>11. CASE Clear \/ Unplumb
  <2>1. /\ UNCHANGED <<link, sent>> /\ (route' => route)
        /\ \/ pc = "clear" /\ pc' = "unplumb" /\ interface' = interface
           \/ pc = "unplumb" /\ pc' = "unlink" /\ interface' = Absent
    <3>1. CASE Clear
      <4>1. pc = "clear" /\ pc' = "unplumb"
          BY <3>1 DEF Clear, Advance, Return, After
      <4>2. route' = FALSE \/ route' = route
          BY <3>1 DEF Clear
      <4>3. QED BY <3>1, <4>1, <4>2 DEF Clear
    <3>2. CASE Unplumb
      <4>1. pc = "unplumb" /\ pc' = "unlink"
          BY <3>2 DEF Unplumb, Advance, Return, After
      <4>2. route' = FALSE \/ route' = route
          BY <3>2 DEF Unplumb
      <4>3. QED BY <3>2, <4>1, <4>2 DEF Unplumb
    <3>3. QED BY <1>11, <3>1, <3>2
  <2>2. MadeInv /\ RouteInv
      BY <1>0, <2>1 DEF SetUpInv
  <2>3. MadeInv'
      BY <2>1, <2>2 DEF MadeInv, Removals
  <2>4. RouteInv'
      BY <2>1, <2>2, MineKept DEF RouteInv, Removals
  <2>5. QED BY <2>1, <2>3, <2>4 DEF SetUpInv
<1>12. CASE Unlink \/ Added
    BY <1>12 DEF Unlink, Added, Advance, Return, After
<1>13. QED
    BY <1>1, <1>2, <1>3, <1>4, <1>5, <1>6, <1>7, <1>8, <1>9, <1>10, <1>11, <1>12

LEMMA UpdateProgress ==
    ASSUME TypeOK, CallInv, Progress, alone, pc # "idle", pc' # "idle",
           call.op = "update", UNCHANGED <<call, before>>, SetLimit \/ SetMtu \/ BringUp
    PROVE  UpdateInv'
<1>0. UpdateInv
    BY DEF Progress
<1>1. CASE SetLimit
  <2>1. /\ pc = "limit" /\ pc' \in {"mtu", "up"} /\ UNCHANGED <<interface, address, route, sent>>
        /\ pc' = "up" => call.changes.mtu = Unset
        /\ link # Absent /\ link' = [link EXCEPT !.limit = call.changes.limit]
      BY <1>1 DEF SetLimit, Advance, Return, After, Wanted
  <2>2. call.changes.limit # Unset
      BY <2>1 DEF CallInv, Wanted
  <2>3. QED BY <1>0, <2>1, <2>2, MineKept DEF UpdateInv
<1>2. CASE SetMtu
  <2>1. /\ pc = "mtu" /\ pc' = "up" /\ UNCHANGED <<link, address, route, sent>>
        /\ interface # Absent /\ interface' = [interface EXCEPT !.mtu = call.changes.mtu]
      BY <1>2 DEF SetMtu, Advance, Return, After, Wanted
  <2>2. call.changes.mtu # Unset
      BY <2>1 DEF CallInv, Wanted
  <2>3. QED BY <1>0, <2>1, <2>2, MineKept DEF UpdateInv
<1>3. CASE BringUp
    BY <1>3 DEF BringUp, Advance, Return, After
<1>4. QED BY <1>1, <1>2, <1>3

LEMMA TearDownProgress ==
    ASSUME TypeOK, CallInv, Progress, alone, pc # "idle", pc' # "idle",
           call.op = "teardown", UNCHANGED <<call, before, stuck>>,
           Clear \/ Unplumb \/ Unlink \/ Remove \/ Removed
    PROVE  TearDownInv'
<1>0. TearDownInv
    BY DEF Progress
<1>1. CASE Clear
  <2>1. /\ pc = "clear" /\ pc' = "remove" /\ UNCHANGED <<link, interface, sent>>
        /\ interface # Absent /\ address' = FALSE
      BY <1>1 DEF Clear, Advance, Return, After
  <2>2. link = before.link /\ interface = before.interface /\ link # Absent
      BY <1>0, <2>1 DEF TearDownInv, Kernel, TypeOK
  <2>3. QED BY <1>0, <2>1, <2>2, MineKept DEF TearDownInv
<1>2. CASE Remove
  <2>1. /\ pc = "remove" /\ pc' = "removed" /\ UNCHANGED <<link, interface, address>>
        /\ Len(sent) < Backlog /\ sent' = Append(sent, [op |-> "delete", of |-> "call"])
        /\ ack' = "none"
      BY <1>2 DEF Remove, Ask, Advance, Return, After, kernel
  <2>2. \A i \in Mine' : sent'[i].op = "delete"
      BY <1>0, <2>1, TypeParts, Asked DEF TearDownInv
  <2>3. QED BY <1>0, <2>1, <2>2 DEF TearDownInv
<1>3. CASE Removed
  <2>1. pc = "removed" /\ pc' = "unplumb" /\ UNCHANGED <<link, interface, address, sent>>
      BY <1>3 DEF Removed, Advance, Return, After, kernel
  <2>2. QED BY <1>0, <2>1, MineKept DEF TearDownInv
<1>4. CASE Unplumb
  <2>1. /\ pc = "unplumb" /\ pc' = "unlink" /\ UNCHANGED <<link, sent>>
        /\ interface' = Absent /\ address' = FALSE
      BY <1>4 DEF Unplumb, Advance, Return, After
  <2>2. QED BY <1>0, <2>1, MineKept DEF TearDownInv
<1>5. CASE Unlink
    BY <1>5 DEF Unlink, Advance, Return, After
<1>6. QED BY <1>1, <1>2, <1>3, <1>4, <1>5

\* Where a call is alone, its setup's later requests are not refused.
LEMMA NotRefused ==
    ASSUME TypeOK, CallInv, Progress, alone, call.op = "setup", pc \in DOMAIN Undo
    PROVE  Possible(pc)
<1>1. MadeInv
    BY DEF Progress, SetUpInv, Undo
<1>2. QED BY <1>1 DEF MadeInv, Possible, Undo, Removals

\* A setup goes on with its rollback.
LEMMA RollbackProgress ==
    ASSUME TypeOK, CallInv, Progress, alone, pc # "idle", pc' # "idle",
           Refused \/ Fails \/ NotDone
    PROVE  call.op = "setup" /\ UNCHANGED <<call, before>> /\ SetUpInv'
<1>1. PICK step \in Steps, removal \in BOOLEAN :
          /\ Abort(step, removal)
          /\ Fails => step = pc /\ (pc \in Removals => removal = TRUE)
          /\ NotDone => step \in {"added", "removed"}
  <2>1. CASE Refused
    <3>1. Abort(pc, FALSE) /\ pc \in Steps
        BY <2>1 DEF Refused, TypeOK
    <3>2. call.op = "setup" /\ pc \in DOMAIN Undo
        BY <3>1, Aborts
    <3>3. QED BY <2>1, <3>2, NotRefused DEF Refused
  <2>2. CASE Fails
    <3>1. Abort(pc, pc \in Removals) /\ pc \in Steps /\ (pc \in Removals) \in BOOLEAN
        BY <2>2 DEF Fails, TypeOK
    <3>2. CASE NotDone
      <4>1. pc \in {"added", "removed"} /\ ack = "none"
          BY <2>2, <3>2 DEF Fails, NotDone, Abort
      <4>2. QED BY <3>2, <4>1 DEF NotDone, Acks
    <3>3. QED BY <2>2, <3>1, <3>2
  <2>3. CASE NotDone /\ ~Fails
    <3>1. Abort("added", FALSE) \/ Abort("removed", FALSE)
        BY <2>3 DEF NotDone
    <3>2. QED BY <2>3, <3>1 DEF Steps, Removals
  <2>4. QED BY <2>1, <2>2, <2>3
<1>2. /\ pc = step /\ call.op = "setup" /\ step \in DOMAIN Undo
      /\ pc' = Undo[step] /\ stuck' = (stuck \/ removal) /\ UNCHANGED <<call, before>>
    BY <1>1, Aborts
<1>3. UNCHANGED <<link, interface, address, route, sent>> /\ ack' = "none"
  <2>1. ~Refused
      BY <1>2, NotRefused DEF Refused
  <2>2. QED BY <2>1 DEF Fails, NotDone, kernel
<1>4. MadeInv /\ RouteInv
    BY <1>2 DEF Progress, SetUpInv, Undo
<1>5. pc' \in Removals /\ (stuck => stuck') /\ (pc \in Removals \ {"removed"} => stuck')
  <2>1. pc \in Removals \ {"removed"} => Fails
      BY <1>2, NotRefused DEF Refused, NotDone, Abort, Removals
  <2>2. pc' \in Removals
      BY <1>2 DEF Undo, Removals
  <2>3. pc \in Removals \ {"removed"} => removal = TRUE
      BY <1>1, <2>1
  <2>4. QED BY <1>2, <2>2, <2>3, Zenon
<1>6. MadeInv'
    BY <1>2, <1>3, <1>4, <1>5 DEF MadeInv, Undo, Removals
<1>7. RouteInv'
  <2>1. CASE pc \in {"add", "added"}
      BY <1>2, <1>3, <1>4, <2>1, MineKept DEF RouteInv, Undo, Removals
  <2>2. CASE pc \in {"limit", "plumb", "mtu", "address", "up", "open"}
      BY <1>2, <1>3, <1>4, <2>2, MineKept DEF RouteInv, Undo, Removals
  <2>3. CASE pc \in Removals \ {"removed"}
      BY <1>2, <1>3, <1>5, <2>3 DEF RouteInv, Undo, Removals
  <2>4. CASE pc = "removed"
      BY <1>2, <1>3, <1>4, <1>5, <2>4, MineKept DEF RouteInv, Undo, Removals
  <2>5. QED BY <1>2, <2>1, <2>2, <2>3, <2>4 DEF Undo, Removals
<1>8. QED BY <1>2, <1>5, <1>6, <1>7 DEF SetUpInv, Removals

\* The kernel deals with a request of the call, the oldest there is.
LEMMA AcknowledgeProgress ==
    ASSUME TypeOK, CallInv, Progress, alone', CarryOut \/ Decline
    PROVE  /\ alone /\ pc # "idle" /\ UNCHANGED <<pc, call, result, before>>
           /\ Progress'
<1>1. PICK answer \in Acks :
          /\ Acknowledge(answer)
          /\ CarryOut => answer = Outcome(Head(sent).op)
          /\ ~CarryOut => answer = "error"
  <2>1. CASE CarryOut
    <3>1. Outcome(Head(sent).op) \in Acks
        BY <2>1, TypeParts, Taken DEF CarryOut, Acknowledge, Outcome, Acks, Request
    <3>2. QED BY <2>1, <3>1 DEF CarryOut
  <2>2. CASE ~CarryOut
      BY <2>2 DEF Decline, Acks
  <2>3. QED BY <2>1, <2>2
<1>2. /\ sent # <<>> /\ sent' = Tail(sent) /\ UNCHANGED <<pc, call, result, link, interface, address>>
      /\ ack' \in {ack, answer}
    BY <1>1 DEF CarryOut, Decline, Acknowledge, kernel
<1>3. alone /\ pc # "idle" /\ Head(sent).of = "call" /\ before' = before
    BY <1>1 DEF Acknowledge, TypeOK
<1>4. /\ Head(sent) = sent[1] /\ Head(sent) \in Request /\ Len(sent) \in Nat
      /\ Len(sent') = Len(sent) - 1 /\ Len(sent') \in Nat
      /\ \A i \in Mine' : i + 1 \in Mine /\ sent'[i] = sent[i + 1] /\ i \in 1..(Len(sent) - 1)
      /\ Len(sent) \in Mine /\ Len(sent) # 1
           => Len(sent') \in Mine' /\ sent'[Len(sent')] = sent[Len(sent)]
      /\ sent' # <<>> \/ Len(sent) = 1
  <2>1. QueueOK BY TypeParts
  <2>2. sent' \in Seq(Request) BY <1>2, <2>1, Taken
  <2>3. \A i \in Mine' : i \in 1..(Len(sent) - 1)
      BY <1>2, <2>1, <2>2, Taken DEF Mine
  <2>4. Len(sent') \in Nat /\ (sent' # <<>> \/ Len(sent') = 0)
      BY <2>2
  <2>5. QED BY <1>2, <2>1, <2>3, <2>4, Taken
<1>5. 1 \in Mine /\ Mine # {}
    BY <1>2, <1>3, TypeParts, Taken DEF Mine
<1>6. /\ CarryOut /\ Head(sent).op = "delete" => ~route' /\ answer \in Gone /\ stuck' = stuck
      /\ CarryOut /\ Head(sent).op = "add"
           => (route => route') /\ (answer = "ok" => route') /\ stuck' = stuck
      /\ Decline /\ Head(sent).op = "delete" => stuck'
      /\ stuck => stuck'
      /\ ~CarryOut => route' = route
  <2>1. CASE CarryOut
    <3>1. stuck' = stuck
        BY <2>1 DEF CarryOut
    <3>2. route' = IF Outcome(Head(sent).op) = "ok" THEN Head(sent).op = "add" ELSE route
        BY <2>1 DEF CarryOut
    <3>3. ASSUME Head(sent).op = "delete" PROVE ~route' /\ answer \in Gone
        BY <1>1, <2>1, <3>2, <3>3 DEF Outcome, Gone
    <3>4. ASSUME Head(sent).op = "add" PROVE (route => route') /\ (answer = "ok" => route')
        BY <1>1, <2>1, <3>2, <3>4 DEF Outcome
    <3>5. Decline /\ Head(sent).op = "delete" => stuck'
        BY <1>3 DEF Decline
    <3>6. QED BY <2>1, <3>1, <3>3, <3>4, <3>5
  <2>2. CASE ~CarryOut
    <3>1. route' = route
        BY <2>2 DEF Decline, kernel
    <3>2. Head(sent).op = "delete" => stuck'
        BY <1>3, <2>2 DEF Decline
    <3>3. stuck => stuck'
        BY <2>2 DEF Decline
    <3>4. QED BY <2>2, <3>1, <3>2, <3>3
  <2>3. QED BY <2>1, <2>2
<1>7. CASE call.op = "setup"
  <2>1. MadeInv /\ RouteInv /\ pc # "create"
      BY <1>3, <1>5, <1>7 DEF Progress, SetUpInv
  <2>2. MadeInv'
      BY <1>2, <1>3, <1>6, <2>1 DEF MadeInv
  <2>3. RouteInv'
    <3>1. CASE pc \in {"added", "remove"}
      <4>1. 1 = Len(sent) /\ sent[1].op = "add"
          BY <1>5, <2>1, <3>1 DEF RouteInv
      <4>2. Mine' = {}
        <5>1. \A i \in Mine' : i \in 1..(1 - 1)
            BY <1>4, <4>1
        <5>2. 1..(1 - 1) = {}
            OBVIOUS
        <5>3. QED BY <5>1, <5>2
      <4>3. (ack = "ok" => route) /\ (answer = "ok" => route') /\ (route => route')
          BY <1>1, <1>4, <1>6, <2>1, <3>1, <4>1 DEF RouteInv
      <4>4. ack' = "ok" => route'
          BY <1>2, <4>3
      <4>5. QED BY <1>2, <3>1, <4>2, <4>4 DEF RouteInv, Removals
    <3>2. CASE pc \in Removals \ {"remove"}
      <4>1. \/ stuck
            \/ /\ sent # <<>> /\ Len(sent) \in Mine /\ sent[Len(sent)].op = "delete"
               /\ \A i \in Mine : sent[i].op = "delete" => i = Len(sent)
          BY <1>5, <2>1, <3>2 DEF RouteInv
      <4>2. CASE stuck
        <5>1. stuck' BY <1>6, <4>2
        <5>2. QED BY <1>2, <3>2, <5>1 DEF RouteInv, Removals
      <4>3. CASE ~stuck /\ Len(sent) = 1
        <5>1. Head(sent).op = "delete" /\ Mine' = {}
          <6>1. \A i \in Mine' : i \in 1..(1 - 1)
              BY <1>4, <4>3
          <6>2. 1..(1 - 1) = {}
              OBVIOUS
          <6>3. QED BY <1>4, <4>1, <4>3, <6>1, <6>2
        <5>2. ~route' \/ stuck'
            BY <1>6, <5>1
        <5>3. QED BY <1>2, <3>2, <5>1, <5>2 DEF RouteInv, Removals
      <4>4. CASE ~stuck /\ Len(sent) # 1
        <5>1. /\ sent' # <<>> /\ Len(sent') \in Mine' /\ sent'[Len(sent')].op = "delete"
            BY <1>4, <4>1, <4>4
        <5>2. ASSUME NEW i \in Mine', sent'[i].op = "delete" PROVE i = Len(sent')
          <6>1. i + 1 = Len(sent) /\ i \in 1..(Len(sent) - 1)
              BY <1>4, <4>1, <4>4, <5>2
          <6>2. QED BY <1>4, <6>1
        <5>3. QED BY <1>2, <3>2, <5>1, <5>2 DEF RouteInv, Removals
      <4>5. QED BY <4>2, <4>3, <4>4
    <3>3. CASE pc \notin {"added"} \cup Removals
        BY <1>5, <2>1, <3>3 DEF RouteInv
    <3>4. QED BY <3>1, <3>2, <3>3
  <2>4. QED BY <1>2, <1>3, <1>7, <2>1, <2>2, <2>3 DEF Progress, SetUpInv
<1>8. CASE call.op = "update"
    BY <1>3, <1>5, <1>8 DEF Progress, UpdateInv
<1>9. CASE call.op = "teardown"
  <2>1. TearDownInv
      BY <1>3, <1>9 DEF Progress
  <2>2. Head(sent).op = "delete" /\ pc \notin {"clear", "remove"}
      BY <1>4, <1>5, <2>1 DEF TearDownInv
  <2>3. \A i \in Mine' : sent'[i].op = "delete"
      BY <1>4, <2>1 DEF TearDownInv
  <2>4. pc = "removed" /\ ~stuck' => ack' \in {"none"} \cup Gone
    <3>1. ~stuck' => CarryOut /\ ~stuck
        BY <1>6, <2>2 DEF Decline
    <3>2. ~stuck' => answer \in Gone
        BY <1>6, <2>2, <3>1
    <3>3. QED BY <1>2, <2>1, <3>1, <3>2 DEF TearDownInv
  <2>5. TearDownInv'
      BY <1>2, <1>3, <2>1, <2>2, <2>3, <2>4 DEF TearDownInv
  <2>6. QED BY <1>2, <1>3, <1>9, <2>5 DEF Progress
<1>10. call.op \in {"setup", "update", "teardown"}
    BY <1>3, CallCases DEF CallInv
<1>11. QED BY <1>2, <1>3, <1>7, <1>8, <1>9, <1>10

LEMMA ProgressNext ==
    TypeOK /\ CallInv /\ Progress /\ TypeOK' /\ [Next]_vars => Progress'
<1> SUFFICES ASSUME TypeOK, CallInv, Progress, TypeOK', [Next]_vars, alone', pc' # "idle"
             PROVE  Progress'
    BY DEF Progress
<1>1. CASE Begin
    BY <1>1, BeginProgress
<1>2. CASE CarryOut \/ Decline
    BY <1>2, AcknowledgeProgress
<1>3. CASE Refused \/ Fails \/ NotDone
  <2>1. alone /\ pc # "idle"
    <3>1. alone' = alone
        BY <1>3 DEF Refused, Fails, NotDone, Abort, Return
    <3>2. pc # "idle"
        BY <1>3 DEF Refused, Fails, NotDone, Abort
    <3>3. QED BY <3>1, <3>2
  <2>2. call.op = "setup" /\ call' = call /\ SetUpInv'
      BY <1>3, <2>1, RollbackProgress
  <2>3. QED BY <2>2 DEF Progress
<1>4. CASE \/ Create \/ SetLimit \/ Plumb \/ SetMtu \/ SetAddress \/ BringUp
           \/ Clear \/ Unplumb \/ Unlink \/ Open \/ Add \/ Remove \/ Added \/ Removed
  <2>1. PICK step \in Steps : Advance(step)
      BY <1>4 DEF Create, SetLimit, Plumb, SetMtu, SetAddress, BringUp, Clear, Unplumb,
                  Unlink, Open, Add, Remove, Ask, Added, Removed, Steps, Removals
  <2>2. /\ pc = step /\ alone /\ pc # "idle" /\ call \in Calls
        /\ UNCHANGED <<call, result, before, stuck>>
      BY <2>1, Advances DEF Steps, Removals
  <2>3. call.op \in {"setup", "update", "teardown"}
      BY <2>2, CallCases
  <2>4. CASE call.op = "setup"
      BY <1>4, <2>2, <2>4, SetUpProgress DEF Progress, Next, Own
  <2>5. CASE call.op = "update"
    <3>1. SetLimit \/ SetMtu \/ BringUp
      <4>1. pc \in {"limit", "mtu", "up"}
          BY <2>2, <2>5 DEF CallInv, TypeOK, Steps
      <4>2. QED BY <1>4, <4>1 DEF Create, SetLimit, Plumb, SetMtu, SetAddress, BringUp, Clear,
                      Unplumb, Unlink, Open, Add, Remove, Ask, Added, Removed, Advance
    <3>2. UpdateInv'
        BY <2>2, <2>5, <3>1, UpdateProgress
    <3>3. QED BY <2>2, <2>5, <3>2 DEF Progress
  <2>6. CASE call.op = "teardown"
    <3>1. Clear \/ Unplumb \/ Unlink \/ Remove \/ Removed
      <4>1. pc \in Removals
          BY <2>2, <2>6 DEF CallInv, TypeOK, Steps
      <4>2. QED BY <1>4, <4>1 DEF Create, SetLimit, Plumb, SetMtu, SetAddress, BringUp, Clear,
                      Unplumb, Unlink, Open, Add, Remove, Ask, Added, Removed, Advance, Removals
    <3>2. TearDownInv'
        BY <2>2, <2>6, <3>1, TearDownProgress
    <3>3. QED BY <2>2, <2>6, <3>2 DEF Progress
  <2>7. QED BY <2>3, <2>4, <2>5, <2>6
<1>5. CASE Kill
    BY <1>5 DEF Kill, Return
<1>6. CASE Others
    BY <1>6 DEF Others, ChangeLink, ChangeInterface, ChangeAddress, ChangeRoute, Elsewhere
<1>7. CASE UNCHANGED vars
    BY <1>7, MineKept DEF vars, kernel, Progress, SetUpInv, MadeInv, RouteInv, UpdateInv,
                TearDownInv, Kernel
<1>8. QED
    BY <1>1, <1>2, <1>3, <1>4, <1>5, <1>6, <1>7 DEF Next, Own

LEMMA InvNext == BackendInv /\ [Next]_vars => BackendInv'
BY ShapeNext, ProgressNext DEF BackendInv

LEMMA InvAlways == Spec => []BackendInv
BY InvInit, InvNext, PTL DEF Spec

\* Type correctness: of ladders, kernel state, requests and acknowledgements.
THEOREM TypeCorrect == Spec => []TypeOK
BY InvAlways, PTL DEF BackendInv
-------------------------------------------------------------------------------
(***************************************************************************)
(* How calls end.                                                          *)
(***************************************************************************)
\* The request that is the last of its call, and how the call ends with it.
LEMMA CallEnds ==
    ASSUME BackendInv, Next, pc # "idle", pc' = "idle"
    PROVE  /\ alone' = alone /\ call \in Calls /\ call' = Idle
           /\ \/ /\ Kill /\ result' = "killed" /\ UNCHANGED kernel
              \/ /\ Refused \/ Fails \/ NotDone
                 /\ ~(call.op = "setup" /\ pc \in DOMAIN Undo)
                 /\ result' = "failed" /\ UNCHANGED kernel
              \/ Added /\ result' = "ok"
              \/ (SetLimit \/ SetMtu \/ BringUp) /\ call.op = "update" /\ result' = "ok"
              \/ Unlink /\ call.op = "setup" /\ result' = "failed"
              \/ Unlink /\ call.op = "teardown" /\ result' = "ok"
<1> USE DEF BackendInv
<1>1. ~Begin /\ ~CarryOut /\ ~Decline /\ ~Others
    BY DEF Begin, CarryOut, Decline, Others, ChangeLink, ChangeInterface, ChangeAddress,
           ChangeRoute, Elsewhere
<1>2. CASE Kill
  <2>1. call \in Calls
      BY DEF CallInv
  <2>2. QED BY <1>2, <2>1 DEF Kill, Return
<1>3. CASE Refused \/ Fails \/ NotDone
  <2>1. PICK removal \in BOOLEAN : Abort(pc, removal)
    <3>1. CASE Refused BY <3>1, Zenon DEF Refused
    <3>2. CASE Fails
      <4>1. Abort(pc, pc \in Removals) /\ (pc \in Removals) \in BOOLEAN
          BY <3>2 DEF Fails
      <4>2. QED BY <4>1, Zenon
    <3>3. CASE NotDone
      <4>1. Abort(pc, FALSE)
          BY <3>3 DEF NotDone, Abort
      <4>2. QED BY <4>1, Zenon
    <3>4. QED BY <1>3, <3>1, <3>2, <3>3
  <2>2. pc \in Steps BY DEF TypeOK
  <2>3. UNCHANGED kernel BY <1>3 DEF Refused, Fails, NotDone
  <2>4. QED BY <1>3, <2>1, <2>2, <2>3, Aborts
<1>4. CASE \/ Create \/ SetLimit \/ Plumb \/ SetMtu \/ SetAddress \/ BringUp
           \/ Clear \/ Unplumb \/ Unlink \/ Open \/ Add \/ Remove \/ Added \/ Removed
  <2>1. PICK step \in Steps : Advance(step)
      BY <1>4 DEF Create, SetLimit, Plumb, SetMtu, SetAddress, BringUp, Clear, Unplumb,
                  Unlink, Open, Add, Remove, Ask, Added, Removed, Steps, Removals
  <2>2. /\ pc = step /\ call \in Calls /\ After(step) = "idle" /\ alone' = alone /\ call' = Idle
        /\ result' = "ok" \/ (result' = "failed" /\ call.op = "setup" /\ step = "unlink")
        /\ result' = "ok" => ~(call.op = "setup" /\ step = "unlink")
      BY <2>1, Advances
  <2>3. /\ step \in {"limit", "mtu", "up", "added", "unlink"}
        /\ step \in {"limit", "mtu", "up"} => call.op # "setup"
      BY <2>2 DEF After, Steps, Removals
  <2>4. /\ step \in {"limit", "mtu", "up"} => call.op = "update"
        /\ step = "unlink" => call.op \in {"setup", "teardown"}
      BY <2>2, <2>3 DEF CallInv, Removals
  <2>5. /\ step = "limit" => SetLimit
        /\ step = "mtu" => SetMtu
        /\ step = "up" => BringUp
        /\ step = "added" => Added
        /\ step = "unlink" => Unlink
      BY <1>4, <2>2 DEF Create, SetLimit, Plumb, SetMtu, SetAddress, BringUp, Clear, Unplumb,
                  Unlink, Open, Add, Remove, Ask, Added, Removed, Advance
  <2>6. QED BY <2>2, <2>3, <2>4, <2>5
<1>5. QED BY <1>1, <1>2, <1>3, <1>4 DEF Next, Own

\* Of a failed setup nothing remains, however far it had come, unless a removal
\* fails (setup, rollback_setup).
THEOREM FailedSetUpIsUndone == Spec => RollsBack
<1>1. BackendInv /\ [Next]_vars => [NothingRemains]_vars
  <2> SUFFICES ASSUME BackendInv, Next, pc # "idle", Ends("setup", "failed"), ~stuck,
                      pc = "unlink" => ~Fails
               PROVE  /\ <<link', interface', address'>>
                           = <<before.link, before.interface, before.address>>
                      /\ route' => before.route \/ \E i \in DOMAIN sent : sent[i].op = "delete"
      BY DEF NothingRemains
  <2>1. SetUpInv /\ KernelOK
      BY TypeParts DEF BackendInv, Progress, Ends
  <2>2. \/ (Refused \/ Fails \/ NotDone) /\ pc \notin DOMAIN Undo /\ UNCHANGED kernel
        \/ Unlink
      BY CallEnds DEF Ends
  <2>3. CASE pc = "create"
    <3>1. Kernel = before /\ UNCHANGED kernel
        BY <2>1, <2>2, <2>3 DEF SetUpInv, Unlink, Advance
    <3>2. QED BY <3>1 DEF Kernel, kernel
  <2>4. CASE pc # "create"
    <3>1. MadeInv /\ RouteInv
        BY <2>1, <2>4 DEF SetUpInv
    <3>2. pc = "unlink"
        BY <2>2, <2>4 DEF BackendInv, TypeOK, Steps, Removals, Undo, Unlink, Advance
    <3>3. interface = Absent /\ address = FALSE
        BY <2>1, <3>1, <3>2 DEF MadeInv, KernelOK
    <3>4. Unlink
      <4>1. ~Refused
          BY <3>1, <3>2, <3>3 DEF Refused, Possible, MadeInv
      <4>2. ~NotDone
          BY <3>2 DEF NotDone, Abort
      <4>3. QED BY <2>2, <3>2, <4>1, <4>2
    <3>5. <<link', interface', address'>> = <<before.link, before.interface, before.address>>
        BY <3>1, <3>3, <3>4 DEF Unlink, MadeInv
    <3>6. route' = route
        BY <3>4 DEF Unlink
    <3>7. route => before.route \/ \E i \in DOMAIN sent : sent[i].op = "delete"
        BY <3>1, <3>2 DEF RouteInv, Removals, Mine
    <3>8. QED BY <3>5, <3>6, <3>7
  <2>5. QED BY <2>3, <2>4
<1>2. QED BY <1>1, InvAlways, PTL DEF Spec, RollsBack

\* No failure but that to remove the link, and no end but a kill, leaves a link
\* without an interface.
THEOREM TunnelStaysReadable == Spec => StaysReadable
<1>1. BackendInv /\ [Next]_vars => [UnreadableOnly]_vars
  <2> SUFFICES ASSUME BackendInv, Next, pc # "idle", pc' = "idle", alone, Readable(before),
                      result' # "killed", ~(pc = "unlink" /\ Fails)
               PROVE  Readable(Kernel')
      BY DEF UnreadableOnly
  <2>1. KernelOK /\ KernelOK'
    <3>1. TypeOK' BY InvNext DEF BackendInv
    <3>2. QED BY <3>1, TypeParts DEF BackendInv, TypeOK, KernelOK
  <2>2. call \in Calls /\ call.op \in {"setup", "update", "teardown"}
      BY CallEnds, CallCases
  <2>3. CASE Unlink
      BY <2>3 DEF Unlink, Readable, Kernel
  <2>4. CASE Added
    <3>1. interface # Absent
        BY <2>4 DEF BackendInv, Progress, SetUpInv, MadeInv, CallInv, Added, Advance, Removals
    <3>2. QED BY <2>4, <3>1 DEF Added, kernel, Readable, Kernel
  <2>5. CASE call.op = "update" /\ ~Unlink /\ ~Added
    <3>1. UpdateInv
        BY <2>5 DEF BackendInv, Progress
    <3>2. link # Absent => interface # Absent
      <4> SUFFICES ASSUME link # Absent PROVE interface # Absent
          OBVIOUS
      <4>1. before.link # Absent
          BY <3>1 DEF UpdateInv
      <4>2. before.interface # Absent
          BY <4>1 DEF Readable
      <4>3. ASSUME interface # before.interface PROVE interface # Absent
        <5>1. /\ call.changes.mtu # Unset
              /\ interface = [before.interface EXCEPT !.mtu = call.changes.mtu]
            BY <3>1, <4>3 DEF UpdateInv
        <5>2. call.changes.mtu \in Mtu
            BY <2>2, <2>5, <5>1, CallCases
        <5>3. before.interface \in Interface
            BY <4>2 DEF BackendInv, TypeOK
        <5>4. interface \in Interface
            BY <5>1, <5>2, <5>3 DEF Interface
        <5>5. QED BY <5>4, IllumosAssumption DEF Interface
      <4>4. QED BY <4>2, <4>3
    <3>3. UNCHANGED kernel \/ SetLimit \/ SetMtu \/ BringUp
        BY <2>5, CallEnds
    <3>4. (link' # Absent => link # Absent) /\ (interface # Absent => interface' # Absent)
      <4>1. CASE UNCHANGED kernel BY <4>1 DEF kernel
      <4>2. CASE SetLimit BY <4>2 DEF SetLimit
      <4>3. CASE SetMtu \/ BringUp
        <5>1. interface \in Interface /\ link' = link
            BY <2>1, <4>3 DEF SetMtu, BringUp, KernelOK
        <5>2. interface' # Absent
          <6>1. CASE SetMtu
            <7>1. call.changes.mtu \in Mtu
                BY <2>2, <2>5, <6>1, CallCases
                DEF SetMtu, Advance, BackendInv, CallInv, Wanted
            <7>2. interface' = [interface EXCEPT !.mtu = call.changes.mtu]
                BY <2>5, <6>1 DEF SetMtu, Wanted
            <7>3. interface' \in Interface
                BY <5>1, <7>1, <7>2 DEF Interface
            <7>4. QED BY <7>3, IllumosAssumption DEF Interface
          <6>2. CASE BringUp
            <7>1. interface' \in Interface
                BY <5>1, <6>2 DEF BringUp, Interface
            <7>2. QED BY <7>1, IllumosAssumption DEF Interface
          <6>3. QED BY <4>3, <6>1, <6>2
        <5>3. QED BY <5>1, <5>2
      <4>4. QED BY <3>3, <4>1, <4>2, <4>3
    <3>5. QED BY <3>2, <3>4 DEF Readable, Kernel
  <2>6. CASE call.op # "update" /\ ~Unlink /\ ~Added
    <3>1. /\ Refused \/ Fails \/ NotDone
          /\ UNCHANGED kernel /\ ~(call.op = "setup" /\ pc \in DOMAIN Undo)
        BY <2>6, CallEnds
    <3>2. Readable(Kernel)
      <4>1. CASE call.op = "setup"
        <5>1. pc \in {"create", "unlink"}
            BY <3>1, <4>1 DEF BackendInv, TypeOK, Steps, Removals, Undo
        <5>2. CASE pc = "create"
            BY <4>1, <5>2 DEF BackendInv, Progress, SetUpInv
        <5>3. CASE pc = "unlink"
          <6>1. Refused
              BY <3>1, <5>3 DEF NotDone, Abort
          <6>2. QED BY <5>3, <6>1 DEF Refused, Possible, Readable, Kernel
        <5>4. QED BY <5>1, <5>2, <5>3
      <4>2. CASE call.op = "teardown"
        <5>1. TearDownInv /\ pc \in Removals
            BY <4>2 DEF BackendInv, Progress, CallInv, TypeOK, Steps
        <5>2. CASE pc = "clear"
            BY <5>1, <5>2 DEF TearDownInv
        <5>3. CASE pc = "unlink"
          <6>1. Refused
              BY <3>1, <5>3 DEF NotDone, Abort
          <6>2. QED BY <5>3, <6>1 DEF Refused, Possible, Readable, Kernel
        <5>4. CASE pc \in {"remove", "removed", "unplumb"}
            BY <5>1, <5>4 DEF TearDownInv, Readable, Kernel
        <5>5. QED BY <5>1, <5>2, <5>3, <5>4 DEF Removals
      <4>3. QED BY <2>2, <2>6, <4>1, <4>2
    <3>3. Kernel' = Kernel
        BY <3>1 DEF kernel, Kernel
    <3>4. QED BY <3>2, <3>3 DEF Readable
  <2>7. QED BY <2>3, <2>4, <2>5, <2>6
<1>2. QED BY <1>1, InvAlways, PTL DEF Spec, StaysReadable

\* What a failed teardown has done is in the way of no other.
THEOREM TearDownCanBeRepeated == Spec => TearDownRepeats
<1>1. BackendInv /\ [Next]_vars => [RepeatableUnless]_vars
  <2> SUFFICES ASSUME BackendInv, Next, pc # "idle", Ends("teardown", "failed"), ~Fails, ~stuck
               PROVE  before.link = Absent \/ before.interface = Absent
      BY DEF RepeatableUnless
  <2>1. TearDownInv /\ pc \in Removals
      BY DEF BackendInv, Progress, CallInv, TypeOK, Steps, Ends
  <2>2. Refused \/ NotDone
      BY CallEnds DEF Ends
  <2>3. CASE NotDone
    <3>1. pc = "removed" /\ ack \in Acks \ Gone
        BY <2>1, <2>3 DEF NotDone, Abort, Removals
    <3>2. QED BY <2>1, <3>1 DEF TearDownInv, Acks
  <2>4. CASE Refused
    <3>1. pc = "clear" /\ interface = Absent
        BY <2>1, <2>4 DEF Refused, Possible, TearDownInv, Removals
    <3>2. QED BY <2>1, <3>1 DEF TearDownInv, Kernel
  <2>5. QED BY <2>2, <2>3, <2>4
<1>2. QED BY <1>1, InvAlways, PTL DEF Spec, TearDownRepeats
-------------------------------------------------------------------------------
(***************************************************************************)
(* The refinement.                                                         *)
(***************************************************************************)
\* Backend has its own instance of Lifecycle, with the same parameters.
LEMMA SameLifecycle ==
    /\ Abstract!Observed = Observed /\ Abstract!Calls = Calls
    /\ \A d : Abstract!Created(d) = Created(d)
    /\ \A d : Abstract!Remnants(d) = Remnants(d)
    /\ \A t, d, c : Abstract!Updates(t, d, c) = Updates(t, d, c)
    /\ \A c : Abstract!Parts(c) = Parts(c)
<1>1. /\ Abstract!Tunnel = Tunnel /\ Abstract!DesiredState = DesiredState
      /\ \A o, d : Abstract!SameEndpoints(o, d) = SameEndpoints(o, d)
      /\ \A o, d : Abstract!Changes(o, d) = Changes(o, d)
    BY DEF Abstract!Tunnel, Tunnel, Abstract!DesiredState, DesiredState,
           Abstract!SameEndpoints, SameEndpoints, Abstract!Changes, Changes
<1>2. \A c : Abstract!IsEmpty(c) = IsEmpty(c)
    BY DEF Abstract!IsEmpty, IsEmpty
<1>3. \A o, d : Abstract!PlanResolved(o, d) = PlanResolved(o, d)
    BY <1>1, <1>2 DEF Abstract!PlanResolved, PlanResolved
<1>4. \A d : Abstract!UpdateCalls(d) = UpdateCalls(d)
    BY <1>1, <1>3 DEF Abstract!UpdateCalls, UpdateCalls
<1>5. Abstract!Observed = Observed /\ Abstract!Calls = Calls
    BY <1>1, <1>4 DEF Abstract!Observed, Observed, Abstract!Calls, Calls
<1>6. /\ \A d : Abstract!Created(d) = Created(d)
      /\ \A d : Abstract!Remnants(d) = Remnants(d)
    BY <1>1 DEF Abstract!Created, Created, Abstract!Remnants, Remnants
<1>7. \A t, d, c : Abstract!Updates(t, d, c) = Updates(t, d, c)
    BY <1>1 DEF Abstract!Updates, Updates
<1>8. \A c : Abstract!Parts(c) = Parts(c)
    BY DEF Abstract!Parts, Parts
<1>9. QED BY <1>5, <1>6, <1>7, <1>8

LEMMA TunnelType ==
    ASSUME NEW k \in Before
    PROVE  /\ TunnelOf(k) \in Observed
           /\ k.link = Absent <=> TunnelOf(k) = Absent
           /\ k.link # Absent => /\ TunnelOf(k) \in Tunnel
                                 /\ TunnelOf(k).local = k.link.local
                                 /\ TunnelOf(k).remote = k.link.remote
                                 /\ TunnelOf(k).limit = k.link.limit
                                 /\ TunnelOf(k).mtu = GetMtu(k)
                                 /\ TunnelOf(k).up = IsAdminUp(k)
<1>1. GetMtu(k) \in Mtu
    BY IllumosAssumption DEF GetMtu, Before, Interface
<1>2. IsAdminUp(k) \in BOOLEAN
    BY DEF IsAdminUp, Before, Interface
<1>3. CASE k.link = Absent
    BY <1>3 DEF TunnelOf, Observed
<1>4. CASE k.link # Absent
  <2>1. TunnelOf(k) = [local |-> k.link.local, remote |-> k.link.remote, mtu |-> GetMtu(k),
                       limit |-> k.link.limit, up |-> IsAdminUp(k)]
      BY <1>4 DEF TunnelOf
  <2>2. k.link \in Link
      BY <1>4 DEF Before
  <2>3. TunnelOf(k) \in Tunnel
      BY <1>1, <1>2, <2>1, <2>2 DEF Tunnel, Link
  <2>4. QED BY <1>4, <2>1, <2>3, SpecialValues DEF Observed
<1>5. QED BY <1>3, <1>4

LEMMA AbstractInit == Init => Abstract!Init
<1> SUFFICES ASSUME Init PROVE Abstract!Init
    OBVIOUS
<1>1. Kernel \in Before /\ Shown = Kernel
    BY DEF Init, Kernel, Before, Shown
<1>2. TunnelOf(Shown) \in Observed /\ (link # Absent => TunnelOf(Shown) # Absent)
    BY <1>1, TunnelType DEF Kernel
<1>3. Shown.address = address /\ Shown.route = route
    BY <1>1 DEF Kernel
<1>4. QED BY <1>2, <1>3, SameLifecycle DEF Init, Abstract!Init

\* What the requests of a call have in common.
LEMMA RequestShape ==
    ASSUME BackendInv, Own, ~Begin
    PROVE  /\ pc # "idle" /\ alone' = alone
           /\ pc' # "idle" => UNCHANGED <<call, result, before>>
<1> USE DEF BackendInv
<1>1. CASE Kill
    BY <1>1 DEF Kill, Return
<1>2. CASE Refused \/ Fails \/ NotDone
  <2>1. PICK removal \in BOOLEAN : Abort(pc, removal)
    <3>1. CASE Refused BY <3>1, Zenon DEF Refused
    <3>2. CASE Fails
      <4>1. Abort(pc, pc \in Removals) /\ (pc \in Removals) \in BOOLEAN
          BY <3>2 DEF Fails
      <4>2. QED BY <4>1, Zenon
    <3>3. CASE NotDone
      <4>1. Abort(pc, FALSE)
          BY <3>3 DEF NotDone, Abort
      <4>2. QED BY <4>1, Zenon
    <3>4. QED BY <1>2, <3>1, <3>2, <3>3
  <2>2. pc \in Steps /\ pc # "idle"
      BY <1>2 DEF TypeOK, Refused, Fails, NotDone, Abort
  <2>3. QED BY <2>1, <2>2, Aborts
<1>3. CASE \/ Create \/ SetLimit \/ Plumb \/ SetMtu \/ SetAddress \/ BringUp
           \/ Clear \/ Unplumb \/ Unlink \/ Open \/ Add \/ Remove \/ Added \/ Removed
  <2>1. PICK step \in Steps : Advance(step)
      BY <1>3 DEF Create, SetLimit, Plumb, SetMtu, SetAddress, BringUp, Clear, Unplumb,
                  Unlink, Open, Add, Remove, Ask, Added, Removed, Steps, Removals
  <2>2. pc = step /\ "idle" \notin Steps
      BY <2>1, Advances DEF Steps, Removals
  <2>3. QED BY <2>1, <2>2, Advances
<1>4. QED BY <1>1, <1>2, <1>3 DEF Own

LEMMA OthersStep ==
    ASSUME TypeOK', alone' = FALSE,
           \/ UNCHANGED <<call, result>>
           \/ /\ ~alone /\ call # Idle /\ call' = Idle
              /\ result' \in {"ok", "failed", "killed"}
    PROVE  Abstract!Others
<1>1. Shown' = Kernel' /\ Kernel' \in Before
    BY DEF Shown, TypeOK, Kernel, Before
<1>2. TunnelOf(Shown)' \in Observed /\ (link' # Absent => TunnelOf(Shown)' # Absent)
    BY <1>1, TunnelType DEF Kernel
<1>3. Shown'.address = address' /\ Shown'.route = route'
    BY <1>1 DEF Kernel
<1>4. (Shown'.address /\ Shown'.route) \in BOOLEAN
    BY <1>3 DEF TypeOK
<1>5. Shown'.address /\ Shown'.route => TunnelOf(Shown)' # Absent
    BY <1>2, <1>3 DEF TypeOK
<1>6. QED BY <1>2, <1>4, <1>5, SameLifecycle DEF Abstract!Others

LEMMA ChangedTunnel ==
    ASSUME NEW t \in Tunnel, NEW n \in Tunnel, SameEndpoints(n, t)
    PROVE  n = [t EXCEPT !.mtu = n.mtu, !.limit = n.limit, !.up = n.up]
<1> DEFINE u == [t EXCEPT !.mtu = n.mtu, !.limit = n.limit, !.up = n.up]
<1>1. n.mtu \in Mtu /\ n.limit \in Limit \cup {Disabled} /\ n.up \in BOOLEAN
    BY DEF Tunnel
<1>2. u \in Tunnel
    BY <1>1 DEF Tunnel
<1>3. u.local = t.local /\ u.remote = t.remote /\ u.mtu = n.mtu /\ u.limit = n.limit
    BY <1>1 DEF Tunnel
<1>4. u.up = n.up
    BY <1>1 DEF Tunnel
<1> HIDE DEF u
<1>5. u = n
    BY <1>2, <1>3, <1>4 DEF Tunnel, SameEndpoints
<1>6. QED BY <1>5 DEF u

\* The part c of an update's changes has been made.
LEMMA Updated ==
    ASSUME NEW k \in Before, NEW n \in Before, NEW d, NEW c,
           k.link # Absent, n.link # Absent,
           n.link.local = k.link.local, n.link.remote = k.link.remote,
           n.link.limit = (IF c.limit = Unset THEN k.link.limit ELSE c.limit),
           GetMtu(n) = (IF c.mtu = Unset THEN GetMtu(k) ELSE c.mtu),
           IsAdminUp(n) = (IsAdminUp(k) \/ c.up), c.up \in BOOLEAN
    PROVE  TunnelOf(n) \in Updates(TunnelOf(k), d, c)
<1> DEFINE t == TunnelOf(k)
           u == TunnelOf(n)
<1>1. t \in Tunnel /\ u \in Tunnel
    BY TunnelType
<1>2. /\ SameEndpoints(u, t)
      /\ u.limit = (IF c.limit = Unset THEN t.limit ELSE c.limit)
      /\ u.mtu = (IF c.mtu = Unset THEN t.mtu ELSE c.mtu)
    BY TunnelType DEF SameEndpoints
<1>3. u.up = (t.up \/ c.up)
  <2>1. u.up = IsAdminUp(n) /\ t.up = IsAdminUp(k)
      BY TunnelType
  <2>2. QED BY <2>1
<1> HIDE DEF t, u
<1>4. u = [t EXCEPT !.mtu   = IF c.mtu = Unset THEN @ ELSE c.mtu,
                    !.limit = IF c.limit = Unset THEN @ ELSE c.limit,
                    !.up    = @ \/ c.up]
  <2>1. u = [t EXCEPT !.mtu = u.mtu, !.limit = u.limit, !.up = u.up]
      BY <1>1, <1>2, ChangedTunnel
  <2>2. QED BY <1>2, <1>3, <2>1
<1>5. u \in Updates(t, d, c)
    BY <1>2, <1>4 DEF Updates
<1>6. QED BY <1>5 DEF t, u

\* However a setup ends that has created the tunnel, but for success: the tunnel
\* is there, or it has been removed.
LEMMA SetUpEnds ==
    ASSUME BackendInv, BackendInv', pc # "idle", alone, call.op = "setup",
           Abstract!Return("failed"), Shown = before, Shown' = Kernel',
           pc # "create", UNCHANGED kernel \/ Unlink
    PROVE  Abstract!SetUpFails
<1>1. SetUpInv /\ MadeInv /\ KernelOK /\ Kernel \in Before /\ Kernel' \in Before
    <2>1. TypeOK' BY DEF BackendInv
    <2>2. QED BY <2>1, TypeParts DEF BackendInv, Progress, SetUpInv, TypeOK, Kernel, Before
<1>2. before \in Before /\ TunnelOf(before) = Absent
    BY <1>1 DEF BackendInv, TypeOK, Before, MadeInv, TunnelOf
<1>3. TunnelOf(Kernel') \in Remnants(call.desired) \cup {Absent}
  <2>1. CASE Unlink
    BY <2>1 DEF Unlink, Kernel, TunnelOf
  <2>2. CASE UNCHANGED kernel
    <3>1. Kernel' = Kernel /\ Kernel.link = link
        BY <2>2 DEF kernel, Kernel
    <3>2. TunnelOf(Kernel) \in Tunnel /\ SameEndpoints(TunnelOf(Kernel), call.desired)
        BY <1>1, <3>1, TunnelType DEF MadeInv, SameEndpoints
    <3>3. QED BY <3>1, <3>2 DEF Remnants
  <2>3. QED BY <2>1, <2>2
<1>4. (Kernel'.address /\ Kernel'.route) \in BOOLEAN
    BY <1>1 DEF Before
<1>5. Kernel'.address /\ Kernel'.route => TunnelOf(Kernel') # Absent
  <2>1. TypeOK' /\ Kernel'.address = address' /\ Kernel'.link = link'
      BY DEF BackendInv, Kernel
  <2>2. Kernel'.address => Kernel'.link # Absent
      BY <2>1 DEF TypeOK
  <2>3. QED BY <1>1, <2>2, TunnelType
<1>6. QED BY <1>2, <1>3, <1>4, <1>5, SameLifecycle DEF Abstract!SetUpFails

LEMMA SetUpSucceeds ==
    ASSUME BackendInv, Added, alone, call.op = "setup",
           Abstract!Return("ok"), Shown = before, Shown' = Kernel'
    PROVE  Abstract!SetUp
<1>1. pc = "added" /\ ack = "ok" /\ Kernel' = Kernel
    BY DEF Added, Advance, kernel, Kernel
<1>2. MadeInv /\ RouteInv /\ KernelOK /\ Kernel \in Before /\ call \in Calls
    BY <1>1, TypeParts DEF BackendInv, Progress, SetUpInv, CallInv
<1>3. TunnelOf(before) = Absent
    BY <1>2 DEF MadeInv, TunnelOf
<1>4. /\ link # Absent /\ interface # Absent /\ interface.up /\ address /\ route
      /\ link.local = call.desired.local /\ link.remote = call.desired.remote
      /\ call.desired.limit \in {Unset, link.limit}
      /\ call.desired.mtu \in {Unset, interface.mtu}
    BY <1>1, <1>2 DEF MadeInv, RouteInv, Removals
<1>5. /\ GetMtu(Kernel) = interface.mtu /\ IsAdminUp(Kernel)
      /\ Kernel.link = link /\ Kernel.address /\ Kernel.route
    BY <1>4 DEF GetMtu, IsAdminUp, Kernel
<1>6. /\ TunnelOf(Kernel) \in Tunnel /\ TunnelOf(Kernel).up
      /\ SameEndpoints(TunnelOf(Kernel), call.desired)
      /\ call.desired.mtu \in {Unset, TunnelOf(Kernel).mtu}
      /\ call.desired.limit \in {Unset, TunnelOf(Kernel).limit}
    BY <1>2, <1>4, <1>5, TunnelType DEF SameEndpoints
<1>7. TunnelOf(Kernel') \in Created(call.desired)
    BY <1>1, <1>6 DEF Created
<1>8. (Kernel'.address /\ Kernel'.route) = TRUE
    BY <1>1, <1>5
<1>9. QED BY <1>3, <1>7, <1>8, SameLifecycle DEF Abstract!SetUp

LEMMA TearDownEnds ==
    ASSUME BackendInv, BackendInv', pc \notin {"idle", "clear"}, alone, call.op = "teardown",
           NEW how \in {"ok", "failed"}, Abstract!Return(how),
           Shown = before, Shown' = Kernel',
           \/ how = "failed" /\ UNCHANGED kernel
           \/ how = "ok" /\ Unlink
    PROVE  Abstract!TearDown \/ Abstract!TearDownFails
<1>1. /\ Kernel \in Before /\ before \in Before
      /\ link = before.link /\ link # Absent /\ ~address
    <2>1. TearDownInv BY DEF BackendInv, Progress
    <2>2. QED BY <2>1, TypeParts DEF TearDownInv, BackendInv, TypeOK, Before
<1>2. TunnelOf(before) # Absent
    BY <1>1, TunnelType
<1>3. (Kernel'.address /\ Kernel'.route) = FALSE
    BY <1>1 DEF kernel, Unlink, Kernel
<1>4. CASE how = "ok"
  <2>1. TunnelOf(Kernel') = Absent
      BY <1>4 DEF Unlink, Kernel, TunnelOf
  <2>2. QED BY <1>2, <1>3, <1>4, <2>1 DEF Abstract!TearDown
<1>5. CASE how = "failed"
  <2>1. Kernel' = Kernel /\ Kernel.link = link
      BY <1>5 DEF kernel, Kernel
  <2>2. TunnelOf(Kernel) \in Remnants(TunnelOf(before))
      BY <1>1, <2>1, TunnelType DEF Remnants, SameEndpoints
  <2>3. QED BY <1>2, <1>3, <1>5, <2>1, <2>2, SameLifecycle DEF Abstract!TearDownFails
<1>6. QED BY <1>4, <1>5

\* What an update has done before the request it is at.
LEMMA UpdateSoFar ==
    ASSUME BackendInv, pc # "idle", alone, call.op = "update", before.link # Absent
    PROVE  /\ Kernel \in Before /\ before \in Before
           /\ call.changes.mtu \in Mtu \cup {Unset} /\ call.changes.up \in BOOLEAN
           /\ address = before.address /\ route = before.route
           /\ link # Absent
           /\ link.local = before.link.local /\ link.remote = before.link.remote
           /\ link.limit = (IF pc = "limit" \/ call.changes.limit = Unset
                            THEN before.link.limit ELSE call.changes.limit)
           /\ GetMtu(Kernel) = (IF pc # "up" \/ call.changes.mtu = Unset
                                THEN GetMtu(before) ELSE call.changes.mtu)
           /\ IsAdminUp(Kernel) = IsAdminUp(before)
<1>1. Kernel \in Before /\ before \in Before /\ KernelOK /\ UpdateInv /\ call \in Calls
    BY TypeParts DEF BackendInv, TypeOK, Before, Progress, CallInv
<1>2. call.changes.mtu \in Mtu \cup {Unset} /\ call.changes.up \in BOOLEAN
    BY <1>1, CallCases
<1>3. /\ link # Absent
      /\ link.local = before.link.local /\ link.remote = before.link.remote
      /\ link.limit = (IF pc = "limit" \/ call.changes.limit = Unset
                       THEN before.link.limit ELSE call.changes.limit)
  <2>1. CASE pc = "limit" \/ call.changes.limit = Unset
      BY <1>1, <2>1 DEF UpdateInv
  <2>2. CASE ~(pc = "limit" \/ call.changes.limit = Unset)
    <3>1. before.link \in Link /\ link = [before.link EXCEPT !.limit = call.changes.limit]
        BY <1>1, <2>2 DEF UpdateInv, Before
    <3>2. call.changes.limit \in Limit \cup {Disabled}
        BY <1>1, <2>2, CallCases
    <3>3. link \in Link
        BY <3>1, <3>2 DEF Link
    <3>4. link # Absent
        BY <3>3, IllumosAssumption DEF Link
    <3>5. QED BY <2>2, <3>1, <3>4 DEF Link
  <2>3. QED BY <2>1, <2>2
<1>4. /\ GetMtu(Kernel) = (IF pc # "up" \/ call.changes.mtu = Unset
                           THEN GetMtu(before) ELSE call.changes.mtu)
      /\ IsAdminUp(Kernel) = IsAdminUp(before)
  <2>1. CASE pc # "up" \/ call.changes.mtu = Unset
      BY <1>1, <2>1 DEF UpdateInv, Kernel, GetMtu, IsAdminUp
  <2>2. CASE ~(pc # "up" \/ call.changes.mtu = Unset)
    <3>1. /\ before.interface \in Interface /\ before.interface # Absent
          /\ interface = [before.interface EXCEPT !.mtu = call.changes.mtu]
        BY <1>1, <2>2 DEF UpdateInv, Before
    <3>2. call.changes.mtu \in Mtu
        BY <1>2, <2>2
    <3>3. interface \in Interface
        BY <3>1, <3>2 DEF Interface
    <3>4. interface # Absent
        BY <3>3, IllumosAssumption DEF Interface
    <3>5. interface.mtu = call.changes.mtu
        BY <3>1 DEF Interface
    <3>6. interface.up = before.interface.up
        BY <3>1 DEF Interface
    <3>7. GetMtu(Kernel) = call.changes.mtu
        BY <3>4, <3>5 DEF GetMtu, Kernel
    <3>8. IsAdminUp(Kernel) = IsAdminUp(before)
        BY <3>1, <3>4, <3>6 DEF IsAdminUp, Kernel
    <3>9. QED BY <2>2, <3>7, <3>8
  <2>3. QED BY <2>1, <2>2
<1>5. address = before.address /\ route = before.route
    BY <1>1 DEF UpdateInv
<1>6. QED BY <1>1, <1>2, <1>3, <1>4, <1>5

LEMMA UpdateFails ==
    ASSUME BackendInv, pc # "idle", alone, call.op = "update", before.link # Absent,
           Abstract!Return("failed"), Shown = before, Shown' = Kernel', UNCHANGED kernel
    PROVE  Abstract!UpdateFails
<1> DEFINE part == [mtu   |-> IF pc # "up" THEN Unset ELSE call.changes.mtu,
                    limit |-> IF pc = "limit" THEN Unset ELSE call.changes.limit,
                    up    |-> FALSE]
<1>1. pc \in {"limit", "mtu", "up"}
    BY DEF BackendInv, TypeOK, Steps, CallInv, Removals
<1>2. part \in Parts(call.changes)
    BY <1>1 DEF Parts
<1>3. Kernel' = Kernel /\ Kernel.link = link
    BY DEF kernel, Kernel
<1>4. /\ part.mtu = (IF pc # "up" THEN Unset ELSE call.changes.mtu)
      /\ part.limit = (IF pc = "limit" THEN Unset ELSE call.changes.limit)
      /\ part.up = FALSE
    OBVIOUS
<1> HIDE DEF part
<1>5. /\ link.limit = (IF part.limit = Unset THEN before.link.limit ELSE part.limit)
      /\ GetMtu(Kernel) = (IF part.mtu = Unset THEN GetMtu(before) ELSE part.mtu)
    BY <1>4, UpdateSoFar
<1>6. IsAdminUp(Kernel) = (IsAdminUp(before) \/ part.up) /\ part.up \in BOOLEAN
  <2>1. IsAdminUp(before) \in BOOLEAN
      BY UpdateSoFar DEF IsAdminUp, Before, Interface
  <2>2. QED BY <1>4, <2>1, UpdateSoFar
<1>7. TunnelOf(Kernel) \in Updates(TunnelOf(before), call.desired, part)
    BY <1>3, <1>5, <1>6, UpdateSoFar, Updated
<1>8. TunnelOf(before) # Absent
    BY UpdateSoFar, TunnelType
<1>9. Kernel'.address = before.address /\ Kernel'.route = before.route
    BY <1>3, UpdateSoFar DEF Kernel
<1>10. (Shown.address /\ Shown.route)' = (Shown.address /\ Shown.route)
    BY <1>9
<1>11. TunnelOf(Shown)' = TunnelOf(Kernel) /\ TunnelOf(Shown) = TunnelOf(before)
    BY <1>3
<1>12. \E p \in Abstract!Parts(call.changes) :
           TunnelOf(Shown)' \in Abstract!Updates(TunnelOf(Shown), call.desired, p)
    BY <1>2, <1>7, <1>11, SameLifecycle
<1>13. QED BY <1>8, <1>10, <1>11, <1>12 DEF Abstract!UpdateFails

LEMMA UpdateSucceeds ==
    ASSUME BackendInv, BackendInv', pc # "idle", pc' = "idle", alone, call.op = "update",
           before.link # Absent, Abstract!Return("ok"), Shown = before, Shown' = Kernel',
           SetLimit \/ SetMtu \/ BringUp
    PROVE  Abstract!Update
<1> DEFINE c == call.changes
<1>1. Kernel' \in Before /\ KernelOK
    BY TypeParts DEF BackendInv, TypeOK, Kernel, Before
<1>2. /\ pc = "limit" => SetLimit /\ c.limit # Unset /\ c.mtu = Unset /\ ~c.up
      /\ pc = "mtu" => SetMtu /\ c.mtu # Unset /\ ~c.up
      /\ pc = "up" => BringUp /\ c.up
      /\ pc \in {"limit", "mtu", "up"}
  <2>1. CASE SetLimit
      BY <2>1 DEF SetLimit, Advance, After, BackendInv, CallInv, Wanted
  <2>2. CASE SetMtu
      BY <2>2 DEF SetMtu, Advance, After, BackendInv, CallInv, Wanted
  <2>3. CASE BringUp
      BY <2>3 DEF BringUp, Advance, BackendInv, CallInv
  <2>4. QED BY <2>1, <2>2, <2>3
<1>3. /\ link' # Absent
      /\ link'.local = before.link.local /\ link'.remote = before.link.remote
      /\ link'.limit = (IF c.limit = Unset THEN before.link.limit ELSE c.limit)
  <2>1. CASE pc = "limit"
    <3>1. link' = [link EXCEPT !.limit = c.limit] /\ link \in Link
        BY <1>1, <1>2, <2>1, UpdateSoFar DEF SetLimit, Wanted, KernelOK
    <3>2. link' \in Link
      <4>1. call \in Calls BY DEF BackendInv, CallInv
      <4>2. c.limit \in Limit \cup {Disabled}
          BY <1>2, <2>1, <4>1, CallCases
      <4>3. QED BY <3>1, <4>2 DEF Link
    <3>3. link' # Absent
        BY <3>2, IllumosAssumption DEF Link
    <3>4. QED BY <1>2, <2>1, <3>1, <3>3, UpdateSoFar DEF Link
  <2>2. CASE pc # "limit"
    <3>1. link' = link
        BY <1>2, <2>2 DEF SetMtu, BringUp
    <3>2. QED BY <2>2, <3>1, UpdateSoFar
  <2>3. QED BY <2>1, <2>2
<1>4. /\ GetMtu(Kernel') = (IF c.mtu = Unset THEN GetMtu(before) ELSE c.mtu)
      /\ IsAdminUp(Kernel') = (IsAdminUp(before) \/ c.up)
  <2>0. IsAdminUp(before) \in BOOLEAN /\ c.up \in BOOLEAN
      BY UpdateSoFar DEF IsAdminUp, Before, Interface
  <2>1. CASE pc = "limit"
    <3>1. interface' = interface
        BY <1>2, <2>1 DEF SetLimit
    <3>2. GetMtu(Kernel') = GetMtu(Kernel) /\ IsAdminUp(Kernel') = IsAdminUp(Kernel)
        BY <3>1 DEF GetMtu, IsAdminUp, Kernel
    <3>3. GetMtu(Kernel') = GetMtu(before) /\ IsAdminUp(Kernel') = IsAdminUp(before)
        BY <2>1, <3>2, UpdateSoFar
    <3>4. c.up = FALSE
        BY <1>2, <2>0, <2>1
    <3>5. QED BY <1>2, <2>0, <2>1, <3>3, <3>4
  <2>2. CASE pc = "mtu"
    <3>1. interface' = [interface EXCEPT !.mtu = c.mtu] /\ interface \in Interface /\ interface # Absent
        BY <1>1, <1>2, <2>2 DEF SetMtu, Wanted, KernelOK
    <3>2. c.mtu \in Mtu
        BY <1>2, <2>2, UpdateSoFar
    <3>3. interface' \in Interface
        BY <3>1, <3>2 DEF Interface
    <3>4. interface' # Absent
        BY <3>3, IllumosAssumption DEF Interface
    <3>5. interface'.mtu = c.mtu
        BY <3>1 DEF Interface
    <3>6. interface'.up = interface.up
        BY <3>1 DEF Interface
    <3>7. GetMtu(Kernel') = c.mtu
        BY <3>4, <3>5 DEF GetMtu, Kernel
    <3>8. IsAdminUp(Kernel') = IsAdminUp(Kernel)
        BY <3>1, <3>4, <3>6 DEF IsAdminUp, Kernel
    <3>9. c.up = FALSE
        BY <1>2, <2>0, <2>2
    <3>10. IsAdminUp(Kernel') = IsAdminUp(before)
        BY <3>8, UpdateSoFar
    <3>11. QED BY <1>2, <2>0, <2>2, <3>7, <3>9, <3>10
  <2>3. CASE pc = "up"
    <3>1. interface' = [interface EXCEPT !.up = TRUE] /\ interface \in Interface /\ interface # Absent
        BY <1>1, <1>2, <2>3 DEF BringUp, KernelOK
    <3>2. interface' \in Interface
        BY <3>1 DEF Interface
    <3>3. interface' # Absent
        BY <3>2, IllumosAssumption DEF Interface
    <3>4. interface'.mtu = interface.mtu
        BY <3>1 DEF Interface
    <3>5. interface'.up = TRUE
        BY <3>1 DEF Interface
    <3>6. GetMtu(Kernel') = GetMtu(Kernel)
        BY <3>1, <3>3, <3>4 DEF GetMtu, Kernel
    <3>7. GetMtu(Kernel') = (IF c.mtu = Unset THEN GetMtu(before) ELSE c.mtu)
        BY <2>3, <3>6, UpdateSoFar
    <3>8. IsAdminUp(Kernel') = TRUE
        BY <3>3, <3>5 DEF IsAdminUp, Kernel
    <3>9. c.up = TRUE
        BY <1>2, <2>0, <2>3
    <3>10. QED BY <3>7, <3>8, <3>9
  <2>4. QED BY <1>2, <2>1, <2>2, <2>3
<1>5. Kernel'.link = link' /\ Kernel'.address = before.address /\ Kernel'.route = before.route
    BY UpdateSoFar DEF Kernel, SetLimit, SetMtu, BringUp
<1>6. TunnelOf(Kernel') \in Updates(TunnelOf(before), call.desired, c)
    BY <1>1, <1>3, <1>4, <1>5, UpdateSoFar, Updated
<1>7. TunnelOf(before) # Absent
    BY UpdateSoFar, TunnelType
<1>8. (Shown.address /\ Shown.route)' = (Shown.address /\ Shown.route)
    BY <1>5
<1>9. QED BY <1>6, <1>7, <1>8, SameLifecycle DEF Abstract!Update

LEMMA CallStep ==
    ASSUME BackendInv, BackendInv', Own, ~Begin, alone, pc' = "idle"
    PROVE  [Abstract!Next]_(Abstract!vars)
<1> USE DEF BackendInv
<1>1. /\ pc # "idle" /\ alone' = alone /\ call \in Calls /\ call' = Idle /\ call # Idle
      /\ call.op \in {"setup", "update", "teardown"}
    BY RequestShape, CallEnds, CallCases, IllumosAssumption DEF Next
<1>2. Shown = before /\ Shown' = Kernel'
    BY <1>1 DEF Shown
<1>3. /\ \/ UNCHANGED kernel /\ result' \in {"failed", "killed"}
         \/ Added /\ result' = "ok"
         \/ (SetLimit \/ SetMtu \/ BringUp) /\ call.op = "update" /\ result' = "ok"
         \/ Unlink /\ call.op = "setup" /\ result' = "failed"
         \/ Unlink /\ call.op = "teardown" /\ result' = "ok"
    BY <1>1, CallEnds DEF Next
<1>4. result' \in {"failed", "killed"} => Abstract!Return("failed")
    BY <1>1 DEF Abstract!Return
<1>5. result' = "ok" => Abstract!Return("ok")
    BY <1>1 DEF Abstract!Return
<1>6. ASSUME Kernel = before, UNCHANGED kernel, Abstract!Return("failed")
      PROVE  Abstract!Refuse
  <2>1. Shown' = Shown
      BY <1>2, <1>6 DEF Kernel, kernel
  <2>2. QED BY <1>6, <2>1 DEF Abstract!Refuse
<1>7. CASE call.op = "setup"
  <2>1. CASE Added
    <3>1. result' = "ok"
        BY <2>1 DEF Added, Advance, After, Return
    <3>2. Abstract!SetUp
        BY <1>2, <1>5, <1>7, <2>1, <3>1, SetUpSucceeds
    <3>3. QED BY <3>2 DEF Abstract!Next
  <2>2. CASE ~Added /\ pc = "create"
    <3>1. UNCHANGED kernel /\ result' \in {"failed", "killed"}
        BY <1>3, <1>7, <2>2 DEF Unlink, Advance
    <3>2. Kernel = before
        BY <1>1, <1>7, <2>2 DEF Progress, SetUpInv
    <3>3. QED BY <1>4, <1>6, <3>1, <3>2 DEF Abstract!Next
  <2>3. CASE ~Added /\ pc # "create"
    <3>1. (UNCHANGED kernel \/ Unlink) /\ result' \in {"failed", "killed"}
        BY <1>3, <1>7, <2>3
    <3>2. Abstract!SetUpFails
        BY <1>1, <1>2, <1>4, <1>7, <2>3, <3>1, SetUpEnds
    <3>3. QED BY <3>2 DEF Abstract!Next
  <2>4. QED BY <2>1, <2>2, <2>3
<1>8. CASE call.op = "update"
  <2>0. ~Added /\ ~Unlink
    <3>1. pc \in {"limit", "mtu", "up"}
        BY <1>1, <1>8 DEF TypeOK, Steps, CallInv, Removals
    <3>2. QED BY <3>1 DEF Added, Unlink, Advance
  <2>1. CASE before.link # Absent
    <3>1. CASE UNCHANGED kernel /\ result' \in {"failed", "killed"}
        BY <1>1, <1>2, <1>4, <1>8, <2>1, <3>1, UpdateFails DEF Abstract!Next
    <3>2. CASE (SetLimit \/ SetMtu \/ BringUp) /\ result' = "ok"
        BY <1>1, <1>2, <1>5, <1>8, <2>1, <3>2, UpdateSucceeds DEF Abstract!Next
    <3>3. QED BY <1>3, <2>0, <3>1, <3>2
  <2>2. CASE before.link = Absent
    <3>1. UpdateInv /\ KernelOK /\ Kernel \in Before
        BY <1>1, <1>8, TypeParts DEF Progress
    <3>2. link = Absent /\ interface = Absent
        BY <2>2, <3>1 DEF UpdateInv, KernelOK
    <3>3. UNCHANGED kernel /\ result' \in {"failed", "killed"}
        BY <1>3, <2>0, <3>2 DEF SetLimit, SetMtu, BringUp
    <3>4. interface = before.interface
      <4>1. ASSUME interface # before.interface PROVE FALSE
        <5>1. /\ call.changes.mtu # Unset /\ before.interface # Absent
              /\ interface = [before.interface EXCEPT !.mtu = call.changes.mtu]
            BY <3>1, <4>1 DEF UpdateInv
        <5>2. call.changes.mtu \in Mtu /\ before.interface \in Interface
            BY <1>1, <1>8, <5>1, CallCases DEF TypeOK
        <5>3. interface \in Interface
            BY <5>1, <5>2 DEF Interface
        <5>4. QED BY <3>2, <5>3, IllumosAssumption DEF Interface
      <4>2. QED BY <4>1
    <3>5. Kernel = before
        BY <2>2, <3>1, <3>2, <3>4 DEF UpdateInv, Kernel, TypeOK
    <3>6. QED BY <1>4, <1>6, <3>3, <3>5 DEF Abstract!Next
  <2>3. QED BY <2>1, <2>2
<1>9. CASE call.op = "teardown"
  <2>1. pc \in Removals
      BY <1>1, <1>9 DEF TypeOK, Steps, CallInv
  <2>2. \/ UNCHANGED kernel /\ result' \in {"failed", "killed"}
        \/ Unlink /\ result' = "ok"
      BY <1>3, <1>9, <2>1 DEF Added, Advance, Removals
  <2>3. CASE pc = "clear"
    <3>1. UNCHANGED kernel /\ result' \in {"failed", "killed"}
        BY <2>2, <2>3 DEF Unlink, Advance
    <3>2. Kernel = before
        BY <1>1, <1>9, <2>3 DEF Progress, TearDownInv
    <3>3. QED BY <1>4, <1>6, <3>1, <3>2 DEF Abstract!Next
  <2>4. CASE pc # "clear" /\ UNCHANGED kernel /\ result' \in {"failed", "killed"}
      BY <1>1, <1>2, <1>4, <1>9, <2>4, TearDownEnds DEF Abstract!Next
  <2>5. CASE pc # "clear" /\ Unlink /\ result' = "ok"
      BY <1>1, <1>2, <1>5, <1>9, <2>5, TearDownEnds DEF Abstract!Next
  <2>6. QED BY <2>2, <2>3, <2>4, <2>5
<1>10. QED BY <1>1, <1>7, <1>8, <1>9

LEMMA AbstractNext ==
    BackendInv /\ BackendInv' /\ [Next]_vars => [Abstract!Next]_(Abstract!vars)
<1> SUFFICES ASSUME BackendInv, BackendInv', [Next]_vars
             PROVE  [Abstract!Next]_(Abstract!vars)
    OBVIOUS
<1> USE DEF BackendInv
<1>1. CASE UNCHANGED vars
  <2>1. Shown' = Shown
      BY <1>1 DEF vars, kernel, Shown, Kernel
  <2>2. QED BY <1>1, <2>1 DEF vars, Abstract!vars
<1>2. CASE Others
  <2>1. alone' = FALSE /\ UNCHANGED <<call, result>>
      BY <1>2 DEF Others, ChangeLink, ChangeInterface, ChangeAddress, ChangeRoute, Elsewhere
  <2>2. QED BY <2>1, OthersStep DEF Abstract!Next
<1>3. CASE (CarryOut \/ Decline) /\ ~alone'
  <2>1. alone' = FALSE /\ UNCHANGED <<call, result>>
      BY <1>3 DEF CarryOut, Decline, TypeOK
  <2>2. QED BY <2>1, OthersStep DEF Abstract!Next
<1>4. CASE (CarryOut \/ Decline) /\ alone'
  <2>1. alone /\ pc # "idle" /\ UNCHANGED <<pc, call, result, before>>
      BY <1>4, AcknowledgeProgress
  <2>2. Shown' = Shown /\ alone' = alone
      BY <1>4, <2>1 DEF Shown, TypeOK
  <2>3. QED BY <2>1, <2>2 DEF Abstract!vars
<1>5. CASE Begin
  <2>1. Shown' = Shown /\ call = Idle /\ call' \in Calls
      BY <1>5 DEF Begin, Shown, TypeOK, kernel, Kernel
  <2>2. Abstract!Call
      BY <1>5, <2>1, SameLifecycle DEF Begin, Abstract!Call
  <2>3. QED BY <2>2 DEF Abstract!Next
<1>6. CASE Own /\ ~Begin /\ ~alone
  <2>1. pc # "idle" /\ alone' = FALSE /\ (pc' # "idle" => UNCHANGED <<call, result>>)
      BY <1>6, RequestShape DEF TypeOK
  <2>2. pc' = "idle" => call' = Idle /\ result' \in {"ok", "failed", "killed"}
      BY <1>6, <2>1, CallEnds DEF Next
  <2>3. call # Idle
      BY <2>1 DEF TypeOK
  <2>4. QED BY <1>6, <2>1, <2>2, <2>3, OthersStep DEF Abstract!Next
<1>7. CASE Own /\ ~Begin /\ alone /\ pc' # "idle"
  <2>1. pc # "idle" /\ alone' = alone /\ UNCHANGED <<call, result, before>>
      BY <1>7, RequestShape
  <2>2. Shown' = Shown
      BY <1>7, <2>1 DEF Shown
  <2>3. QED BY <2>1, <2>2 DEF Abstract!vars
<1>8. CASE Own /\ ~Begin /\ alone /\ pc' = "idle"
    BY <1>8, CallStep
<1>9. QED BY <1>1, <1>2, <1>3, <1>4, <1>5, <1>6, <1>7, <1>8 DEF Next

\* The illumos backend implements the same contract (TunnelBackend) as the Linux
\* backend, although each of its calls is a ladder of requests, of which routing
\* requests may take effect when the call is over.
THEOREM Refines == Spec => Implements
<1>1. Spec => Abstract!Init /\ [][Abstract!Next]_(Abstract!vars)
    BY AbstractInit, AbstractNext, InvAlways, PTL DEF Spec
<1>2. QED BY <1>1 DEF Implements, Abstract!Spec
================================================================================
