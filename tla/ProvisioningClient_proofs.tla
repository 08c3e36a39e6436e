----------------------- MODULE ProvisioningClient_proofs -----------------------
(***************************************************************************)
(* The rules of the provisioning protocol hold for every request, for any  *)
(* hosts and limit of redirects; what it accepts keeps customers apart.    *)
(***************************************************************************)
EXTENDS ProvisioningClient, Offers_proofs

\* How many requests an attempt has made by now, and how it may have ended.
Progress ==
    /\ pc = "lookup" => redirects = 0 /\ sent = 0
    /\ pc = "request" => sent = redirects
    /\ sent <= MaxRedirects + 1

ClientInv ==
    /\ TypeOK /\ Progress /\ KeepsPolicy /\ KeepsCredentials /\ OutlivesTrouble
    /\ SelectsPreferred

LEMMA DataIsThere == \A body : Data(body) # NoData
BY DEF Data, NoData

LEMMA NoDataIsNone == NoData \notin AllData
BY DataIsThere DEF AllData

\* The least usable index is the first supported one: every method of an accepted
\* order is backed by an offer.
LEMMA SelectsInData ==
    ASSUME NEW d \in AllData, NEW supported \in SUBSET Capability, NEW i \in DOMAIN d.order,
           d.order[i] \in supported, \A j \in 1..(i - 1) : d.order[j] \notin supported
    PROVE  Select(d, supported) = d.order[i]
<1>1. PICK body \in Bodies : IsData(body) /\ d = Data(body)
    BY DEF AllData, Accepted
<1>2. d.order = body.order /\ DOMAIN d.offers = DOMAIN body.offers
    BY <1>1 DEF Data
<1>3. body.order \in Seq(STRING)
    BY ClientAssumption
<1>4. PICK n \in Nat : DOMAIN d.order = 1..n
    BY <1>2, <1>3
<1>5. \A j \in DOMAIN d.order : d.order[j] \in DOMAIN d.offers
    BY <1>1, <1>2 DEF IsData
<1> DEFINE usable == {j \in DOMAIN d.order : d.order[j] \in supported /\ d.order[j] \in DOMAIN d.offers}
<1>6. i \in usable /\ i \in Nat BY <1>4, <1>5
<1>7. \A j \in usable : i <= j
  <2> SUFFICES ASSUME NEW j \in usable, ~(i <= j) PROVE FALSE
      OBVIOUS
  <2>1. j \in 1..(i - 1) BY <1>4, <1>6
  <2>2. QED BY <2>1
<1>8. \A k \in usable : (\A j \in usable : k <= j) => k = i
  <2> SUFFICES ASSUME NEW k \in usable, \A j \in usable : k <= j PROVE k = i
      OBVIOUS
  <2>1. k <= i /\ i <= k BY <1>6, <1>7
  <2>2. k \in Nat BY <1>4
  <2>3. QED BY <1>6, <2>1, <2>2
<1> DEFINE first == CHOOSE k \in usable : \A j \in usable : k <= j
<1>9. first \in usable /\ \A j \in usable : first <= j
    BY <1>6, <1>7
<1>10. first = i BY <1>8, <1>9
<1>11. usable # {} BY <1>6
<1> HIDE DEF first
<1>12. Select(d, supported) = d.order[first]
    BY <1>11 DEF Select, first
<1>13. QED BY <1>10, <1>12

LEMMA ClientInit == Init => ClientInv
BY ClientAssumption, NoDataIsNone
DEF Init, Idle, ClientInv, TypeOK, Progress, KeepsPolicy, KeepsCredentials,
    OutlivesTrouble, Outcomes, SelectsPreferred

\* An attempt that ends: the request, if any, has been counted.
LEMMA OverKeeps ==
    ASSUME ClientInv, Over, outcome' \in Outcomes, sent' \in 0..(MaxRedirects + 1),
           data' \in AllData \cup {NoData}, token' \in {"none", "a", "b"},
           data' # NoData <=> outcome' \in {"Offer", "NoOffer"},
           policy = "require" => token' # "a",
           StateOf(outcome') = "noService" => sent' = 0 \/ outcome' = "NoOffer"
    PROVE  ClientInv'
<1> USE ClientAssumption
<1>1. outcome' # "none" BY DEF Outcomes
<1>2. TypeOK' BY <1>1 DEF ClientInv, TypeOK, Over, config
<1>3. Progress' BY DEF Over, Progress
<1>4. KeepsPolicy' /\ KeepsCredentials' BY DEF Over, KeepsPolicy, KeepsCredentials, config
<1>5. OutlivesTrouble' BY DEF Over, OutlivesTrouble
<1>6. SelectsPreferred' BY SelectsInData DEF SelectsPreferred
<1>7. QED BY <1>2, <1>3, <1>4, <1>5, <1>6 DEF ClientInv

LEMMA EndKeeps ==
    ASSUME ClientInv, NEW how \in Outcomes \ {"Offer", "NoOffer"}, End(how),
           sent' \in 0..(MaxRedirects + 1), StateOf(how) = "noService" => sent' = 0
    PROVE  ClientInv'
<1>1. Over /\ outcome' = how /\ data' = NoData /\ token' = token BY DEF End
<1>2. token' \in {"none", "a", "b"} /\ (policy = "require" => token' # "a")
    BY <1>1 DEF ClientInv, TypeOK, KeepsPolicy
<1>3. QED BY <1>1, <1>2, OverKeeps

\* A request that is made ready follows the rules.
LEMMA ReadyKeeps ==
    ASSUME ClientInv, pc' = "request", UNCHANGED <<config, outcome, data, token>>,
           outcome = "none",
           url' \in Endpoint, tls' \in {"a", "b"}, redirects' \in 0..MaxRedirects,
           sent' = redirects', policy = "require" => tls' = "b",
           url'.scheme = "https" \/ (url'.scheme = "http" /\ tls' = "a"),
           url'.host # "ipv4", MayCarry(url', tls')
    PROVE  ClientInv'
<1>1. url' # NoUrl BY DEF Endpoint, NoUrl
<1>2. TypeOK' BY <1>1, ClientAssumption DEF ClientInv, TypeOK, config
<1>3. Progress' BY ClientAssumption DEF Progress
<1>4. KeepsPolicy' BY DEF ClientInv, KeepsPolicy, config
<1>5. KeepsCredentials' BY DEF KeepsCredentials, MayCarry, Secret, config
<1>6. OutlivesTrouble' BY DEF OutlivesTrouble
<1>7. SelectsPreferred' BY DEF ClientInv, SelectsPreferred
<1>8. QED BY <1>2, <1>3, <1>4, <1>5, <1>6, <1>7 DEF ClientInv

LEMMA ClientNext == ClientInv /\ [Next]_vars => ClientInv'
<1> SUFFICES ASSUME ClientInv, [Next]_vars PROVE ClientInv'
    OBVIOUS
<1> USE ClientAssumption
<1>0. /\ redirects \in 0..MaxRedirects /\ sent \in 0..(MaxRedirects + 1)
      /\ pc = "lookup" => redirects = 0 /\ sent = 0
      /\ pc = "request" => sent = redirects /\ outcome = "none" /\ tls \in {"a", "b"}
      /\ pc = "lookup" => outcome = "none"
      /\ token \in {"none", "a", "b"}
      /\ MaxRedirects \in Nat
    BY DEF ClientInv, TypeOK, Progress
<1>1. CASE NoBootstrap
  <2>1. PICK how \in {"Resolver", "NotFound", "UnexpectedRecordCount", "Bootstrap"} :
            End(how)
      BY <1>1 DEF NoBootstrap
  <2>2. how \in Outcomes \ {"Offer", "NoOffer"} BY DEF Outcomes
  <2>3. sent' = 0 BY <1>0, <1>1 DEF NoBootstrap
  <2>4. QED BY <1>0, <2>1, <2>2, <2>3, EndKeeps
<1>2. CASE Unauthenticated
  <2>1. sent' = 0 /\ End("UnauthenticatedProvisioningNotAllowed")
      BY <1>0, <1>2 DEF Unauthenticated
  <2>2. "UnauthenticatedProvisioningNotAllowed" \in Outcomes \ {"Offer", "NoOffer"}
      BY DEF Outcomes
  <2>3. QED BY <1>0, <2>1, <2>2, EndKeeps
<1>3. CASE Discover
  <2>1. PICK record \in TxtRecord :
            /\ Accepts(record) /\ MayCarry(record.url, record.tls)
            /\ url' = record.url /\ tls' = record.tls
      BY <1>3 DEF Discover
  <2>2. /\ record.url \in Endpoint /\ record.tls \in {"a", "b"}
      BY DEF TxtRecord
  <2>3. /\ pc' = "request" /\ UNCHANGED <<config, outcome, data, token>>
        /\ outcome = "none" /\ redirects' = 0 /\ sent' = 0
      BY <1>0, <1>3 DEF Discover
  <2>4. /\ policy = "require" => tls' = "b"
        /\ url'.scheme = "https" \/ (url'.scheme = "http" /\ tls' = "a")
        /\ url'.host # "ipv4"
      BY <2>1, <2>2 DEF Accepts, Valid
  <2>5. QED BY <1>0, <2>1, <2>2, <2>3, <2>4, ReadyKeeps
<1>4. CASE WithholdAtFirst
  <2>1. sent' = 0 /\ End("ProvisioningUrl")
      BY <1>0, <1>4 DEF WithholdAtFirst
  <2>2. "ProvisioningUrl" \in Outcomes \ {"Offer", "NoOffer"} BY DEF Outcomes
  <2>3. QED BY <1>0, <2>1, <2>2, EndKeeps
<1>5. ASSUME Responds
      PROVE  pc = "request" /\ sent' = redirects + 1 /\ sent' \in 0..(MaxRedirects + 1)
    BY <1>0, <1>5 DEF Responds, Send
\* How a request may end the attempt without data: never for want of a service.
<1>6. ASSUME NEW how \in {"Transport", "UnexpectedResponseStatus", "ResponseEncoding",
                          "ProvisioningData", "Redirect", "ProvisioningUrl"}
      PROVE  how \in Outcomes \ {"Offer", "NoOffer"} /\ StateOf(how) = "unavailable"
    BY DEF Outcomes, StateOf, RetryAction
<1>7. CASE TransportFails
  <2>1. End("Transport") /\ sent' \in 0..(MaxRedirects + 1)
      BY <1>0, <1>7 DEF TransportFails, Send
  <2>2. QED BY <1>6, <2>1, EndKeeps
<1>8. CASE BadResponse
  <2>1. PICK how \in {"UnexpectedResponseStatus", "ResponseEncoding", "ProvisioningData"} :
            End(how)
      BY <1>8 DEF BadResponse
  <2>2. sent' \in 0..(MaxRedirects + 1) BY <1>5, <1>8 DEF BadResponse
  <2>3. QED BY <1>6, <2>1, <2>2, EndKeeps
<1>9. CASE Response
  <2>1. /\ pc = "request" /\ sent' \in 0..(MaxRedirects + 1)
        /\ Over /\ data' \in AllData /\ outcome' \in {"Offer", "NoOffer"}
        /\ token' \in {token, tls}
      BY <1>5, <1>9 DEF Response
  <2>2. policy = "require" => tls # "a" /\ token # "a"
      BY <2>1 DEF ClientInv, KeepsPolicy
  <2>3. data' # NoData BY <2>1, NoDataIsNone
  <2>4. outcome' \in Outcomes /\ (StateOf(outcome') = "noService" => outcome' = "NoOffer")
      BY <2>1 DEF Outcomes, StateOf
  <2>5. QED BY <1>0, <2>1, <2>2, <2>3, <2>4, OverKeeps
<1>10. CASE TooManyRedirects
  <2>1. End("Redirect") /\ sent' \in 0..(MaxRedirects + 1)
      BY <1>5, <1>10 DEF TooManyRedirects
  <2>2. QED BY <1>6, <2>1, EndKeeps
<1>11. CASE RefuseRedirect
  <2>1. End("Redirect") /\ sent' \in 0..(MaxRedirects + 1)
      BY <1>5, <1>11 DEF RefuseRedirect
  <2>2. QED BY <1>6, <2>1, EndKeeps
<1>12. CASE Follow
  <2>1. /\ pc' = "request" /\ UNCHANGED <<config, outcome, data, token>> /\ outcome = "none"
        /\ redirects' = redirects + 1 /\ redirects < MaxRedirects
        /\ sent' = redirects + 1 /\ tls' = tls /\ pc = "request"
      BY <1>0, <1>5, <1>12 DEF Follow, MayRedirect
  <2>2. url' \in Endpoint /\ Allowed(url') /\ MayCarry(url', tls)
      BY <1>12 DEF Follow
  <2>3. policy = "require" => tls' = "b"
      BY <2>1 DEF ClientInv, KeepsPolicy
  <2>4. QED BY <1>0, <2>1, <2>2, <2>3, ReadyKeeps DEF Allowed
<1>13. CASE Withhold
  <2>1. End("ProvisioningUrl") /\ sent' \in 0..(MaxRedirects + 1)
      BY <1>5, <1>13 DEF Withhold
  <2>2. QED BY <1>6, <2>1, EndKeeps
<1>14. CASE Again
    BY <1>14, NoDataIsNone
    DEF Again, ClientInv, TypeOK, Progress, KeepsPolicy, KeepsCredentials,
        OutlivesTrouble, SelectsPreferred, Outcomes, config
<1>15. CASE UNCHANGED vars
  <2>1. UNCHANGED <<policy, credentials, pc, tls, url, redirects, sent, outcome, data, token>>
      BY <1>15 DEF vars, config
  <2>2. QED BY <2>1 DEF ClientInv, TypeOK, Progress, KeepsPolicy, KeepsCredentials,
                        Secret, OutlivesTrouble, SelectsPreferred
<1>16. QED
    BY <1>1, <1>2, <1>3, <1>4, <1>7, <1>8, <1>9, <1>10, <1>11, <1>12, <1>13, <1>14, <1>15
    DEF Next, Step

LEMMA ClientAlways == Spec => []ClientInv
BY ClientInit, ClientNext, PTL DEF Spec

\* Every reachable state has its type.
THEOREM TypeCorrect == Spec => []TypeOK
BY ClientAlways, PTL DEF ClientInv

\* Every request follows the rules of the record and of the client's policy,
\* after any chain of redirects.
THEOREM PolicyIsKept == Spec => []KeepsPolicy
BY ClientAlways, PTL DEF ClientInv

\* No redirect makes the client send restricted credentials elsewhere.
THEOREM CredentialsAreKept == Spec => []KeepsCredentials
BY ClientAlways, PTL DEF ClientInv

\* The redirect limit bounds the requests of an attempt.
THEOREM RequestsAreBounded == Spec => []BoundedRequests
<1>1. ClientInv => BoundedRequests
    BY ClientAssumption DEF ClientInv, TypeOK, Progress, BoundedRequests
<1>2. QED BY <1>1, ClientAlways, PTL

\* A failing server does not take the service away.
THEOREM TroubleIsOutlived == Spec => []OutlivesTrouble
BY ClientAlways, PTL DEF ClientInv

\* Of any accepted data a client gets the first method of the server's order that
\* it supports.
THEOREM PreferenceIsKept == Spec => []SelectsPreferred
BY ClientAlways, PTL DEF ClientInv

\* The rules of accepted data fit their addresses and ports.
LEMMA RulesFit ==
    ASSUME NEW d \in AllData, NEW rule \in Rules(d)
    PROVE  Fits(rule)
<1>1. PICK body \in Bodies : IsData(body) /\ d = Data(body)
    BY DEF AllData, Accepted
<1>2. PICK c \in DOMAIN d.offers \cap {"map_e", "map_t"} :
          \E i \in DOMAIN d.offers[c].rules : rule = d.offers[c].rules[i]
    BY DEF Rules
<1> DEFINE text == body.offers[c]
<1>3. c \in DOMAIN body.offers /\ d.offers[c] = Offer(c, text)
    BY <1>1, <1>2 DEF Data
<1>4. IsOffer(c, text) /\ text # Malformed
    BY <1>1, <1>3 DEF IsData, IsOffer
<1>5. text.rules \in Seq(RuleText \cup {Malformed})
    BY <1>2, <1>3, <1>4, ClientAssumption DEF HasNumbers
<1>6. d.offers[c].rules = MappingRules(text.rules)
    BY <1>2, <1>3 DEF Offer, MapEParameters, MapTParameters
<1>7. PICK i \in DOMAIN text.rules : rule = MappingRule(text.rules[i])
    BY <1>2, <1>6 DEF MappingRules
<1>8. IsRule(text.rules[i])
    BY <1>2, <1>4 DEF IsOffer, AreRules
<1>9. text.rules[i] \in RuleText
  <2>1. text.rules[i] \in RuleText \cup {Malformed}
      BY <1>5
  <2>2. QED BY <1>8, <2>1 DEF IsRule
<1>10. QED BY <1>7, <1>8, <1>9, AcceptedRuleFits

\* Those of an lw4o6 offer and of rules fit a port.
LEMMA PortSetsFit ==
    ASSUME NEW d \in AllData, NEW set \in PortSets(d)
    PROVE  /\ set.offset \in Nat /\ set.length \in Nat /\ set.offset + set.length <= PortBits
           /\ set.psid \in 0..(2^set.length - 1)
<1>1. CASE \E rule \in Rules(d) :
              set = [offset |-> rule.psid_offset, length |-> PsidLength(rule), psid |-> 0]
  <2>1. PICK rule \in Rules(d) :
              set = [offset |-> rule.psid_offset, length |-> PsidLength(rule), psid |-> 0]
      BY <1>1
  <2>2. /\ rule.psid_offset \in Nat /\ PsidLength(rule) \in Nat
        /\ rule.psid_offset + PsidLength(rule) <= PortBits
      BY RulesFit DEF Fits
  <2>3. 2^PsidLength(rule) \in Nat /\ 2^PsidLength(rule) >= 1
      BY <2>2, PowerType
  <2>4. 0 \in 0..(2^PsidLength(rule) - 1)
      BY <2>3
  <2>5. QED BY <2>1, <2>2, <2>4
<1>2. CASE /\ "lw4o6" \in DOMAIN d.offers
           /\ set = [offset |-> d.offers["lw4o6"].port_set.psid_offset,
                     length |-> d.offers["lw4o6"].port_set.psid_length,
                     psid   |-> d.offers["lw4o6"].port_set.psid]
  <2>1. PICK body \in Bodies : IsData(body) /\ d = Data(body)
      BY DEF AllData, Accepted
  <2> DEFINE text == body.offers["lw4o6"]
  <2>2. "lw4o6" \in DOMAIN body.offers /\ d.offers["lw4o6"] = Offer("lw4o6", text)
      BY <1>2, <2>1 DEF Data
  <2>3. IsOffer("lw4o6", text) /\ text # Malformed
      BY <2>1, <2>2 DEF IsData, IsOffer
  <2>4. text.psid_offset \in Nat /\ text.psid_length \in Nat /\ text.psid \in Nat
      BY <2>2, <2>3, ClientAssumption DEF HasNumbers
  <2>5. IsPortSet(text)
      BY <2>3 DEF IsOffer
  <2>6. /\ set.offset = text.psid_offset /\ set.length = text.psid_length
        /\ set.psid = text.psid
      BY <1>2, <2>2 DEF Offer, Lw4o6Parameters, PortSet
  <2>7. PortBits \in Nat /\ 2^text.psid_length \in Nat
      BY <2>4, OffersAssumption, PowerType
  <2>8. text.psid < 2^text.psid_length /\ text.psid_length <= PortBits - text.psid_offset
      BY <2>5 DEF IsPortSet
  <2>9. text.psid \in 0..(2^text.psid_length - 1)
      BY <2>4, <2>7, <2>8
  <2>10. text.psid_offset + text.psid_length <= PortBits
      BY <2>4, <2>7, <2>8
  <2>11. QED BY <2>4, <2>6, <2>9, <2>10
<1>3. QED BY <1>1, <1>2 DEF PortSets

\* Of whatever the client accepts, every PSID has ports of its own, for ports of any
\* width.
THEOREM PortSetsAreKeptApart == Spec => []PortSetsAreDisjoint
<1>1. ClientInv => PortSetsAreDisjoint
  <2> SUFFICES ASSUME ClientInv, data # NoData, NEW set \in PortSets(data)
               PROVE  /\ set.offset + set.length <= PortBits
                      /\ set.psid \in 0..(2^set.length - 1)
                      /\ \A psid \in 0..(2^set.length - 1) :
                            /\ Ports(set.offset, set.length, psid) # {}
                            /\ Ports(set.offset, set.length, psid) \subseteq 0..(2^PortBits - 1)
                      /\ \A p, q \in 0..(2^set.length - 1) :
                            p # q => Ports(set.offset, set.length, p)
                                       \cap Ports(set.offset, set.length, q) = {}
      BY DEF PortSetsAreDisjoint
  <2>1. data \in AllData
      BY DEF ClientInv, TypeOK
  <2>2. /\ set.offset \in Nat /\ set.length \in Nat /\ set.offset + set.length <= PortBits
        /\ set.psid \in 0..(2^set.length - 1)
      BY <2>1, PortSetsFit
  <2>3. QED BY <2>2, PortSetsPartition
<1>2. QED BY <1>1, ClientAlways, PTL

\* Of whatever rules the client accepts, a customer's prefix has one share and no two
\* customers have the same, for addresses of any width.
THEOREM SharesAreKeptApart == Spec => []SharesAreSeparate
<1>1. ClientInv => SharesAreSeparate
  <2> SUFFICES ASSUME ClientInv, data # NoData, NEW rule \in Rules(data)
               PROVE  Fits(rule)
      BY SharesOfRule DEF SharesAreSeparate
  <2>1. data \in AllData
      BY DEF ClientInv, TypeOK
  <2>2. QED BY <2>1, RulesFit
<1>2. QED BY <1>1, ClientAlways, PTL
-------------------------------------------------------------------------------
\* How many steps an attempt can still take: the lookup, the first request and one
\* for each redirect that may yet be followed.
StepsLeft == CASE pc = "lookup"  -> MaxRedirects + 2
               [] pc = "request" -> MaxRedirects + 1 - redirects
               [] OTHER          -> 0

\* Every step of an attempt leaves fewer, whatever DNS and the servers answer.
GetsOn ==
    [][ pc # "done" => StepsLeft \in Nat /\ StepsLeft' \in Nat /\ StepsLeft' < StepsLeft ]_vars

\* No attempt goes on for ever while it takes steps: what AttemptsEnd needs besides
\* the fairness of Step.
THEOREM AttemptsGetOn == Spec => GetsOn
<1>1. ASSUME ClientInv, ClientInv', Next, pc # "done"
      PROVE  StepsLeft \in Nat /\ StepsLeft' \in Nat /\ StepsLeft' < StepsLeft
  <2>1. /\ redirects \in 0..MaxRedirects /\ MaxRedirects \in Nat
        /\ pc \in {"lookup", "request"}
      BY <1>1, ClientAssumption DEF ClientInv, TypeOK
  <2>2. StepsLeft \in Nat /\ StepsLeft > 0
        /\ (pc = "lookup" => StepsLeft = MaxRedirects + 2)
        /\ (pc = "request" => StepsLeft = MaxRedirects + 1 - redirects)
      BY <2>1 DEF StepsLeft
  <2>3. CASE pc' = "done"
      BY <2>2, <2>3 DEF StepsLeft
  <2>4. CASE Discover
    <3>1. pc = "lookup" /\ pc' = "request" /\ redirects' = redirects
        BY <2>4 DEF Discover
    <3>2. StepsLeft' = MaxRedirects + 1 - redirects
        BY <3>1 DEF StepsLeft
    <3>3. QED BY <2>1, <2>2, <3>1, <3>2
  <2>5. CASE Follow
    <3>1. pc = "request" /\ pc' = "request" /\ redirects' = redirects + 1
          /\ redirects < MaxRedirects
        BY <2>5 DEF Follow, Responds, MayRedirect
    <3>2. StepsLeft' = MaxRedirects + 1 - (redirects + 1)
        BY <3>1 DEF StepsLeft
    <3>3. QED BY <2>1, <2>2, <3>1, <3>2
  <2>6. pc' = "done" \/ Discover \/ Follow
      BY <1>1 DEF Next, Step, NoBootstrap, Unauthenticated, WithholdAtFirst, TransportFails,
             BadResponse, TooManyRedirects, RefuseRedirect, Withhold, Response, Again, End, Over
  <2>7. QED BY <2>3, <2>4, <2>5, <2>6
<1>2. ClientInv /\ ClientInv' /\ [Next]_vars
        => [ pc # "done" => StepsLeft \in Nat /\ StepsLeft' \in Nat /\ StepsLeft' < StepsLeft ]_vars
    BY <1>1
<1>3. QED BY <1>2, ClientAlways, PTL DEF Spec, GetsOn
================================================================================
