-------------------------- MODULE ProvisioningClient --------------------------
(***************************************************************************)
(* Client::provision of hb46pp (client.rs), with its default resolver and  *)
(* transport, and what the daemon's discovery runtime makes of the outcome *)
(* (aftr_discovery.rs): a DNS lookup, a request, redirects, a response     *)
(* (Offers). DNS and the servers may answer anything. When the next        *)
(* attempt comes is the subject of Schedule.                               *)
(***************************************************************************)
EXTENDS Offers

CONSTANTS
    Names,             \* hosts given by name or by a usable IPv6 address
    MaxRedirects,      \* max_redirects
    Bodies             \* bodies of responses, as far as they are UTF-8

\* The numbers of an offer are unsigned, those of a prefix are an address and a length.
HasNumbers(capability, text) ==
    /\ capability = "lw4o6" =>
          {text.psid_offset, text.psid_length, text.psid} \subseteq Nat
    /\ capability \in {"map_e", "map_t"} => text.rules \in Seq(RuleText \cup {Malformed})

ASSUME ClientAssumption ==
    /\ MaxRedirects \in Nat
    /\ Names \cap {"ipv4", "local", "none", "any"} = {}
    /\ \A body \in Bodies :
          /\ body.order \in Seq(STRING)
          /\ \A c \in DOMAIN body.offers :
                body.offers[c] # Malformed => HasNumbers(c, body.offers[c])

VARIABLES
    policy,            \* authentication_policy
    credentials,       \* the request's: "none", for "any" server, or for one
    pc,                \* "lookup", "request" or "done"
    tls,               \* the bootstrap record's TLS policy, "none" without one
    url,               \* request_url
    redirects,         \* redirects_count
    sent,              \* history: the requests of this attempt, as far as Send counts
    outcome,           \* of the attempt, "none" while it runs
    data,              \* the provisioning data it ends with
    token              \* the request's: the TLS policy it was received under

config == <<policy, credentials>>
vars   == <<config, pc, tls, url, redirects, sent, outcome, data, token>>

\* "ipv4" stands for literal IPv4 addresses, "local" for IPv6 addresses of no
\* remote server: unspecified, loopback, multicast, link-local, IPv4-mapped.
Endpoint == [scheme : {"http", "https", "other"}, host : Names \cup {"ipv4", "local"}]
NoUrl    == [scheme |-> "none", host |-> "none"]

\* Bodies that are valid provisioning data.
Accepted == {body \in Bodies : IsData(body)}
AllData  == {Data(body) : body \in Accepted}
NoData   == [absent |-> TRUE]

\* A record with its three fields.
TxtRecord == [url : Endpoint, tls : {"a", "b"}]

\* A provisioning response with or without a DS-Lite offer in its order, no
\* bootstrap record, or a variant of ClientError.
Outcomes == {"Offer", "NoOffer", "NotFound", "Resolver", "UnexpectedRecordCount",
             "Bootstrap", "UnauthenticatedProvisioningNotAllowed", "ProvisioningUrl",
             "Transport", "ResponseEncoding", "ProvisioningData", "Redirect",
             "UnexpectedResponseStatus"}

\* Mutant: a server that answers with an error disables the tunnel.
RetryAction_Disabling(error) ==
    CASE error \in {"UnexpectedRecordCount", "Bootstrap",
                    "UnauthenticatedProvisioningNotAllowed",
                    "UnexpectedResponseStatus"} -> "disable"
      [] error \in {"ProvisioningUrl", "Redirect"} -> "none"
      [] OTHER -> "preserve"

\* ClientError::retry_action.
RetryAction(error) ==
    CASE error \in {"UnexpectedRecordCount", "Bootstrap",
                    "UnauthenticatedProvisioningNotAllowed"} -> "disable"
      [] error \in {"ProvisioningUrl", "Redirect"} -> "none"
      [] OTHER -> "preserve"

\* discover_aftr: the discovery state an outcome comes to.
StateOf(how) ==
    CASE how = "Offer" -> "available"
      [] how \in {"NoOffer", "NotFound"} -> "noService"
      [] OTHER -> IF RetryAction(how) = "disable" THEN "noService" ELSE "unavailable"

TypeOK ==
    /\ policy \in {"require", "allow"}
    /\ credentials \in Names \cup {"none", "any"}
    /\ pc \in {"lookup", "request", "done"}
    /\ tls \in {"none", "a", "b"}
    /\ url \in Endpoint \cup {NoUrl} /\ (pc = "request" => url # NoUrl /\ tls # "none")
    /\ redirects \in 0..MaxRedirects
    /\ sent \in 0..(MaxRedirects + 2)
    /\ outcome \in Outcomes \cup {"none"} /\ (pc = "done" <=> outcome # "none")
    /\ data \in AllData \cup {NoData}
    /\ data # NoData <=> outcome \in {"Offer", "NoOffer"}
    /\ token \in {"none", "a", "b"}

Idle ==
    /\ pc = "lookup" /\ tls = "none" /\ url = NoUrl
    /\ redirects = 0 /\ sent = 0 /\ outcome = "none" /\ data = NoData

Init ==
    /\ policy \in {"require", "allow"}
    /\ credentials \in Names \cup {"none", "any"} /\ token = "none"
    /\ Idle
-------------------------------------------------------------------------------
(***************************************************************************)
(* discover_bootstrap.                                                     *)
(***************************************************************************)
Over == /\ pc' = "done" /\ tls' = "none" /\ url' = NoUrl /\ redirects' = 0
        /\ UNCHANGED config

End(how) == Over /\ outcome' = how /\ data' = NoData /\ UNCHANGED token

\* The lookup fails, answers NXDOMAIN or NODATA, has not one TXT record or not
\* one that can be read.
NoBootstrap ==
    /\ pc = "lookup"
    /\ \E how \in {"Resolver", "NotFound", "UnexpectedRecordCount", "Bootstrap"} : End(how)
    /\ UNCHANGED sent

\* Bootstrap::parse.
Valid(record) ==
    /\ record.url.scheme \in {"http", "https"}
    /\ record.url.scheme = "http" => record.tls = "a"
    /\ record.url.host # "ipv4"

\* Mutant: the client's policy is not asked.
Accepts_Anything(record) == Valid(record)

Accepts(record) == Valid(record) /\ (policy = "require" => record.tls = "b")

Unauthenticated ==
    /\ pc = "lookup" /\ \E record \in TxtRecord : Valid(record) /\ ~Accepts(record)
    /\ End("UnauthenticatedProvisioningNotAllowed")
    /\ UNCHANGED sent

\* provisioning_url_for: credentials for one server are for nobody else.
MayCarry(target, policyOfRecord) ==
    credentials \in Names =>
        target.scheme = "https" /\ policyOfRecord = "b" /\ target.host = credentials

\* The request for the bootstrap record's URL is ready.
Discover ==
    /\ pc = "lookup"
    /\ \E record \in TxtRecord :
          /\ Accepts(record) /\ MayCarry(record.url, record.tls)
          /\ url' = record.url /\ tls' = record.tls
    /\ pc' = "request"
    /\ UNCHANGED <<config, redirects, sent, outcome, data, token>>

WithholdAtFirst ==
    /\ pc = "lookup"
    /\ \E record \in TxtRecord : Accepts(record) /\ ~MayCarry(record.url, record.tls)
    /\ End("ProvisioningUrl")
    /\ UNCHANGED sent
-------------------------------------------------------------------------------
(***************************************************************************)
(* The loop of provision: a request and its response.                      *)
(***************************************************************************)
\* One request more; from MaxRedirects + 2 on it makes no difference.
Send == sent' = IF sent < MaxRedirects + 2 THEN sent + 1 ELSE sent

\* send_once: a connection that fails, a time limit, a response that is too
\* large, an endpoint the transport does not connect to.
TransportFails ==
    /\ pc = "request" /\ Send
    /\ End("Transport")

Responds == pc = "request" /\ url.host \notin {"ipv4", "local"} /\ Send

\* A response of a status that is neither 200 nor 307, or of status 200 with a
\* body that is not text or not valid provisioning data.
BadResponse ==
    /\ Responds
    /\ \/ \E how \in {"UnexpectedResponseStatus", "ResponseEncoding"} : End(how)
       \/ End("ProvisioningData") /\ Bodies # Accepted

\* apply_response keeps the token for the requests to come.
Response ==
    /\ Responds
    /\ Over /\ data' \in AllData
    /\ outcome' = IF DsliteAftr(data') = None THEN "NoOffer" ELSE "Offer"
    /\ token' = IF data'.token THEN tls ELSE token

\* Mutant: the limit is checked after the count.
MayRedirect_OneMore == redirects <= MaxRedirects

MayRedirect == redirects < MaxRedirects

TooManyRedirects ==
    /\ Responds /\ ~MayRedirect /\ End("Redirect")

\* Mutant: only the bootstrap record's URL need be HTTPS.
Allowed_Http(target) ==
    target.scheme \in {"http", "https"} /\ target.host # "ipv4"

\* redirect_endpoint.
Allowed(target) ==
    /\ target.scheme = "https" \/ (target.scheme = "http" /\ tls = "a")
    /\ target.host # "ipv4"

\* Without Location, with one that is no URL, or with one that is not allowed.
RefuseRedirect ==
    /\ Responds /\ MayRedirect /\ End("Redirect")

\* Mutant: the credentials are checked against the bootstrap record's URL only.
Follow_Unchecked ==
    /\ Responds /\ MayRedirect
    /\ redirects' = redirects + 1
    /\ url' \in {target \in Endpoint : Allowed(target)}
    /\ UNCHANGED <<config, pc, tls, outcome, data, token>>

\* Mutant: a redirect is counted only if it is refused.
Follow_Uncounted ==
    /\ Responds /\ MayRedirect
    /\ url' \in {target \in Endpoint : Allowed(target) /\ MayCarry(target, tls)}
    /\ UNCHANGED <<config, pc, tls, redirects, outcome, data, token>>

Follow ==
    /\ Responds /\ MayRedirect
    /\ redirects' = redirects + 1
    /\ url' \in {target \in Endpoint : Allowed(target) /\ MayCarry(target, tls)}
    /\ UNCHANGED <<config, pc, tls, outcome, data, token>>

Withhold ==
    /\ Responds /\ MayRedirect
    /\ \E target \in Endpoint : Allowed(target) /\ ~MayCarry(target, tls)
    /\ End("ProvisioningUrl")
-------------------------------------------------------------------------------
\* The next attempt.
Again ==
    /\ pc = "done"
    /\ pc' = "lookup" /\ tls' = "none" /\ url' = NoUrl
    /\ redirects' = 0 /\ sent' = 0 /\ outcome' = "none" /\ data' = NoData
    /\ UNCHANGED <<config, token>>

Step == \/ NoBootstrap \/ Unauthenticated \/ Discover \/ WithholdAtFirst
        \/ TransportFails \/ BadResponse \/ TooManyRedirects \/ RefuseRedirect
        \/ Follow \/ Withhold

Next == Step \/ Response \/ Again

Spec == Init /\ [][Next]_vars

\* Lookups and requests have time limits. A response ends the attempt, so that
\* fairness to it would not add anything.
FairSpec == Spec /\ WF_vars(Step)
-------------------------------------------------------------------------------
Secret == credentials \in Names

\* The protocol's rules hold for every request, however often it was redirected:
\* a client that requires it asks only servers with a validated certificate and
\* carries the token of no other, such a policy of the record is kept up, and
\* nobody is asked over IPv4.
KeepsPolicy ==
    /\ policy = "require" => token # "a"
    /\ pc = "request" =>
         /\ policy = "require" => tls = "b"
         /\ url.scheme = "https" \/ (url.scheme = "http" /\ tls = "a")
         /\ url.host # "ipv4"

\* Credentials restricted to one validated server are sent to no other.
KeepsCredentials ==
    pc = "request" /\ Secret =>
        tls = "b" /\ url.scheme = "https" /\ url.host = credentials

\* An attempt makes the first request and one for each redirect it may follow.
BoundedRequests == sent <= MaxRedirects + 1

\* Trouble with a server never takes the service away: that there is none is
\* said by DNS, before any request, or by a valid response.
OutlivesTrouble ==
    pc = "done" /\ StateOf(outcome) = "noService" => sent = 0 \/ outcome = "NoOffer"

\* Every attempt ends, although servers may redirect for ever.
AttemptsEnd == (pc # "done") ~> (pc = "done")

Rules(d) ==
    UNION {LET rules == d.offers[c].rules IN {rules[i] : i \in DOMAIN rules} :
           c \in DOMAIN d.offers \cap {"map_e", "map_t"}}

\* The offsets and lengths of the port sets in the data, each with the PSID if it
\* is given.
PortSets(d) ==
    (IF "lw4o6" \in DOMAIN d.offers
       THEN {LET set == d.offers["lw4o6"].port_set
             IN  [offset |-> set.psid_offset, length |-> set.psid_length, psid |-> set.psid]}
       ELSE {})
    \cup {[offset |-> rule.psid_offset, length |-> PsidLength(rule), psid |-> 0] : rule \in Rules(d)}

\* Whatever offset, length and PSID a server sends: of what is accepted, every
\* PSID has ports, and no two of them have one in common.
PortSetsAreDisjoint ==
    data # NoData =>
        \A set \in PortSets(data) :
            LET psids == 0..(2^set.length - 1)
                ports == [psid \in psids |-> Ports(set.offset, set.length, psid)]
            IN  /\ set.offset + set.length <= PortBits /\ set.psid \in psids
                /\ \A psid \in psids : ports[psid] # {} /\ ports[psid] \subseteq 0..(2^PortBits - 1)
                /\ \A p, q \in psids : p # q => ports[p] \cap ports[q] = {}

\* Under a rule that is accepted, a delegated prefix that passes the check has one
\* share of the rule's IPv4 prefix wherever in it one looks, and prefixes that
\* differ in the embedded bits have different shares.
SharesAreSeparate ==
    data # NoData =>
        \A rule \in Rules(data) :
            LET valid  == {p \in Networks(Ipv6Bits) : ValidDelegatedPrefix(rule, p)}
                shares == {ShareOf(rule, p.address) : p \in valid}
            IN  /\ \A p \in valid : ShareOf(rule, p.address) = ShareOf(rule, LastOf(p))
                /\ Cardinality(shares) = 2^rule.ea_length
                /\ \A share \in shares :
                      /\ Ipv4Prefix([address |-> share.ipv4, len |-> rule.ipv4.len]) = rule.ipv4
                      /\ share.psid < 2^PsidLength(rule)

\* The server's preference decides: the first method of its order that a client
\* supports is the one it gets the parameters of, and never a later one.
SelectsPreferred ==
    data # NoData =>
        \A supported \in SUBSET Capability : \A i \in DOMAIN data.order :
            /\ data.order[i] \in supported
            /\ \A j \in 1..(i - 1) : data.order[j] \notin supported
            => Select(data, supported) = data.order[i]
===============================================================================
