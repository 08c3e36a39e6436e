------------------------- MODULE MCProvisioningClient -------------------------
(***************************************************************************)
(* Responses for model checking ProvisioningClient, with addresses and     *)
(* ports of a few bits.                                                    *)
(***************************************************************************)
EXTENDS ProvisioningClient

Texts(bits) == {[address |-> a, len |-> n] : a \in {0, 2^bits - 1}, n \in 0..(bits + 1)}

\* Every rule, valid or not, for one prefix and its complement.
RuleTexts ==
    [ipv6 : Texts(Ipv6Bits), ipv4 : Texts(Ipv4Bits),
     ea_length : 0..(Ipv4Bits + PortBits + 1), psid_offset : 0..PortBits]

PortSetTexts ==
    [psid_offset : 0..PortBits, psid_length : 0..(PortBits + 1), psid : 0..2^PortBits,
     lwaftr : {"name"}, ipv6 : {[address |-> 1, len |-> 1]}]

ARule == [ipv6 |-> [address |-> 0, len |-> 1], ipv4 |-> [address |-> 0, len |-> 1],
          ea_length |-> 2, psid_offset |-> 0]

MapE(rules) == [version |-> "1", mesh |-> "absent", rules |-> rules]
MapT(rules) == [dmr |-> [address |-> 0, len |-> 1], rules |-> rules]

Xlat464 == {[nat64prefix |-> text] : text \in Texts(Ipv6Bits)} \cup {Malformed}
DsLite  == {[aftr |-> text] : text \in {"ipv6", "name", "ipv4", "other"}} \cup {Malformed}
IpIp    == {[tunnels |-> <<>>]} \cup {[tunnels |-> <<text>>] : text \in Texts(Ipv4Bits)}
Lw4o6   == PortSetTexts
MapEs   == {MapE(<<rule>>) : rule \in RuleTexts}
           \cup {MapE([i \in 1..n |-> ARule]) : n \in 0..(MapERules + 1)}
           \cup {[version |-> v, mesh |-> m, rules |-> <<ARule>>] :
                 v, m \in {"absent", "0", "1", "other"}}
MapTs   == {MapT([i \in 1..n |-> ARule]) : n \in 0..(MapTRules + 1)}
           \cup {[dmr |-> text, rules |-> <<ARule>>] : text \in Texts(Ipv6Bits)}

Body(order, offers, mostly) ==
    [complete |-> TRUE, token |-> FALSE, order |-> order, offers |-> offers,
     ipv6_mostly |-> mostly]

\* One offer, of whatever parameters.
Single(method, texts) == {Body(<<method>>, [c \in {method} |-> text], FALSE) : text \in texts}

\* Three valid offers and every order of up to three methods.
Orders == UNION {[1..n -> {"464xlat", "dslite", "lw4o6", "unknown"}] : n \in 0..3}

Valid3 == [c \in {"464xlat", "dslite", "lw4o6"} |->
              CASE c = "464xlat" -> [nat64prefix |-> [address |-> 0, len |-> 2]]
                [] c = "dslite"  -> [aftr |-> "name"]
                [] c = "lw4o6"   -> [psid_offset |-> 0, psid_length |-> 0, psid |-> 0,
                                     lwaftr |-> "ipv6", ipv6 |-> [address |-> 0, len |-> 0]]]

Mixed == {Body(order, [c \in methods |-> Valid3[c]], mostly) :
          order \in Orders, methods \in SUBSET DOMAIN Valid3, mostly \in BOOLEAN}

MCBodies ==
    Single("464xlat", Xlat464) \cup Single("dslite", DsLite) \cup Single("ipip", IpIp)
    \cup Single("lw4o6", Lw4o6) \cup Single("map_e", MapEs) \cup Single("map_t", MapTs)
    \cup Mixed
    \cup {[body EXCEPT !.token = TRUE] : body \in Single("dslite", DsLite)}
    \cup {[body EXCEPT !.complete = FALSE] : body \in Single("dslite", DsLite)}
===============================================================================
