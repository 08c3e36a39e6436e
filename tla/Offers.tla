-------------------------------- MODULE Offers --------------------------------
(***************************************************************************)
(* Offers (offers.rs, ProvisioningData of model.rs, dslite_aftr): which    *)
(* provisioning responses a client accepts, what it takes them for, and    *)
(* which of the offers is used.                                            *)
(*                                                                         *)
(* A response is the object its body decodes to. An address is a number of *)
(* so many bits, and a prefix is an address and a length. That a member is *)
(* absent, null, or not of its type or syntax is one thing: the object is  *)
(* malformed.                                                              *)
(***************************************************************************)
EXTENDS Integers, Sequences, FiniteSets

CONSTANTS
    Ipv4Bits, Ipv6Bits, PortBits,   \* 32, 128 and 16
    Nat64Lengths,                   \* lengths a NAT64 prefix may have
    DmrBits,                        \* bits a default mapping rule may have
    MapERules, MapTRules            \* rules a MAP-E or MAP-T offer may have

ASSUME OffersAssumption ==
    /\ {Ipv4Bits, Ipv6Bits, PortBits, DmrBits, MapERules, MapTRules} \subseteq Nat \ {0}
    /\ Nat64Lengths \subseteq Nat

Capability == {"464xlat", "dslite", "ipip", "lw4o6", "map_e", "map_t"}

None      == "none"
Malformed == [malformed |-> TRUE]
-------------------------------------------------------------------------------
(***************************************************************************)
(* Prefixes.                                                               *)
(***************************************************************************)
\* As it is written, a prefix may have host bits, and a length that is too large.
Network(bits, text) ==
    [address |-> text.address - (text.address % 2^(bits - text.len)), len |-> text.len]

Networks(bits) == UNION {{[address |-> i * 2^(bits - n), len |-> n] : i \in 0..(2^n - 1)} :
                         n \in 0..bits}

Ipv4Prefix(text) == Network(Ipv4Bits, text)
Ipv6Prefix(text) == Network(Ipv6Bits, text)

\* parse_cidr
IsIpv4Cidr(text) == text.len <= Ipv4Bits
IsIpv6Cidr(text) == text.len <= Ipv6Bits

IsEndpoint(text) == text \in {"ipv6", "name"}

\* Texts whose numbers can be read at all: an address, and unsigned numbers.
PrefixText(bits) == [address : 0..(2^bits - 1), len : Nat]
RuleText         == [ipv6 : PrefixText(Ipv6Bits), ipv4 : PrefixText(Ipv4Bits),
                     ea_length : Nat, psid_offset : Nat]
-------------------------------------------------------------------------------
(***************************************************************************)
(* MAP rules and port sets.                                                *)
(***************************************************************************)
SaturatingSub(a, b) == IF a > b THEN a - b ELSE 0

Ipv4SuffixLength(rule) ==
    LET width == Ipv4Bits - rule.ipv4.len
    IN  IF rule.ea_length < width THEN rule.ea_length ELSE width

PsidLength(rule) == SaturatingSub(rule.ea_length, Ipv4SuffixLength(rule))

\* Mutant: the EA bits may exceed the address.
IsRule_UnboundedEa(text) ==
    LET psidWidth == SaturatingSub(text.ea_length, Ipv4Bits - text.ipv4.len)
    IN  /\ text # Malformed
        /\ IsIpv6Cidr(text.ipv6) /\ IsIpv4Cidr(text.ipv4)
        /\ text.psid_offset < PortBits
        /\ psidWidth <= PortBits /\ text.psid_offset + psidWidth <= PortBits

\* Mutant: the offset is not added.
IsRule_IgnoringOffset(text) ==
    LET psidWidth == SaturatingSub(text.ea_length, Ipv4Bits - text.ipv4.len)
    IN  /\ text # Malformed
        /\ IsIpv6Cidr(text.ipv6) /\ IsIpv4Cidr(text.ipv4)
        /\ text.ea_length <= Ipv4Bits + PortBits /\ text.psid_offset < PortBits
        /\ text.ipv6.len + text.ea_length <= Ipv6Bits
        /\ psidWidth <= PortBits

IsRule(text) ==
    LET psidWidth == SaturatingSub(text.ea_length, Ipv4Bits - text.ipv4.len)
    IN  /\ text # Malformed
        /\ IsIpv6Cidr(text.ipv6) /\ IsIpv4Cidr(text.ipv4)
        /\ text.ea_length <= Ipv4Bits + PortBits /\ text.psid_offset < PortBits
        /\ text.ipv6.len + text.ea_length <= Ipv6Bits
        /\ psidWidth <= PortBits /\ text.psid_offset + psidWidth <= PortBits

MappingRule(text) == [ipv6 |-> Ipv6Prefix(text.ipv6), ipv4 |-> Ipv4Prefix(text.ipv4),
                      ea_length |-> text.ea_length, psid_offset |-> text.psid_offset]

AreRules(texts, most) ==
    Len(texts) \in 1..most /\ \A i \in DOMAIN texts : IsRule(texts[i])

MappingRules(texts) == [i \in DOMAIN texts |-> MappingRule(texts[i])]

\* Mutant: the delegated prefix need only be within the rule's.
ValidDelegatedPrefix_AnyLength(rule, prefix) ==
    Ipv6Prefix([prefix EXCEPT !.len = rule.ipv6.len]) = rule.ipv6

ValidDelegatedPrefix(rule, prefix) ==
    /\ prefix.len >= rule.ipv6.len + rule.ea_length
    /\ Ipv6Prefix([prefix EXCEPT !.len = rule.ipv6.len]) = rule.ipv6

\* Mutant: a PSID of one bit more.
IsPortSet_WidePsid(text) ==
    /\ text.psid_offset < PortBits /\ text.psid_length <= PortBits
    /\ text.psid_length <= PortBits - text.psid_offset
    /\ text.psid < 2^PortBits /\ text.psid <= 2^text.psid_length

IsPortSet(text) ==
    /\ text.psid_offset < PortBits /\ text.psid_length <= PortBits
    /\ text.psid_length <= PortBits - text.psid_offset
    /\ text.psid < 2^PortBits /\ text.psid < 2^text.psid_length

PortSet(text) == [psid |-> text.psid, psid_length |-> text.psid_length,
                  psid_offset |-> text.psid_offset]
-------------------------------------------------------------------------------
(***************************************************************************)
(* ProvisioningOffer::parse.                                               *)
(***************************************************************************)
IsOffer(capability, text) ==
    /\ text # Malformed
    /\ CASE capability = "464xlat" ->
              IsIpv6Cidr(text.nat64prefix) /\ text.nat64prefix.len \in Nat64Lengths
         [] capability = "dslite"  -> IsEndpoint(text.aftr)
         [] capability = "ipip"    -> \A i \in DOMAIN text.tunnels : IsIpv4Cidr(text.tunnels[i])
         [] capability = "lw4o6"   ->
              IsPortSet(text) /\ IsEndpoint(text.lwaftr) /\ IsIpv6Cidr(text.ipv6)
         [] capability = "map_e"   ->
              /\ text.version \in {"absent", "0", "1"} /\ text.mesh \in {"absent", "0", "1"}
              /\ AreRules(text.rules, MapERules)
         [] capability = "map_t"   ->
              /\ IsIpv6Cidr(text.dmr) /\ text.dmr.len <= DmrBits
              /\ AreRules(text.rules, MapTRules)

\* An absent version means the draft's, absent mesh means none.
MapEVersion(text) == IF text.version = "1" THEN "Rfc7597" ELSE "Draft03"
MapMode(text)     == IF text.mesh = "1" THEN "Mesh" ELSE "HubAndSpoke"

Xlat464Parameters(text) == [nat64_prefix |-> Ipv6Prefix(text.nat64prefix)]

Lw4o6Parameters(text) ==
    [lwaftr |-> text.lwaftr, port_set |-> PortSet(text), binding_prefix |-> Ipv6Prefix(text.ipv6)]

MapEParameters(text) ==
    [version |-> MapEVersion(text), mode |-> MapMode(text), rules |-> MappingRules(text.rules)]

MapTParameters(text) ==
    [dmr |-> Ipv6Prefix(text.dmr), rules |-> MappingRules(text.rules)]

Offer(capability, text) ==
    CASE capability = "464xlat" -> Xlat464Parameters(text)
      [] capability = "lw4o6"   -> Lw4o6Parameters(text)
      [] capability = "map_e"   -> MapEParameters(text)
      [] capability = "map_t"   -> MapTParameters(text)
      [] OTHER                  -> text
-------------------------------------------------------------------------------
(***************************************************************************)
(* Provisioning data: a preference order and the offers.                   *)
(***************************************************************************)
\* Mutant: the order may name methods that are not offered.
IsData_OrderUnbacked(body) ==
    /\ body.complete
    /\ \A i \in DOMAIN body.order : body.order[i] \in Capability
    /\ \A i, j \in DOMAIN body.order : i # j => body.order[i] # body.order[j]
    /\ \A c \in DOMAIN body.offers : IsOffer(c, body.offers[c])
    /\ body.ipv6_mostly => "464xlat" \in DOMAIN body.offers

\* ProvisioningData::parse.
IsData(body) ==
    /\ body.complete
    /\ \A i \in DOMAIN body.order : body.order[i] \in Capability
    /\ \A i, j \in DOMAIN body.order : i # j => body.order[i] # body.order[j]
    /\ \A c \in DOMAIN body.offers : IsOffer(c, body.offers[c])
    /\ \A i \in DOMAIN body.order : body.order[i] \in DOMAIN body.offers
    /\ body.ipv6_mostly => "464xlat" \in DOMAIN body.offers

Data(body) ==
    [token |-> body.token, order |-> body.order, ipv6_mostly |-> body.ipv6_mostly,
     offers |-> [c \in DOMAIN body.offers |-> Offer(c, body.offers[c])]]

\* The method of the first offer in the server's order that is supported.
Select(data, supported) ==
    LET usable == {i \in DOMAIN data.order :
                      data.order[i] \in supported /\ data.order[i] \in DOMAIN data.offers}
    IN  IF usable = {} THEN None
        ELSE data.order[CHOOSE i \in usable : \A j \in usable : i <= j]

\* The daemon supports DS-Lite only.
DsliteAftr(data) ==
    IF Select(data, {"dslite"}) = None \/ "dslite" \notin DOMAIN data.offers
      THEN None ELSE data.offers["dslite"].aftr
-------------------------------------------------------------------------------
(***************************************************************************)
(* What the parameters mean to a customer's router (RFC 7597, section 5).  *)
(***************************************************************************)
\* The ports of a PSID. With an offset the first block belongs to nobody.
Ports(offset, length, psid) ==
    LET blocks == IF offset = 0 THEN {0} ELSE 1..(2^offset - 1)
        run    == 2^(PortBits - offset - length)
    IN  {b * 2^(PortBits - offset) + psid * run + i : b \in blocks, i \in 0..(run - 1)}

\* The embedded-address bits of an address under a rule.
EmbeddedBits(rule, address) ==
    (address \div 2^(Ipv6Bits - rule.ipv6.len - rule.ea_length)) % 2^rule.ea_length

\* The IPv4 prefix or address, and the PSID, that an address under a rule has.
ShareOf(rule, address) ==
    LET ea     == EmbeddedBits(rule, address)
        suffix == ea \div 2^PsidLength(rule)
        unused == Ipv4Bits - rule.ipv4.len - Ipv4SuffixLength(rule)
    IN  [ipv4 |-> rule.ipv4.address + suffix * 2^unused, psid |-> ea % 2^PsidLength(rule)]

LastOf(prefix) == prefix.address + 2^(Ipv6Bits - prefix.len) - 1
===============================================================================
