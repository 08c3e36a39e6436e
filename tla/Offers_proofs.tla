----------------------------- MODULE Offers_proofs -----------------------------
(***************************************************************************)
(* What the validations of Offers guarantee, for addresses and ports of    *)
(* any width: of port sets and of the shares of a MAP rule.                *)
(***************************************************************************)
EXTENDS Offers, FiniteSetTheorems, FunctionTheorems, TLAPS

(***************************************************************************)
(* Powers of two. 2^n is the number of subsets of a set of n elements: so  *)
(* its laws follow from those of Cardinality, without induction.           *)
(***************************************************************************)
LEMMA Subsets ==
    ASSUME NEW S, IsFiniteSet(S)
    PROVE  /\ IsFiniteSet(SUBSET S)
           /\ Cardinality(SUBSET S) = 2^Cardinality(S)
           /\ 2^Cardinality(S) \in Nat
BY FS_SUBSET, FS_CardinalityType

LEMMA PowerType ==
    ASSUME NEW n \in Nat
    PROVE  2^n \in Nat /\ 2^n >= 1 /\ 2^0 = 1 /\ 2^1 = 2
<1> DEFINE S == 1..n
<1>1. IsFiniteSet(S) /\ Cardinality(S) = n
    BY FS_Interval
<1> HIDE DEF S
<1>2. IsFiniteSet(SUBSET S) /\ Cardinality(SUBSET S) = 2^n /\ 2^n \in Nat
    BY <1>1, Subsets
<1>3. SUBSET S # {}
    OBVIOUS
<1>4. 2^n # 0
    BY <1>2, <1>3, FS_EmptySet
<1>5. QED BY <1>2, <1>4

LEMMA PowerSum ==
    ASSUME NEW m \in Nat, NEW n \in Nat
    PROVE  2^(m+n) = 2^m * 2^n
<1> DEFINE S == 1..m
           T == (m+1)..(m+n)
           U == 1..(m+n)
           f == [p \in (SUBSET S) \X (SUBSET T) |-> p[1] \cup p[2]]
<1>1. /\ IsFiniteSet(SUBSET S) /\ Cardinality(SUBSET S) = 2^m
      /\ IsFiniteSet(SUBSET T) /\ Cardinality(SUBSET T) = 2^n
      /\ IsFiniteSet(SUBSET U) /\ Cardinality(SUBSET U) = 2^(m+n)
  <2>1. /\ IsFiniteSet(S) /\ Cardinality(S) = m
        /\ IsFiniteSet(T) /\ Cardinality(T) = n
        /\ IsFiniteSet(U) /\ Cardinality(U) = m + n
    <3>1. ASSUME NEW a \in Nat, NEW b \in Nat
          PROVE  IsFiniteSet((a+1)..(a+b)) /\ Cardinality((a+1)..(a+b)) = b
        BY FS_Interval
    <3>2. S = (0+1)..(0+m) /\ U = (0+1)..(0+(m+n)) /\ T = (m+1)..(m+n)
        OBVIOUS
    <3>3. m + n \in Nat
        OBVIOUS
    <3> HIDE DEF S, T, U
    <3>4. IsFiniteSet(S) /\ Cardinality(S) = m
        BY <3>1, <3>2
    <3>5. IsFiniteSet(U) /\ Cardinality(U) = m + n
        BY <3>1, <3>2, <3>3
    <3>6. IsFiniteSet(T) /\ Cardinality(T) = n
        BY <3>1, <3>2
    <3>7. QED BY <3>4, <3>5, <3>6
  <2> HIDE DEF S, T, U
  <2>2. QED BY <2>1, Subsets
<1>2. S \cup T = U /\ S \cap T = {}
    OBVIOUS
<1> HIDE DEF S, T, U
<1>3. f \in [(SUBSET S) \X (SUBSET T) -> SUBSET U]
    BY <1>2
<1>4. ASSUME NEW p \in (SUBSET S) \X (SUBSET T), NEW q \in (SUBSET S) \X (SUBSET T), f[p] = f[q]
      PROVE  p = q
    <2>1. p[1] \cup p[2] = q[1] \cup q[2]
        BY <1>4
    <2>2. p[1] = q[1] /\ p[2] = q[2]
        BY <1>2, <2>1
    <2>3. QED BY <2>2
<1>5. ASSUME NEW u \in SUBSET U PROVE \E p \in (SUBSET S) \X (SUBSET T) : f[p] = u
    <2>1. <<u \cap S, u \cap T>> \in (SUBSET S) \X (SUBSET T)
        OBVIOUS
    <2>2. f[<<u \cap S, u \cap T>>] = u
        BY <1>2, <2>1
    <2>3. QED BY <2>1, <2>2
<1>6. f \in Bijection((SUBSET S) \X (SUBSET T), SUBSET U)
    BY <1>3, <1>4, <1>5, Fun_IsBij
<1> HIDE DEF f
<1>7. ExistsBijection((SUBSET S) \X (SUBSET T), SUBSET U)
    BY <1>6 DEF ExistsBijection
<1>8. /\ IsFiniteSet((SUBSET S) \X (SUBSET T))
      /\ Cardinality((SUBSET S) \X (SUBSET T)) = 2^m * 2^n
    BY <1>1, FS_Product
<1>9. Cardinality(SUBSET U) = 2^m * 2^n
    BY <1>7, <1>8, FS_Bijection
<1>10. QED BY <1>1, <1>9

-------------------------------------------------------------------------------
(***************************************************************************)
(* Division by a divisor that is not a constant.                           *)
(***************************************************************************)
LEMMA Multiples ==
    ASSUME NEW d \in Nat, NEW a \in Int, NEW b \in Int, a <= b
    PROVE  d * a <= d * b
<1>1. d * (b - a) >= 0
    OBVIOUS
<1>2. QED BY <1>1

LEMMA Division ==
    ASSUME NEW x \in Nat, NEW d \in Nat \ {0}
    PROVE  /\ x \div d \in Nat /\ x % d \in 0..(d - 1)
           /\ x = d * (x \div d) + (x % d)
    OBVIOUS

\* Quotient and rest are determined.
LEMMA DivisionIsUnique ==
    ASSUME NEW d \in Nat \ {0}, NEW p \in Nat, NEW q \in Nat,
           NEW r \in 0..(d - 1), NEW s \in 0..(d - 1), d * p + r = d * q + s
    PROVE  p = q /\ r = s
<1>1. CASE p = q
    BY <1>1
<1>2. CASE p + 1 <= q
  <2>1. d * (p + 1) <= d * q
      BY <1>2, Multiples
  <2>2. d * p + d <= d * q
      BY <2>1
  <2>3. QED BY <2>2
<1>3. CASE q + 1 <= p
  <2>1. d * (q + 1) <= d * p
      BY <1>3, Multiples
  <2>2. d * q + d <= d * p
      BY <2>1
  <2>3. QED BY <2>2
<1>4. QED BY <1>1, <1>2, <1>3

LEMMA Quotient ==
    ASSUME NEW d \in Nat \ {0}, NEW q \in Nat, NEW r \in 0..(d - 1)
    PROVE  (d * q + r) \div d = q /\ (d * q + r) % d = r
<1> DEFINE x == d * q + r
<1>1. x \in Nat
    OBVIOUS
<1>2. x = d * q + r
    OBVIOUS
<1> HIDE DEF x
<1>3. /\ x \div d \in Nat /\ x % d \in 0..(d - 1)
      /\ x = d * (x \div d) + (x % d)
    BY <1>1, Division
<1>4. x \div d = q /\ x % d = r
    BY <1>2, <1>3, DivisionIsUnique
<1>5. QED BY <1>4 DEF x

-------------------------------------------------------------------------------
(***************************************************************************)
(* Port sets.                                                              *)
(***************************************************************************)
\* A block of 2^(PortBits - offset) ports is cut into runs, one for each PSID.
LEMMA Runs ==
    ASSUME NEW offset \in Nat, NEW length \in Nat, offset + length <= PortBits,
           NEW psid \in 0..(2^length - 1), NEW i \in 0..(2^(PortBits - offset - length) - 1)
    PROVE  /\ 2^(PortBits - offset) = 2^length * 2^(PortBits - offset - length)
           /\ psid * 2^(PortBits - offset - length) + i \in 0..(2^(PortBits - offset) - 1)
<1> DEFINE L == 2^length
           R == 2^(PortBits - offset - length)
<1>1. PortBits \in Nat /\ PortBits - offset - length \in Nat
    BY OffersAssumption
<1>2. L \in Nat \ {0} /\ R \in Nat \ {0}
    BY <1>1, PowerType
<1>3. 2^(PortBits - offset) = L * R
  <2>1. length + (PortBits - offset - length) = PortBits - offset
      BY <1>1
  <2>2. 2^(length + (PortBits - offset - length)) = L * R
      BY <1>1, PowerSum
  <2>3. QED BY <2>1, <2>2
<1>4. psid \in Nat /\ psid + 1 <= L /\ i \in Nat /\ i + 1 <= R
    BY <1>2
<1> HIDE DEF L, R
<1>5. R * (psid + 1) <= R * L
    BY <1>2, <1>4, Multiples
<1>6. psid * R + i \in 0..(L * R - 1)
    BY <1>2, <1>4, <1>5
<1>7. QED BY <1>3, <1>6 DEF L, R

\* The blocks of an offset. From offset 1 on there is another than the first.
Blocks(offset) == IF offset = 0 THEN {0} ELSE 1..(2^offset - 1)

LEMMA BlocksOfOffset ==
    ASSUME NEW offset \in Nat
    PROVE  Blocks(offset) # {} /\ Blocks(offset) \subseteq 0..(2^offset - 1)
<1>1. CASE offset = 0
    BY <1>1, PowerType DEF Blocks
<1>2. CASE offset > 0
  <2>1. 2^offset = 2 * 2^(offset - 1)
    <3>1. offset - 1 \in Nat /\ 1 + (offset - 1) = offset
        BY <1>2
    <3>2. 2^(1 + (offset - 1)) = 2^1 * 2^(offset - 1)
        BY <3>1, PowerSum
    <3>3. QED BY <3>1, <3>2, PowerType
  <2> DEFINE n == 2^offset
             half == 2^(offset - 1)
  <2>2. half \in Nat /\ half >= 1 /\ n = 2 * half
      BY <1>2, <2>1, PowerType
  <2>3. Blocks(offset) = 1..(n - 1)
      BY <1>2 DEF Blocks
  <2> HIDE DEF n, half
  <2>4. 1 \in 1..(n - 1) /\ 1..(n - 1) \subseteq 0..(n - 1)
      BY <2>2
  <2>5. QED BY <2>3, <2>4 DEF n
<1>3. QED BY <1>1, <1>2

\* A port of a PSID says its block, the PSID and the place in the run.
LEMMA PortOf ==
    ASSUME NEW offset \in Nat, NEW length \in Nat, offset + length <= PortBits,
           NEW psid \in 0..(2^length - 1), NEW port \in Ports(offset, length, psid)
    PROVE  /\ port \in 0..(2^PortBits - 1)
           /\ (port % 2^(PortBits - offset)) \div 2^(PortBits - offset - length) = psid
<1> DEFINE L == 2^length
           R == 2^(PortBits - offset - length)
           B == 2^(PortBits - offset)
           O == 2^offset
<1>1. PICK b \in Blocks(offset), i \in 0..(R - 1) : port = b * B + psid * R + i
    BY DEF Ports, Blocks
<1>2. PortBits \in Nat /\ PortBits - offset \in Nat /\ PortBits - offset - length \in Nat
    BY OffersAssumption
<1>3. B \in Nat \ {0} /\ R \in Nat \ {0} /\ L \in Nat \ {0} /\ O \in Nat \ {0}
    BY <1>2, PowerType
<1>4. 2^PortBits = B * O
  <2>1. (PortBits - offset) + offset = PortBits
      BY <1>2
  <2>2. 2^((PortBits - offset) + offset) = B * O
      BY <1>2, PowerSum
  <2>3. QED BY <2>1, <2>2
<1>5. psid * R + i \in 0..(B - 1)
    BY <1>1, Runs
<1>6. b \in 0..(O - 1)
    BY <1>1, BlocksOfOffset
<1>7. psid \in Nat /\ i \in Nat
    BY <1>1, <1>3
<1> HIDE DEF L, R, B, O
<1> DEFINE rest == psid * R + i
<1>8. rest \in 0..(B - 1) /\ port = B * b + rest
    BY <1>1, <1>3, <1>5, <1>6, <1>7
<1>9. rest = R * psid + i
    BY <1>3, <1>7
<1> HIDE DEF rest
<1>10. port % B = rest
  <2>1. B \in Nat \ {0} /\ b \in Nat
      BY <1>3, <1>6
  <2>2. (B * b + rest) % B = rest
      BY <1>8, <2>1, Quotient
  <2>3. QED BY <1>8, <2>2
<1>11. rest \div R = psid
    BY <1>1, <1>3, <1>7, <1>9, Quotient
<1>12. port \in 0..(B * O - 1)
  <2>1. B * (b + 1) <= B * O
      BY <1>3, <1>6, Multiples
  <2>2. QED BY <1>3, <1>6, <1>8, <2>1
<1>13. QED BY <1>4, <1>10, <1>11, <1>12 DEF B, R

\* Port sets partition the ports: of an offset and a length that fit a port, every
\* PSID has ports, all of them are ports, and two PSIDs have none in common (the
\* port sets that PortSet::parse and MappingRule::parse let through).
THEOREM PortSetsPartition ==
    ASSUME NEW offset \in Nat, NEW length \in Nat, offset + length <= PortBits
    PROVE  /\ \A psid \in 0..(2^length - 1) :
                 /\ Ports(offset, length, psid) # {}
                 /\ Ports(offset, length, psid) \subseteq 0..(2^PortBits - 1)
           /\ \A p, q \in 0..(2^length - 1) :
                 p # q => Ports(offset, length, p) \cap Ports(offset, length, q) = {}
<1>1. ASSUME NEW psid \in 0..(2^length - 1)
      PROVE  Ports(offset, length, psid) # {}
  <2> DEFINE R == 2^(PortBits - offset - length)
  <2>1. R \in Nat \ {0}
      BY OffersAssumption, PowerType
  <2>2. 0 \in 0..(R - 1)
      BY <2>1
  <2>3. PICK b : b \in Blocks(offset)
      BY BlocksOfOffset
  <2>4. b * 2^(PortBits - offset) + psid * R + 0 \in Ports(offset, length, psid)
      BY <2>2, <2>3 DEF Ports, Blocks
  <2>5. QED BY <2>4
<1>2. ASSUME NEW psid \in 0..(2^length - 1)
      PROVE  Ports(offset, length, psid) \subseteq 0..(2^PortBits - 1)
    BY PortOf
<1>3. ASSUME NEW p \in 0..(2^length - 1), NEW q \in 0..(2^length - 1), p # q
      PROVE  Ports(offset, length, p) \cap Ports(offset, length, q) = {}
  <2> SUFFICES ASSUME NEW port \in Ports(offset, length, p), port \in Ports(offset, length, q)
               PROVE  p = q
      BY <1>3
  <2>1. QED BY PortOf
<1>4. QED BY <1>1, <1>2, <1>3

-------------------------------------------------------------------------------
(***************************************************************************)
(* Networks.                                                               *)
(***************************************************************************)
\* A power of two over that of a part of the exponent.
LEMMA PowerOver ==
    ASSUME NEW m \in Nat, NEW n \in Nat, n <= m
    PROVE  2^m = 2^(m - n) * 2^n
<1>1. m - n \in Nat /\ (m - n) + n = m
    OBVIOUS
<1>2. 2^((m - n) + n) = 2^(m - n) * 2^n
    BY <1>1, PowerSum
<1>3. QED BY <1>1, <1>2

LEMMA NetworkAddress ==
    ASSUME NEW bits \in Nat, NEW network \in Networks(bits)
    PROVE  \E n \in 0..bits : \E i \in 0..(2^n - 1) :
              network = [address |-> i * 2^(bits - n), len |-> n]
BY DEF Networks

LEMMA NetworkIn ==
    ASSUME NEW bits \in Nat, NEW n \in 0..bits, NEW i \in 0..(2^n - 1)
    PROVE  [address |-> i * 2^(bits - n), len |-> n] \in Networks(bits)
BY DEF Networks

\* What is left of an address without its host bits is a network.
LEMMA NetworkIsNetwork ==
    ASSUME NEW bits \in Nat, NEW text, text.address \in 0..(2^bits - 1), text.len \in 0..bits
    PROVE  Network(bits, text) \in Networks(bits)
<1> DEFINE a == text.address
           n == text.len
           M == 2^(bits - n)
           N == 2^n
           B == 2^bits
           q == a \div M
<1>1. B = M * N /\ M \in Nat \ {0} /\ N \in Nat \ {0} /\ a \in 0..(B - 1)
  <2>1. n \in Nat /\ bits - n \in Nat /\ n <= bits
      OBVIOUS
  <2>2. B = M * N
      BY <2>1, PowerOver
  <2>3. M \in Nat \ {0} /\ N \in Nat \ {0}
      BY <2>1, PowerType
  <2>4. QED BY <2>2, <2>3
<1> HIDE DEF B, M, N, a
<1>2. a \in Nat /\ a < B
    BY <1>1
<1>3. q \in Nat /\ a = M * q + (a % M) /\ a % M \in 0..(M - 1)
    BY <1>1, <1>2, Division
<1> HIDE DEF q
<1>4. q < N
  <2> SUFFICES ASSUME N <= q PROVE FALSE
      BY <1>1, <1>3
  <2>1. M * N <= M * q
      BY <1>1, <1>3, Multiples
  <2>2. QED BY <1>1, <1>2, <1>3, <2>1
<1>5. a - (a % M) = q * M
    BY <1>1, <1>2, <1>3
<1>6. q \in 0..(N - 1)
    BY <1>1, <1>3, <1>4
<1>7. Network(bits, text) = [address |-> q * M, len |-> n]
    BY <1>5 DEF Network, a, M
<1>8. QED BY <1>6, <1>7, NetworkIn DEF M, N

\* Without its host bits an address is the network it is in.
LEMMA WithoutHostBits ==
    ASSUME NEW M \in Nat \ {0}, NEW i \in Nat, NEW rest \in 0..(M - 1),
           NEW address, address = M * i + rest
    PROVE  address - (address % M) = i * M
<1>1. (M * i + rest) % M = rest
    BY Quotient
<1>2. (M * i + rest) - rest = i * M
    OBVIOUS
<1>3. QED BY <1>1, <1>2

-------------------------------------------------------------------------------
(***************************************************************************)
(* MAP rules and shares.                                                   *)
(***************************************************************************)
\* A rule that fits: its embedded bits are the IPv4 suffix and the PSID and no more,
\* the prefix of the IPv4 side and the suffix fit an address, the offset and the PSID
\* fit a port, and the IPv6 prefix and the embedded bits an address.
Fits(rule) ==
    /\ rule.ipv6 \in Networks(Ipv6Bits) /\ rule.ipv4 \in Networks(Ipv4Bits)
    /\ rule.ipv6.len \in Nat /\ rule.ipv4.len \in Nat
    /\ rule.ea_length \in Nat /\ rule.psid_offset \in Nat
    /\ Ipv4SuffixLength(rule) \in Nat /\ PsidLength(rule) \in Nat
    /\ Ipv4SuffixLength(rule) + PsidLength(rule) = rule.ea_length
    /\ rule.ipv4.len + Ipv4SuffixLength(rule) <= Ipv4Bits
    /\ PsidLength(rule) > 0 => rule.ipv4.len + Ipv4SuffixLength(rule) = Ipv4Bits
    /\ rule.psid_offset + PsidLength(rule) <= PortBits
    /\ rule.ipv6.len + rule.ea_length <= Ipv6Bits

\* A rule that MappingRule::parse accepts fits its addresses and ports.
THEOREM AcceptedRuleFits ==
    ASSUME NEW text \in RuleText, IsRule(text)
    PROVE  Fits(MappingRule(text))
<1> DEFINE rule == MappingRule(text)
<1>1. /\ rule.ea_length = text.ea_length /\ rule.psid_offset = text.psid_offset
      /\ rule.ipv4.len = text.ipv4.len /\ rule.ipv6.len = text.ipv6.len
      /\ rule.ipv4 = Network(Ipv4Bits, text.ipv4) /\ rule.ipv6 = Network(Ipv6Bits, text.ipv6)
    BY DEF MappingRule, Ipv4Prefix, Ipv6Prefix, Network
<1> HIDE DEF rule
<1>2. Ipv4Bits \in Nat /\ PortBits \in Nat /\ Ipv6Bits \in Nat
    BY OffersAssumption
<1>3. /\ text.ea_length \in Nat /\ text.psid_offset \in Nat
      /\ text.ipv4.len \in Nat /\ text.ipv6.len \in Nat
      /\ text.ipv4.address \in 0..(2^Ipv4Bits - 1) /\ text.ipv6.address \in 0..(2^Ipv6Bits - 1)
    BY DEF RuleText, PrefixText
<1>4. text.ipv4.len <= Ipv4Bits /\ text.ipv6.len <= Ipv6Bits
    BY DEF IsRule, IsIpv4Cidr, IsIpv6Cidr
<1>5. Ipv4SuffixLength(rule) =
          IF text.ea_length < Ipv4Bits - text.ipv4.len
            THEN text.ea_length ELSE Ipv4Bits - text.ipv4.len
    BY <1>1 DEF Ipv4SuffixLength
<1>6. PsidLength(rule) = SaturatingSub(text.ea_length, Ipv4Bits - text.ipv4.len)
    BY <1>1, <1>2, <1>3, <1>4, <1>5 DEF PsidLength, SaturatingSub
<1>7. /\ text.psid_offset + PsidLength(rule) <= PortBits
      /\ text.ipv6.len + text.ea_length <= Ipv6Bits
    BY <1>6 DEF IsRule
<1>8. /\ Ipv4SuffixLength(rule) \in Nat /\ PsidLength(rule) \in Nat
      /\ Ipv4SuffixLength(rule) + PsidLength(rule) = text.ea_length
      /\ text.ipv4.len + Ipv4SuffixLength(rule) <= Ipv4Bits
      /\ PsidLength(rule) > 0 => text.ipv4.len + Ipv4SuffixLength(rule) = Ipv4Bits
    BY <1>2, <1>3, <1>4, <1>5, <1>6 DEF SaturatingSub
<1>9. rule.ipv6 \in Networks(Ipv6Bits) /\ rule.ipv4 \in Networks(Ipv4Bits)
  <2>1. text.ipv4.len \in 0..Ipv4Bits /\ text.ipv6.len \in 0..Ipv6Bits
      BY <1>2, <1>3, <1>4
  <2>2. QED BY <1>1, <1>2, <1>3, <2>1, NetworkIsNetwork
<1>10. QED BY <1>1, <1>3, <1>7, <1>8, <1>9 DEF rule, Fits

\* The prefix of an address under a rule, the embedded bits, and what follows.
LEMMA Embedded ==
    ASSUME NEW rule, Fits(rule), NEW D, NEW E, NEW M,
           D = 2^(Ipv6Bits - rule.ipv6.len - rule.ea_length), E = 2^rule.ea_length,
           M = 2^(Ipv6Bits - rule.ipv6.len),
           NEW i \in Nat, NEW ea \in 0..(E - 1), NEW rest \in 0..(D - 1),
           NEW address, address = D * (E * i + ea) + rest
    PROVE  /\ EmbeddedBits(rule, address) = ea
           /\ address = M * i + (D * ea + rest) /\ D * ea + rest \in 0..(M - 1)
<1>1. D \in Nat \ {0} /\ E \in Nat \ {0} /\ M = D * E
  <2> DEFINE n == rule.ipv6.len
             e == rule.ea_length
  <2>1. /\ n \in Nat /\ e \in Nat
        /\ Ipv6Bits - n \in Nat /\ Ipv6Bits - n - e \in Nat /\ e <= Ipv6Bits - n
      BY OffersAssumption DEF Fits
  <2>2. D \in Nat \ {0} /\ E \in Nat \ {0}
      BY <2>1, PowerType
  <2>3. 2^(Ipv6Bits - n) = 2^((Ipv6Bits - n) - e) * 2^e
      BY <2>1, PowerOver
  <2>4. QED BY <2>2, <2>3
<1>2. EmbeddedBits(rule, address) = (address \div D) % E
    BY DEF EmbeddedBits
<1>3. ea \in Nat /\ rest \in Nat /\ E * i + ea \in Nat
    BY <1>1
<1>4. (D * (E * i + ea) + rest) \div D = E * i + ea
    BY <1>1, <1>3, Quotient
<1>5. (E * i + ea) % E = ea
    BY <1>1, Quotient
<1>6. D * (E * i + ea) + rest = (D * E) * i + (D * ea + rest)
    BY <1>1, <1>3
<1>7. D * ea + rest \in 0..(D * E - 1)
  <2>1. ea + 1 \in Int /\ E \in Int /\ ea + 1 <= E /\ D \in Nat
      BY <1>1, <1>3
  <2>2. D * (ea + 1) <= D * E
      BY <2>1, Multiples
  <2>3. QED BY <1>1, <1>3, <2>2
<1>8. QED BY <1>1, <1>2, <1>4, <1>5, <1>6, <1>7

\* A delegated prefix is long enough to have all embedded bits in it: its first and
\* its last address have the same.
LEMMA OneValue ==
    ASSUME NEW rule, Fits(rule), NEW p \in Networks(Ipv6Bits),
           p.len >= rule.ipv6.len + rule.ea_length
    PROVE  /\ EmbeddedBits(rule, p.address) \in 0..(2^rule.ea_length - 1)
           /\ EmbeddedBits(rule, LastOf(p)) = EmbeddedBits(rule, p.address)
<1> DEFINE n == rule.ipv6.len
           e == rule.ea_length
           l == p.len
           D == 2^(Ipv6Bits - n - e)
           E == 2^e
           M == 2^(Ipv6Bits - l)
           K == 2^(l - n - e)
<1>1. n \in Nat /\ e \in Nat /\ n + e <= Ipv6Bits /\ Ipv6Bits \in Nat
    BY OffersAssumption DEF Fits
<1>2. PICK k \in Nat : p.address = k * M /\ l \in 0..Ipv6Bits
  <2>1. PICK b \in 0..Ipv6Bits : \E k \in 0..(2^b - 1) :
                p = [address |-> k * 2^(Ipv6Bits - b), len |-> b]
      BY <1>1, NetworkAddress
  <2>2. PICK k \in 0..(2^b - 1) : p = [address |-> k * 2^(Ipv6Bits - b), len |-> b]
      BY <2>1
  <2>3. 2^b \in Nat
      BY PowerType
  <2>4. k \in Nat
      BY <2>3
  <2>5. QED BY <2>2, <2>4
<1>3. l - n - e \in Nat /\ Ipv6Bits - l \in Nat /\ l - n - e <= Ipv6Bits - n - e
      /\ Ipv6Bits - n - e \in Nat /\ (Ipv6Bits - n - e) - (l - n - e) = Ipv6Bits - l
    BY <1>1, <1>2
<1>4. D \in Nat \ {0} /\ E \in Nat \ {0} /\ M \in Nat \ {0} /\ K \in Nat \ {0}
    BY <1>1, <1>3, PowerType
<1>5. D = M * K
  <2>1. D = 2^((Ipv6Bits - n - e) - (l - n - e)) * K
      BY <1>3, PowerOver
  <2>2. QED BY <1>3, <2>1
<1>6. LastOf(p) = p.address + M - 1
    BY DEF LastOf
<1> HIDE DEF D, E, M, K, l
<1> DEFINE q == k \div K
           s == k % K
           i == q \div E
           ea == q % E
<1>7. q \in Nat /\ s \in 0..(K - 1) /\ k = K * q + s
    BY <1>2, <1>4, Division
<1> HIDE DEF q, s
<1>8. i \in Nat /\ ea \in 0..(E - 1) /\ q = E * i + ea
    BY <1>4, <1>7, Division
<1> HIDE DEF i, ea
<1>9. M * s \in 0..(D - 1) /\ M * s + (M - 1) \in 0..(D - 1)
  <2>1. M * (s + 1) <= M * K
      BY <1>4, <1>7, Multiples
  <2>2. QED BY <1>4, <1>5, <1>7, <2>1
<1>10. p.address = D * (E * i + ea) + M * s
  <2>1. p.address = (K * q + s) * M
      BY <1>2, <1>7
  <2>2. (K * q + s) * M = (M * K) * q + M * s
      BY <1>4, <1>7
  <2>3. QED BY <1>5, <1>8, <2>1, <2>2
<1>11. LastOf(p) = D * (E * i + ea) + (M * s + (M - 1))
  <2>1. D * (E * i + ea) \in Int /\ M * s \in Int
      BY <1>4, <1>7, <1>8
  <2>2. QED BY <1>4, <1>6, <1>10, <2>1
<1>12. ASSUME NEW address, NEW rest \in 0..(D - 1), address = D * (E * i + ea) + rest
       PROVE  EmbeddedBits(rule, address) = ea
    BY <1>8, <1>12, Embedded DEF D, E
<1>13. EmbeddedBits(rule, p.address) = ea /\ EmbeddedBits(rule, LastOf(p)) = ea
    BY <1>9, <1>10, <1>11, <1>12
<1>14. QED BY <1>8, <1>13 DEF E

\* Every value of the embedded bits belongs to a prefix that a customer may have.
LEMMA EveryValue ==
    ASSUME NEW rule, Fits(rule), NEW ea \in 0..(2^rule.ea_length - 1)
    PROVE  \E p \in Networks(Ipv6Bits) :
              ValidDelegatedPrefix(rule, p) /\ EmbeddedBits(rule, p.address) = ea
<1> DEFINE n == rule.ipv6.len
           e == rule.ea_length
           D == 2^(Ipv6Bits - n - e)
           E == 2^e
           N == 2^n
           M == 2^(Ipv6Bits - n)
<1>1. n \in Nat /\ e \in Nat /\ n + e <= Ipv6Bits /\ Ipv6Bits \in Nat
    BY OffersAssumption DEF Fits
<1>2. PICK i \in 0..(N - 1) : rule.ipv6 = [address |-> i * 2^(Ipv6Bits - n), len |-> n]
  <2>1. PICK b \in 0..Ipv6Bits : \E i \in 0..(2^b - 1) :
                rule.ipv6 = [address |-> i * 2^(Ipv6Bits - b), len |-> b]
      BY <1>1, NetworkAddress DEF Fits
  <2>2. b = n
      BY <2>1
  <2>3. QED BY <2>1, <2>2
<1>3. /\ D \in Nat \ {0} /\ E \in Nat \ {0} /\ N \in Nat \ {0}
      /\ 2^(n + e) = N * E
  <2>1. Ipv6Bits - n - e \in Nat
      BY <1>1
  <2>2. D \in Nat \ {0} /\ E \in Nat \ {0} /\ N \in Nat \ {0}
      BY <1>1, <2>1, PowerType
  <2>3. 2^(n + e) = N * E
      BY <1>1, PowerSum
  <2>4. QED BY <2>2, <2>3
<1> DEFINE p == [address |-> (E * i + ea) * 2^(Ipv6Bits - (n + e)), len |-> n + e]
<1>4. Ipv6Bits - (n + e) = Ipv6Bits - n - e
    BY <1>1
<1>5. i \in Nat /\ ea \in Nat
    BY <1>2, <1>3
<1>6. p.address = D * (E * i + ea) + 0 /\ p.len = n + e
  <2>1. (E * i + ea) * D = D * (E * i + ea) + 0
      BY <1>3, <1>5
  <2>2. QED BY <1>4, <2>1
<1>7. p \in Networks(Ipv6Bits)
  <2>1. n + e \in 0..Ipv6Bits
      BY <1>1
  <2>2. E * i + ea \in 0..(2^(n + e) - 1)
    <3> HIDE DEF E, N, D, n, e
    <3>1. ea <= E - 1 /\ i + 1 <= N
        BY <1>2, <1>3, <1>5 DEF E, e
    <3>2. E * (i + 1) <= E * N
        BY <1>3, <1>5, <3>1, Multiples
    <3>3. E * i + ea \in 0..(N * E - 1)
        BY <1>3, <1>5, <3>1, <3>2
    <3>4. QED BY <1>3, <3>3
  <2>3. QED BY <1>1, <2>1, <2>2, NetworkIn
<1>8. 0 \in 0..(D - 1)
    BY <1>3
<1>9. /\ EmbeddedBits(rule, p.address) = ea
      /\ p.address = M * i + (D * ea + 0) /\ D * ea + 0 \in 0..(M - 1)
    BY <1>5, <1>6, <1>8, Embedded
<1>10. Ipv6Prefix([p EXCEPT !.len = n]) = rule.ipv6
  <2> DEFINE t == [p EXCEPT !.len = n]
  <2>0. PICK rest \in 0..(M - 1) : p.address = M * i + rest
      BY <1>9
  <2>1. t.address = M * i + rest /\ t.len = n
      BY <2>0
  <2> HIDE DEF t, D, n, p, M, E, N
  <2>2. Network(Ipv6Bits, t) = [address |-> i * M, len |-> n]
    <3>1. M \in Nat \ {0}
        BY <1>1, PowerType DEF M
    <3>2. t.address - (t.address % M) = i * M
        BY <1>5, <2>0, <2>1, <3>1, WithoutHostBits
    <3>3. Network(Ipv6Bits, t) =
             [address |-> t.address - (t.address % 2^(Ipv6Bits - t.len)), len |-> t.len]
        BY DEF Network
    <3>4. 2^(Ipv6Bits - t.len) = M
        BY <2>1 DEF M
    <3>5. QED BY <2>1, <3>2, <3>3, <3>4
  <2>3. QED BY <1>2, <2>2 DEF Ipv6Prefix, t, n, M
<1>11. ValidDelegatedPrefix(rule, p)
    BY <1>1, <1>6, <1>10 DEF ValidDelegatedPrefix
<1>12. EmbeddedBits(rule, p.address) = ea
    BY <1>9
<1>13. QED BY <1>7, <1>11, <1>12
\* The share of a value of the embedded bits.
Share(rule, ea) ==
    [ipv4 |-> rule.ipv4.address + (ea \div 2^PsidLength(rule))
                 * 2^(Ipv4Bits - rule.ipv4.len - Ipv4SuffixLength(rule)),
     psid |-> ea % 2^PsidLength(rule)]

LEMMA ShareOfEmbedded ==
    \A rule, address : ShareOf(rule, address) = Share(rule, EmbeddedBits(rule, address))
BY DEF ShareOf, Share

\* The numbers in a share: the suffix and the PSID of the embedded bits, the suffixes
\* of the IPv4 prefix, and what follows the suffix.
LEMMA PartsOfShare ==
    ASSUME NEW rule, Fits(rule), NEW P, NEW S, NEW U,
           P = 2^PsidLength(rule), S = 2^Ipv4SuffixLength(rule),
           U = 2^(Ipv4Bits - rule.ipv4.len - Ipv4SuffixLength(rule))
    PROVE  /\ P \in Nat \ {0} /\ S \in Nat \ {0} /\ U \in Nat \ {0}
           /\ 2^rule.ea_length = P * S /\ 2^(Ipv4Bits - rule.ipv4.len) = U * S
<1> DEFINE m == rule.ipv4.len
           sl == Ipv4SuffixLength(rule)
           pl == PsidLength(rule)
<1>1. /\ m \in Nat /\ sl \in Nat /\ pl \in Nat /\ rule.ea_length = pl + sl
      /\ Ipv4Bits - m - sl \in Nat /\ Ipv4Bits - m \in Nat /\ sl <= Ipv4Bits - m
    BY OffersAssumption DEF Fits
<1> HIDE DEF m, sl, pl
<1>2. P \in Nat \ {0} /\ S \in Nat \ {0} /\ U \in Nat \ {0}
    BY <1>1, PowerType DEF m, sl, pl
<1>3. 2^(pl + sl) = P * S
    BY <1>1, PowerSum DEF sl, pl
<1>4. 2^(Ipv4Bits - m) = 2^((Ipv4Bits - m) - sl) * S
    BY <1>1, PowerOver DEF sl
<1>5. QED BY <1>1, <1>2, <1>3, <1>4 DEF m, sl

\* Every value has a share of the rule's IPv4 prefix.
LEMMA ShareInRule ==
    ASSUME NEW rule, Fits(rule), NEW ea \in 0..(2^rule.ea_length - 1)
    PROVE  /\ Ipv4Prefix([address |-> Share(rule, ea).ipv4, len |-> rule.ipv4.len]) = rule.ipv4
           /\ Share(rule, ea).psid < 2^PsidLength(rule)
<1> DEFINE m == rule.ipv4.len
           P == 2^PsidLength(rule)
           S == 2^Ipv4SuffixLength(rule)
           U == 2^(Ipv4Bits - m - Ipv4SuffixLength(rule))
           M == 2^(Ipv4Bits - m)
           q == ea \div P
<1>1. /\ P \in Nat \ {0} /\ S \in Nat \ {0} /\ U \in Nat \ {0}
      /\ ea \in 0..(P * S - 1) /\ M = U * S
    BY PartsOfShare
<1>2. PICK j \in Nat : rule.ipv4 = [address |-> j * M, len |-> m]
  <2>1. PICK b \in 0..Ipv4Bits : \E j \in 0..(2^b - 1) :
                rule.ipv4 = [address |-> j * 2^(Ipv4Bits - b), len |-> b]
      BY OffersAssumption, NetworkAddress DEF Fits
  <2>2. PICK j \in 0..(2^b - 1) : rule.ipv4 = [address |-> j * 2^(Ipv4Bits - b), len |-> b]
      BY <2>1
  <2>3. 2^b \in Nat
      BY PowerType
  <2>4. j \in Nat
      BY <2>3
  <2>5. QED BY <2>2, <2>4
<1>3. Share(rule, ea).ipv4 = rule.ipv4.address + q * U /\ Share(rule, ea).psid = ea % P
    BY DEF Share
<1>4. Ipv4Prefix([address |-> Share(rule, ea).ipv4, len |-> rule.ipv4.len]) =
         [address |-> Share(rule, ea).ipv4 - (Share(rule, ea).ipv4 % M), len |-> m]
    BY DEF Ipv4Prefix, Network
<1>5. rule.ipv4.address = j * M
    BY <1>2
<1> HIDE DEF P, S, U, M, m
<1>6. q \in Nat /\ ea % P \in 0..(P - 1) /\ ea = P * q + (ea % P)
    BY <1>1, Division
<1> HIDE DEF q
<1>7. q + 1 <= S
  <2> SUFFICES ASSUME S <= q PROVE FALSE
      BY <1>1, <1>6
  <2>1. P * S <= P * q
      BY <1>1, <1>6, Multiples
  <2>2. QED BY <1>1, <1>6, <2>1
<1>8. q * U \in 0..(M - 1)
  <2>1. U * (q + 1) <= U * S
      BY <1>1, <1>6, <1>7, Multiples
  <2>2. QED BY <1>1, <1>6, <2>1
<1>9. Share(rule, ea).ipv4 = M * j + q * U /\ M \in Nat \ {0}
  <2>1. M \in Nat \ {0}
      BY <1>1
  <2>2. QED BY <1>2, <1>3, <1>5, <2>1
<1>10. Share(rule, ea).ipv4 - (Share(rule, ea).ipv4 % M) = j * M
    BY <1>2, <1>8, <1>9, WithoutHostBits
<1>11. Share(rule, ea).psid < P
    BY <1>1, <1>3, <1>6
<1>12. QED BY <1>2, <1>4, <1>10, <1>11 DEF P

\* Different values have different shares.
LEMMA ShareIsOwn ==
    ASSUME NEW rule, Fits(rule), NEW x \in 0..(2^rule.ea_length - 1),
           NEW y \in 0..(2^rule.ea_length - 1), Share(rule, x) = Share(rule, y)
    PROVE  x = y
<1> DEFINE P == 2^PsidLength(rule)
           S == 2^Ipv4SuffixLength(rule)
           U == 2^(Ipv4Bits - rule.ipv4.len - Ipv4SuffixLength(rule))
           A == rule.ipv4.address
<1>1. /\ P \in Nat \ {0} /\ S \in Nat \ {0} /\ U \in Nat \ {0} /\ P * S \in Nat
      /\ x \in 0..(P * S - 1) /\ y \in 0..(P * S - 1)
    BY PartsOfShare
<1>2. A \in Int
  <2>1. PICK b \in 0..Ipv4Bits : \E j \in 0..(2^b - 1) :
                rule.ipv4 = [address |-> j * 2^(Ipv4Bits - b), len |-> b]
      BY OffersAssumption, NetworkAddress DEF Fits
  <2>2. PICK j \in 0..(2^b - 1) : rule.ipv4 = [address |-> j * 2^(Ipv4Bits - b), len |-> b]
      BY <2>1
  <2>3. 2^b \in Nat /\ 2^(Ipv4Bits - b) \in Nat
      BY OffersAssumption, PowerType
  <2>4. QED BY <2>2, <2>3
<1>3. A + (x \div P) * U = A + (y \div P) * U /\ x % P = y % P
  <2>1. Share(rule, x).ipv4 = A + (x \div P) * U /\ Share(rule, x).psid = x % P
      BY DEF Share
  <2>2. Share(rule, y).ipv4 = A + (y \div P) * U /\ Share(rule, y).psid = y % P
      BY DEF Share
  <2>3. QED BY <2>1, <2>2
<1> HIDE DEF P, S, U, A
<1>4. /\ x \div P \in Nat /\ y \div P \in Nat
      /\ x = P * (x \div P) + (x % P) /\ y = P * (y \div P) + (y % P)
  <2>1. ASSUME NEW z \in 0..(P * S - 1)
        PROVE  z \div P \in Nat /\ z = P * (z \div P) + (z % P)
    <3>1. z \in Nat /\ P \in Nat \ {0}
        BY <1>1
    <3>2. QED BY <3>1, Division
  <2>2. QED BY <1>1, <2>1
<1> DEFINE p == x \div P
           q == y \div P
<1>5. p \in Nat /\ q \in Nat /\ A + p * U = A + q * U
    BY <1>3, <1>4
<1> HIDE DEF p, q
<1>6. U * p + 0 = U * q + 0 /\ 0 \in 0..(U - 1)
    BY <1>1, <1>2, <1>5
<1>7. p = q
    BY <1>1, <1>5, <1>6, DivisionIsUnique
<1>8. QED BY <1>3, <1>4, <1>7 DEF p, q
\* Shares are separate: under a rule that fits, every delegated prefix has one share
\* throughout, there are as many shares as values of the embedded bits, and each is
\* one of the rule's own IPv4 prefix with a PSID of the rule's length.
THEOREM SharesOfRule ==
    ASSUME NEW rule, Fits(rule)
    PROVE  LET valid  == {p \in Networks(Ipv6Bits) : ValidDelegatedPrefix(rule, p)}
               shares == {ShareOf(rule, p.address) : p \in valid}
           IN  /\ \A p \in valid : ShareOf(rule, p.address) = ShareOf(rule, LastOf(p))
               /\ Cardinality(shares) = 2^rule.ea_length
               /\ \A share \in shares :
                     /\ Ipv4Prefix([address |-> share.ipv4, len |-> rule.ipv4.len]) = rule.ipv4
                     /\ share.psid < 2^PsidLength(rule)
<1> DEFINE valid  == {p \in Networks(Ipv6Bits) : ValidDelegatedPrefix(rule, p)}
           shares == {ShareOf(rule, p.address) : p \in valid}
           E      == 2^rule.ea_length
           values == 0..(E - 1)
           f      == [ea \in values |-> Share(rule, ea)]
<1>1. ASSUME NEW p \in valid
      PROVE  /\ EmbeddedBits(rule, p.address) \in values
             /\ ShareOf(rule, p.address) = ShareOf(rule, LastOf(p))
             /\ ShareOf(rule, p.address) = Share(rule, EmbeddedBits(rule, p.address))
    BY OneValue, ShareOfEmbedded DEF ValidDelegatedPrefix
<1>2. E \in Nat /\ E >= 1
    BY PowerType DEF Fits
<1>3. IsFiniteSet(values) /\ Cardinality(values) = E
  <2> HIDE DEF E
  <2>1. 0 \in Int /\ E - 1 \in Int /\ (E - 1) - 0 + 1 = E /\ ~(0 > E - 1)
      BY <1>2
  <2>2. QED BY <2>1, FS_Interval
<1>4. shares = {Share(rule, ea) : ea \in values}
  <2>1. ASSUME NEW share \in shares PROVE share \in {Share(rule, ea) : ea \in values}
      BY <1>1
  <2>2. ASSUME NEW ea \in values PROVE Share(rule, ea) \in shares
    <3>1. PICK p \in Networks(Ipv6Bits) :
                  ValidDelegatedPrefix(rule, p) /\ EmbeddedBits(rule, p.address) = ea
        BY EveryValue
    <3>2. p \in valid
        BY <3>1
    <3>3. ShareOf(rule, p.address) = Share(rule, ea)
        BY <3>1, ShareOfEmbedded
    <3> HIDE DEF valid
    <3>4. QED BY <3>2, <3>3
  <2> HIDE DEF shares, values
  <2>3. QED BY <2>1, <2>2
<1>5. \A share \in shares :
          /\ Ipv4Prefix([address |-> share.ipv4, len |-> rule.ipv4.len]) = rule.ipv4
          /\ share.psid < 2^PsidLength(rule)
  <2> HIDE DEF shares
  <2>1. QED BY <1>4, ShareInRule
<1>6. Cardinality(shares) = E
  <2>1. f \in [values -> shares]
      BY <1>4
  <2>2. ASSUME NEW x \in values, NEW y \in values, f[x] = f[y] PROVE x = y
    <3>1. Share(rule, x) = Share(rule, y)
        BY <2>2
    <3>2. QED BY <3>1, ShareIsOwn
  <2>3. ASSUME NEW share \in shares PROVE \E ea \in values : f[ea] = share
      BY <1>4
  <2> HIDE DEF values, shares, f
  <2>4. f \in Bijection(values, shares)
      BY <2>1, <2>2, <2>3, Fun_IsBij
  <2>5. QED BY <1>3, <2>4, FS_Bijection DEF ExistsBijection
<1>7. \A p \in valid : ShareOf(rule, p.address) = ShareOf(rule, LastOf(p))
    BY <1>1
<1>8. QED BY <1>5, <1>6, <1>7
================================================================================
