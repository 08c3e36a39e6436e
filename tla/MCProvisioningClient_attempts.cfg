SPECIFICATION FairSpec
CONSTANTS
    Names = {n1, n2}
    MaxRedirects = 2
    Ipv4Bits = 3
    Ipv6Bits = 5
    PortBits = 3
    Nat64Lengths = {2, 4}
    DmrBits = 4
    MapERules = 3
    MapTRules = 2
    Bodies <- MCBodies
INVARIANTS
    TypeOK
    KeepsPolicy
    KeepsCredentials
    BoundedRequests
    OutlivesTrouble
    PortSetsAreDisjoint
    SharesAreSeparate
    SelectsPreferred
PROPERTIES
    AttemptsEnd
