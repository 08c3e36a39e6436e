SPECIFICATION FairSpec
CONSTANTS
    Local = {l1}
    Remote = {r1}
    Mtu = {m1}
    Limit = {}
    Absent = Absent
    Unavailable = Unavailable
    Unset = Unset
    Disabled = Disabled
    NoAddr = NoAddr
    ConfigLocal = l1
    ConfigMtu = m1
    ConfigLimit = Disabled
    Budget <- PlumbingBudget
PROPERTIES KeepsPlumbed
