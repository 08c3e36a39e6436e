SPECIFICATION LossyFairSpec
CONSTANTS
    Local = {l1}
    Remote = {r1, r2}
    Mtu = {m1}
    Limit = {}
    Absent = Absent
    Unavailable = Unavailable
    Unset = Unset
    Disabled = Disabled
    NoAddr = NoAddr
    ConfigLocal = Unset
    ConfigMtu = m1
    ConfigLimit = Disabled
    Budget <- LivenessBudget
CHECK_DEADLOCK FALSE
PROPERTIES Converges StopsWhenTold TimerHonoured
