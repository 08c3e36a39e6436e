SPECIFICATION Spec
CONSTANTS
    Local = {l1}
    Remote = {r1, r2}
    Mtu = {m1}
    Limit = {n1}
    Absent = Absent
    Unavailable = Unavailable
    Unset = Unset
    Disabled = Disabled
    Idle = Idle
INVARIANTS RollsBack
