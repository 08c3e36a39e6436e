SPECIFICATION Spec
CONSTANTS
    Local = {l1}
    Remote = {r1}
    Mtu = {m1, m2}
    Limit = {n1}
    Absent = Absent
    Unavailable = Unavailable
    Unset = Unset
    Disabled = Disabled
    Idle = Idle
    Backlog = 2
INVARIANTS TypeOK
PROPERTIES Implements RollsBack StaysReadable TearDownRepeats
