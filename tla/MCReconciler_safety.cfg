SPECIFICATION Spec
CONSTANTS
    Local = {l1, l2}
    Remote = {r1, r2}
    Mtu = {m1}
    Limit = {}
    Absent = Absent
    Unavailable = Unavailable
    Unset = Unset
    Disabled = Disabled
    NoAddr = NoAddr
    ConfigLocal = Unset
    ConfigMtu = m1
    ConfigLimit = Unset
    Budget <- SafetyBudget
SYMMETRY Symmetry
CONSTRAINT FewDisturbances
CHECK_DEADLOCK FALSE
INVARIANTS TypeOK NoLostDrift StaysWithListedAftr CleanExit FailsOnlyIfDisturbed
PROPERTIES NoNeedlessInterruption
