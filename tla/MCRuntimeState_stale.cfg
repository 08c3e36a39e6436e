SPECIFICATION Spec
CONSTANTS
    Daemon = {d1, d2, d3}
    Command = {c1}
    Aftr = {a1}
    Nothing = Nothing
SYMMETRY Symmetry
CHECK_DEADLOCK FALSE
PROPERTIES AddressesLockHolder
