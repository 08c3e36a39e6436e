SPECIFICATION Spec
CONSTANTS
    Daemon = {d1, d2, d3}
    Command = {}
    Aftr = {a1}
    Nothing = Nothing
SYMMETRY Symmetry
CHECK_DEADLOCK FALSE
INVARIANTS OneDaemon
