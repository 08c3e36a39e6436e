SPECIFICATION Spec
CONSTANTS
    Daemon = {d1, d2, d3}
    Command = {c1, c2}
    Aftr = {a1, a2}
    Nothing = Nothing
SYMMETRY Symmetry
CHECK_DEADLOCK FALSE
INVARIANTS TypeOK OverrideIsHeard RefreshIsHarmless SnapshotIsOwn
PROPERTIES RemovesOwnFile
