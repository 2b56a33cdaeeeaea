CONSTANTS
    a = a
    c1 = c1
    c2 = c2
    c3 = c3
    c4 = c4
    title1 = title1
    title2 = title2
    None = None
    Devices = {a}
    Calls = {c1, c2, c3, c4}
    Titles = {title1, title2}
    Statuses = {"pending", "completed"}
    Priorities = {1, 2, 3}
    Clocks <- NoClocks
    Bodies <- SmallBodies
    FaultSets = {{"overlap", "lost"}, {"others", "lost"}}
SPECIFICATION Spec
INVARIANTS
    TypeOK
    ToldListIsTable
SYMMETRY CallSymmetry
CHECK_DEADLOCK FALSE
