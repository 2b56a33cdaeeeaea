CONSTANTS
    a = a
    b = b
    c = c
    Devices <- MCDevices
    MaxEvents = 2
SPECIFICATION Spec
SYMMETRY Symmetry
INVARIANTS
    ClockIsHistory
    CompareIsCausality
