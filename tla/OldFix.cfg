CONSTANTS
    a1 = a1
    a2 = a2
    v1 = v1
    v2 = v2
    x1 = x1
    None = None
    Apps = {a1, a2}
    Containers = {v1, v2, x1}
    Starts <- MCStarts
    MaxEvents = 1
    MaxFaults = 1
SPECIFICATION Spec
INVARIANTS
    TypeOK
    OneToOne
    WrittenIsTrue
    Healed
    ExposedIsNoBot
PROPERTIES
    NoOpWhenSettled
    ForeignUntouched
