SPECIFICATION Spec
CONSTANTS
    p1 = p1
    n1 = n1
    starting = starting
    running = running
    red = red
    Foreign = Foreign
    TooBig = TooBig
    Absent = Absent
    Unobserved = Unobserved
    Starting <- starting
    Objects <- MCObjects
    Values <- MCValues
    NamespaceOf <- MCNamespaceOf
    MaxChanges = 2
    MaxFaults = 2
    MaxDirMoves = 1
INVARIANTS
    WarmHasNoHole
PROPERTIES
    IdentityWasTrue
    IndexConverges
