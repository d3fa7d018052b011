\* A resource is created, deleted through the service and created again.
SPECIFICATION Spec
CONSTANTS
    Keys = {k1}
    Syncs = {}
    Builders = {b1, b2}
    Actors = {x1}
    NoKey = NoKey
    MaxOutside = 0
    MaxFaults = 0
SYMMETRY Symmetry
CHECK_DEADLOCK FALSE
INVARIANT BuiltIsVisible
