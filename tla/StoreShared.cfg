CONSTANTS
    Refs = {d1, d2}
    Files = {f1}
    Manifest = manifest
    Processes = {p1, p2, p3}
    Null = Null
    Retention = 1
    MaxFaults = 1
SYMMETRY StoreSymmetry
SPECIFICATION Spec
INVARIANTS
    TypeOK
    StoreUndisturbed
    OrphansOnlyByFaults
PROPERTY SweepIsThorough
