SPECIFICATION Spec
CONSTANTS
    a1 = a1
    a2 = a2
    a3 = a3
    k1 = k1
    k2 = k2
    k3 = k3
    l1 = l1
    l2 = l2
    l3 = l3
    Agents = {a1, a2, a3}
    Keys = {k1, k2, k3}
    Leases = {l1, l2, l3}
    None = None
    MaxRuns = 3
    MaxPanel = 2
INVARIANTS
    TypeOK
    KeyInUse
    LeaseInUse
    OneAgent
    EnrolledMeansReady
PROPERTIES
    AllocatesOnce
SYMMETRY Symmetry
