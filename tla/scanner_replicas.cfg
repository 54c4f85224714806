\* Two replicas, up to two repositories in a tick, every fault.
SPECIFICATION Spec
CONSTANTS
    p1 = p1
    p2 = p2
    ra = ra
    rb = rb
    s1 = s1
    s2 = s2
    Replica = {p1, p2}
    Repo = {ra, rb}
    Sub = {s1}
    RepoOf <- MCRepoOf
    ScanLimit = 2
    MaxTag <- OneEach
SYMMETRY Symmetry
INVARIANTS LockedAndLookedUp FaultsStayLocal
PROPERTY ChangeReachesEverybody
