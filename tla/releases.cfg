\* One replica, two repositories, one a tick, one subscriber of one of them.
SPECIFICATION CalmSpec
CONSTANTS
    p1 = p1
    ra = ra
    rb = rb
    s1 = s1
    Replica = {p1}
    Repo = {ra, rb}
    Sub = {s1}
    RepoOf <- MCRepoOf
    ScanLimit = 1
    MaxTag <- MCMaxTag
    Malformed <- MCMalformed
    MaxCopies = 1
INVARIANT ReleasesTypeOK
PROPERTIES ReleasesNoticed ReleasesReachSubscribers
