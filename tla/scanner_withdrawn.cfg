\* Releases may disappear.
SPECIFICATION WithdrawSpec
CONSTANTS
    p1 = p1
    p2 = p2
    ra = ra
    rb = rb
    s1 = s1
    s2 = s2
    Replica = {p1}
    Repo = {ra}
    Sub = {s1}
    RepoOf <- MCRepoOf
    ScanLimit = 1
    MaxTag <- TwoEach
INVARIANT OnlyNewReleases
