\* One recipient the provider refuses, one replica.
SPECIFICATION FairSpec
CONSTANTS
    w1 = w1
    w2 = w2
    r1 = r1
    r2 = r2
    s1 = s1
    s2 = s2
    Worker = {w1}
    Row = {r1, r2}
    Undeliverable = {r1}
    Malformed = {}
    MaxCopies = 2
    Sub = {s1, s2}
    SubOf <- MCSubOf
    Stamp <- OneStamp
    NoRow = NoRow
PROPERTY HealthyRowsSettle
