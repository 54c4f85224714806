\* Two replicas, two rows of two subscriptions, every fault, fairness.
SPECIFICATION FairSpec
CONSTANTS
    w1 = w1
    w2 = w2
    r1 = r1
    r2 = r2
    s1 = s1
    s2 = s2
    Worker = {w1, w2}
    Row = {r1, r2}
    Undeliverable = {}
    Malformed = {r2}
    MaxCopies = 2
    Sub = {s1, s2}
    SubOf <- MCSubOf
    Stamp <- OneStamp
    NoRow = NoRow
INVARIANTS TypeOK ClaimIsStable SentWasHandedOver DuplicateNeedsRollback
PROPERTIES SettledRowGetsOnlyLateMail Implements EveryRowSettles
