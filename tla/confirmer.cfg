\* Two requests on one connection, one worker, an email that may subscribe twice, every fault.
SPECIFICATION Spec
CONSTANTS
    q1 = q1
    q2 = q2
    e1 = e1
    e2 = e2
    w1 = w1
    w2 = w2
    Request = {q1, q2}
    Word <- MCWord
    Email = {e1}
    Text <- MCText
    Repo <- MCRepo
    MaxId = 2
    MaxConns = 1
    Scan = Scan
    Nobody = Nobody
    Worker = {w1}
    Undeliverable = {}
    Malformed = {2}
    MaxCopies = 1
    NoRow = NoRow
SYMMETRY Symmetry
INVARIANTS TypeOK DoubleOptIn ClaimIsStable
PROPERTY Implements
