\* One request at a time, two emails whose rows wait one behind the other, no expired tokens, fairness of the worker.
SPECIFICATION NoExpiry
CONSTANTS
    q1 = q1
    q2 = q2
    e1 = e1
    e2 = e2
    w1 = w1
    w2 = w2
    Request = {q1}
    Word <- MCWord
    Email = {e1, e2}
    Text <- MCText
    Repo <- MCRepo
    MaxId = 2
    MaxConns = 1
    Scan = Scan
    Nobody = Nobody
    Worker = {w1}
    Undeliverable = {}
    Malformed = {2}
    MaxCopies = 1
    NoRow = NoRow
PROPERTY ConfirmationsSettle
