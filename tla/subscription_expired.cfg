\* A second Subscribe after the link has expired.
SPECIFICATION ApiSpec
CONSTANTS
    q1 = q1
    q2 = q2
    e1 = e1
    Request = {q1}
    Word <- MCWord
    Email = {e1}
    Text <- PlainText
    Repo <- MCRepo
    MaxId = 1
    MaxConns = 1
    Scan = Scan
    Nobody = Nobody
INVARIANT ExpiredMaySubscribeAgain
