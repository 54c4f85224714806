\* Two requests and a scan compete for two connections; two subscriptions ever.
SPECIFICATION ApiFairSpec
CONSTANTS
    q1 = q1
    q2 = q2
    e1 = e1
    Request = {q1, q2}
    Word <- MCWord
    Email = {e1}
    Text <- EveryText
    Repo <- MCRepo
    MaxId = 2
    MaxConns = 2
    Scan = Scan
    Nobody = Nobody
INVARIANTS ApiTypeOK OutboxTogether OnePerKey AcceptedIsStored ConfirmedByItsLink ConfirmTellsTruth AsksForWhatItNames
PROPERTY RequestsEnd
