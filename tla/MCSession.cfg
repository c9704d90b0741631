SPECIFICATION Spec
CONSTANTS
    Addresses = {c1, c2}
    MaxRequests = 4
INVARIANTS
    OpenTransactionsOwned
    EndedOnce
    RunsInOwnOpenTransaction
    CopySessionReady
PROPERTIES
    RequestsAnswered
CHECK_DEADLOCK FALSE
