SPECIFICATION FairServer
CONSTANTS
    c1 = c1
    c2 = c2
    c3 = c3
    Clients <- ThreeClients
    MaxConnections <- TwoConnections
    MaxBegins <- TransactionsOfAHandler
CHECK_DEADLOCK FALSE
INVARIANTS ServerTypeOK AnnouncedSurvivesSignals PoolOutlivesRequests
PROPERTIES RequestsEnd SignalEndsProcess
