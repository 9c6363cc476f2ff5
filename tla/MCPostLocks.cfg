SPECIFICATION MessagesSpec
CONSTANTS
    Tx = {t1, t2}
    Actors = {1, 2}
    Orgs = {1}
    Teams = {}
    Channels = {1}
    Names = {1, 2}
    MessageIds = {1}
    InviteIds = {}
    Emails = {}
    Malformed = {}
    Unreliable = {}
    MaxPage = 1
    Requests <- SenderCalls
    Posts <- PostOnce
    InitialMessages <- Empty
    Initial <- Conversation
SYMMETRY TxSymmetry
CHECK_DEADLOCK FALSE
INVARIANTS ActorsAreLockedFirst
