SPECIFICATION MessagesSpec
CONSTANTS
    Tx = {t1, t2, t3}
    Actors = {1, 2}
    Orgs = {1}
    Teams = {}
    Channels = {1, 2}
    Names = {1, 2}
    MessageIds = {1, 2, 3, 4}
    InviteIds = {}
    Emails = {}
    Malformed = {}
    Unreliable = {t1, t2, t3}
    MaxPage = 2
    Requests <- SenderCalls
    Posts <- MessageCalls
    Initial <- Conversation
    InitialMessages <- Begun
SYMMETRY TxSymmetry
CHECK_DEADLOCK FALSE
INVARIANTS MessagesTypeOK NumbersHaveNoGap
PROPERTIES ImplementsChannelLog PostsAreAnsweredTruly PagesGoOn
