SPECIFICATION FairService
CONSTANTS
    Tx = {t1, t2, t3}
    Actors = {1, 2, 3}
    Orgs = {1, 2}
    Teams = {}
    Channels = {1}
    Names = {1, 2}
    MessageIds = {1}
    InviteIds = {}
    Emails = {1, 2, 3}
    Tokens = {1}
    StoredHash <- CrowdHashes
    MaxPage = 1
    Malformed = {}
    Unreliable = {t1}
    Requests <- CrowdLeaves
    Posts <- CrowdPosts
    InviteCalls <- NoCalls
    WebRequests <- CrowdRequests
    Initial <- Crowd
    InitialMessages <- NoMessages
    InitialInvites <- NoInvites
    InitialEmails <- CrowdEmails
    InitialSessions <- NoSessions
CHECK_DEADLOCK FALSE
PROPERTIES EveryCallReturns
