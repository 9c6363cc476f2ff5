SPECIFICATION WebSpec
CONSTANTS
    Tx = {t1, t2, t3}
    Actors = {1, 2, 3}
    Orgs = {1}
    Teams = {}
    Channels = {}
    Names = {1}
    MessageIds = {}
    InviteIds = {1, 3}
    Emails = {1, 2, 3}
    Tokens = {1, 2, 3, 4}
    StoredHash <- Hashes
    Malformed = {}
    Unreliable = {}
    Requests <- DepartureOrDemotion
    InviteCalls <- NoCalls
    WebRequests <- RouteRequests
    Initial <- Inviters
    InitialInvites <- OneUseLeft
    InitialEmails <- OwnEmails
    InitialSessions <- OneSession
SYMMETRY TxSymmetry
CHECK_DEADLOCK FALSE
INVARIANTS WebTypeOK SessionsHavePeople VerificationsCostTheSame
PROPERTIES SignInsAreAnsweredTruly AnswersAsDocumented DepartedAreNotServed FirstFailureWins
