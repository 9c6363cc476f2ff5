SPECIFICATION InvitesSpec
CONSTANTS
    Tx = {t1, t2, t3}
    Actors = {1, 2, 3, 4}
    Orgs = {1}
    Teams = {}
    Channels = {}
    Names = {1}
    MessageIds = {}
    InviteIds = {1, 2, 3}
    Emails = {1, 2, 3, 4}
    Malformed = {}
    Unreliable = {}
    Requests <- DemotionCalls
    InviteCalls <- AllInviteCalls
    Initial <- Inviters
    InitialInvites <- SomeInvites
    InitialEmails <- OwnEmails
SYMMETRY TxSymmetry
CHECK_DEADLOCK FALSE
INVARIANTS InvitesTypeOK InvitesAccounted NobodyIsHalfCreated NoDeadlock TrailTellsTheTables
PROPERTIES ImplementsGovernance JoinsAreAdmitted CapabilityHeldAtCommit AnswersTellNoMore
