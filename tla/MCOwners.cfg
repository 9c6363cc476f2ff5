SPECIFICATION Spec
CONSTANTS
    Tx = {t1, t2, t3}
    Actors = {1, 2, 3}
    Orgs = {1, 2, 3}
    Teams = {1}
    Channels = {1}
    Names = {1, 2, 3}
    MessageIds = {}
    InviteIds = {}
    Emails = {}
    Malformed = {}
    Unreliable = {}
    Requests <- OwnerCalls
    Initial <- OwnerDatabases
SYMMETRY TxSymmetry
CHECK_DEADLOCK FALSE
INVARIANTS OwnerKeptUnlessBlind OnlyStrayLeaversDeadlock
PROPERTIES ImplementsGovernance CommittedByActiveMember
