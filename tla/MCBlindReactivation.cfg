SPECIFICATION Spec
CONSTANTS
    Tx = {t1, t2, t3, t4}
    Actors = {1, 2, 3}
    Orgs = {1}
    Teams = {}
    Channels = {}
    Names = {1}
    MessageIds = {}
    InviteIds = {}
    Emails = {}
    Malformed = {}
    Unreliable = {}
    Requests <- ReactivationCalls
    Initial <- SuspendedOwner
SYMMETRY TxSymmetry
CHECK_DEADLOCK FALSE
INVARIANTS EveryOrganizationKeepsAnOwner
