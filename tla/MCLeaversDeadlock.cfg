SPECIFICATION Spec
CONSTANTS
    Tx = {t1, t2}
    Actors = {1, 2, 3}
    Orgs = {1, 2}
    Teams = {}
    Channels = {}
    Names = {1, 2}
    MessageIds = {}
    InviteIds = {}
    Emails = {}
    Malformed = {}
    Unreliable = {}
    Requests <- LeaveCalls
    Initial <- Crosswise
SYMMETRY TxSymmetry
CHECK_DEADLOCK FALSE
INVARIANTS NoDeadlock
