SPECIFICATION Spec
CONSTANTS
    Tx = {t1, t2}
    Actors = {1, 2, 3}
    Orgs = {1}
    Teams = {}
    Channels = {}
    Names = {1}
    MessageIds = {}
    InviteIds = {}
    Emails = {}
    Malformed = {}
    Unreliable = {}
    Requests <- SuspendedWhileLeaving
    Initial <- OneOrganization
CHECK_DEADLOCK FALSE
PROPERTIES LastOwnerIsTrue
