SPECIFICATION Spec
CONSTANTS
    Tx = {t1, t2, t3}
    Actors = {1, 2, 3}
    Orgs = {1, 2, 3, 4}
    Teams = {1, 2}
    Channels = {1, 2, 3, 4}
    Names = {1, 2, 3, 9}
    MessageIds = {}
    InviteIds = {}
    Emails = {}
    Malformed = {9}
    Unreliable = {t1, t2, t3}
    Requests <- TableCalls
    Initial <- TableDatabases
SYMMETRY TxSymmetry
CHECK_DEADLOCK FALSE
INVARIANTS TypeOK NamesUnique ListingsFit DepartureErases TrailTellsTheTables
PROPERTIES DepartureAdmitted
