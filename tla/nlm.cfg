SPECIFICATION Spec
CONSTANTS
    Workers = {w1, w2}
    Owners = {"o1", "o2"}
    HostOf <- MCHostOf
    Files = {"f"}
    Ranges <- MCRanges
    LockArgs <- MCLockArgs
    UMax = 3
    EntryIds = {1, 2, 3, 4, 5, 6, 7, 8, 9}
    MaxRequests = 4
    MaxRestarts = 1
INVARIANTS TypeOK RefsCoverUses GrantedCompatible NoForgottenBlocked HonouredExclusion
PROPERTY GrantsComeToAnEnd
CHECK_DEADLOCK FALSE
