\* two requests of each kind, two codes, sessions, invitations, recordings, accounts and
\* Google identities, three avatars, four tasks
SPECIFICATION Spec
CONSTANTS
    r1 = r1
    r2 = r2
    v1 = v1
    v2 = v2
    Requests = {r1, r2}
    Recordings = {v1, v2}
    p1 = p1
    p2 = p2
    Profiles = {p1, p2}
    None = None
    MaxCodes = 2
    MaxSessions = 2
    MaxInvitations = 2
    MaxUploads = 3
    Attempts = 2
    Runs = 2
    Limit = 3
    MaxFaults = 1
    MaxAccounts = 2
    MaxTasks = 4
SYMMETRY Interchangeable
CONSTRAINT BeforeLoss
INVARIANT CodeOnce
INVARIANT ResetOnce
INVARIANT OneOpen
INVARIANT SpentAdmitsNobody
INVARIANT NothingLost
INVARIANT ContentComplete
INVARIANT AvatarStored
INVARIANT PreferencesServed
INVARIANT GuessesBounded
INVARIANT HalfWayNoticed
PROPERTY OneIdentity
CHECK_DEADLOCK FALSE
