SPECIFICATION MCSpec
CONSTANTS
    t1 = t1
    t2 = t2
    alice = alice
    bob = bob
    k1 = k1
    k2 = k2
    r1 = r1
    r2 = r2
    NoKey = NoKey
    NoTenant = NoTenant
    NoCode = NoCode
    NoRow = NoRow
    RelayKey <- MCKeys
    Tenants = {t1, t2}
    Clients = {alice, bob}
    Codes = {c1}
    Sessions = {s1, s2}
    Requests = {r1, r2}
    Host <- MCHost
    Caller <- MCCaller
    InviteTTL = 0
    MaxTime = 1
INVARIANT RootedTrust
INVARIANT OwnersAreSeeded
INVARIANT SpentInvitesAreGone
INVARIANT InvitedInTime
INVARIANT OneWelcomeUnlessTogether
PROPERTY ImplementsTable
SYMMETRY SessionSymmetry
CHECK_DEADLOCK FALSE
