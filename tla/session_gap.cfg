SPECIFICATION Spec
CONSTANTS
    t1 = t1
    alice = alice
    e1 = e1
    NoKey = NoKey
    NoTenant = NoTenant
    NoSub = NoSub
    NoEvent = NoEvent
    Author <- MCAuthor
    CreatedAt <- MCCreated
    SeedKeys <- MCNoSeeds
    Tenants = {t1}
    Pubkeys = {alice}
    Serves <- MCOneTenant
    Sessions = {s1, s2}
    PublicRead = {t1}
    PublicWrite = {t1}
    AuthRequired = {}
    Events = {e1, e2}
    Replaces <- MCReplaces
    Yields <- MCYields
    Related <- MCRelated
    SubIds = {i1, i2}
    Filters <- MCAll
    MaxSubscriptions = 1
    ChannelCapacity = 1
    MaxAge = 1
    MaxTime = 1
INVARIANT TypeOK
INVARIANT NoGap
 
SYMMETRY GapSymmetry
