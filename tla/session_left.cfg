SPECIFICATION Spec
CONSTANTS
    t1 = t1
    alice = alice
    e1 = e1
    NoKey = NoKey
    NoTenant = NoTenant
    NoSub = NoSub
    NoEvent = NoEvent
    Author <- MCAuthor
    CreatedAt <- MCCreated
    SeedKeys <- MCSeeds
    Tenants = {t1}
    Pubkeys = {alice}
    Serves <- MCOneTenant
    Sessions = {s1, s2}
    PublicRead = {}
    PublicWrite = {}
    AuthRequired = {t1}
    Events = {e1}
    Replaces <- MCNothing
    Yields <- MCNothing
    Related <- MCUnrelated
    SubIds = {i1}
    Filters <- MCAll
    MaxSubscriptions = 1
    ChannelCapacity = 1
    MaxAge = 0
    MaxTime = 0
PROPERTY LiveReadsByMembers
