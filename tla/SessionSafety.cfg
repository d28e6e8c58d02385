SPECIFICATION Spec
CONSTANTS
    gId = gId
    fId = fId
    aId = aId
    zId = zId
    Emails = {e1}
    Identities = {aId, zId}
    Provider <- MCProvider
    Enrolled = {e1}
    Before <- NewOrLater
    Screens = {s1, s2}
    Logins = {t1, t2}
    MaxSwitches = 1
    None = None
SYMMETRY Symmetry
INVARIANTS
    SignedInAtHome
    LogOutHolds
    WatchedUnlessRaced
PROPERTY
    ImplementsAuthentication
