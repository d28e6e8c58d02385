SPECIFICATION FairSpec
CONSTANTS
    gId = gId
    fId = fId
    aId = aId
    zId = zId
    Emails = {e1}
    Identities = {gId, aId}
    Provider <- MCProvider
    Enrolled = {e1}
    Before <- AnyLaunch
    Screens = {s1}
    Logins = {t1, t2}
    MaxSwitches = 1
    None = None
PROPERTIES
    LoginEnds
    SuccessReachesHome
