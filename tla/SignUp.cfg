SPECIFICATION FairSpec
CONSTANTS
    Emails = {e1}
    Avatars = {a1}
    Screens = {s1, s2}
    Attempts = {t1, t2}
    None = None
INVARIANTS
    SuccessMeansStored
    DocumentSound
PROPERTIES
    ImplementsRegistration
    AttemptEnds
    SuccessReachesHome
