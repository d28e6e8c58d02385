SPECIFICATION FairSpec
CONSTANTS
    Records = {r1}
    News = {n1}
    Fetches = {f1, f2}
    Sizes = {0, 2}
    MaxPictures = 1
    None = None
CHECK_DEADLOCK FALSE
INVARIANTS
    SubscriptOnlyInWindow
PROPERTIES
    ReleasedIsUntouched
    ResultIsDisplayed
    LoaderHides
    LeftIsReleased
