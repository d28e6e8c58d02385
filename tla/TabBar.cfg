SPECIFICATION FairSpec
CONSTANTS
    Tabs = {home, news, settings}
    Home = home
    Settings = settings
    MaxPosted = 3
INVARIANTS
    StrandedOnlyByRace
    HighlightSound
    LastTapWins
PROPERTY TapIsServed
