SPECIFICATION FairSpec
CONSTANTS
    Users = {1, 2}
    ProviderData <- MCProviderData
    Documents = {1}
    Screens = {s1}
    Fetches = {f1, f2}
    MaxFaces = 0
    None = None
PROPERTIES
    LoaderHides
