SPECIFICATION Spec
CONSTANTS
    Users = {1, 2}
    ProviderData <- MCProviderData
    Documents = {1}
    Screens = {s1, s2}
    Fetches = {f1, f2}
    MaxFaces = 1
    None = None
SYMMETRY Symmetry
INVARIANTS
    LoaderOwed
    PictureOwn
PROPERTIES
    EnrolledByFace
