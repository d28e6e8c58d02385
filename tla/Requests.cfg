SPECIFICATION Spec
CONSTANTS
    Names = {n1, n2}
    Ids = {id1, bad}
    Malformed = {bad}
    None = None
INVARIANTS
    QueryArrives
    BodyLabelled
    EndpointsSound
