CONSTANTS
    Requests = {a}
    Instances = {i1, i2}
    Main = Main
    Nobody = Nobody
    Copies = {c1, c2}
    NoCopy = NoCopy
    MaxTokens = 2
SPECIFICATION Spec
CHECK_DEADLOCK FALSE
SYMMETRY Symmetry
INVARIANTS TypeOK ClosedOnce LoggedOutStaysOut StoredTokenIsValid LoopsAreOwned
