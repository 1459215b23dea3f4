SPECIFICATION Spec
CONSTANTS
    Node = {n1, n2, n3}
    n1 = n1
    n2 = n2
    n3 = n3
    n4 = n4
    n5 = n5
    Nil = Nil
    Service = {"add"}
    Contest <- Handover
    Connected <- EverySession
    Late <- NoSession
    Lossy <- NoSession
    Beating <- N2ToN1
    Registration <- NoRegistration
    MaxTerm = 2
    MaxLog = 3
    MaxNet = 1
PROPERTIES
    AppliedHasMajority
\* The bounds end every behaviour.
CHECK_DEADLOCK FALSE
