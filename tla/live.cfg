SPECIFICATION FairSpec
CONSTANTS
    Node = {n1, n2, n3}
    n1 = n1
    n2 = n2
    n3 = n3
    n4 = n4
    n5 = n5
    Nil = Nil
    Service = {"add"}
    Contest <- Single
    Connected <- EverySession
    Late <- NoSession
    Lossy <- NoSession
    Beating <- FromN1
    Registration <- NoRegistration
    MaxTerm = 1
    MaxLog = 2
    MaxNet = 1
PROPERTIES
    LeaderApplies
    EveryNodeApplies
\* The bounds end every behaviour.
CHECK_DEADLOCK FALSE
