SPECIFICATION Spec
CONSTANTS
    Node = {n1, n2}
    n1 = n1
    n2 = n2
    n3 = n3
    n4 = n4
    n5 = n5
    Nil = Nil
    Service = {"add"}
    Contest <- ReturnTwice
    Connected <- EverySession
    Late <- NoSession
    Lossy <- FromN1
    Beating <- NoSession
    Registration <- OneOrNone
    MaxTerm = 4
    MaxLog = 3
    MaxNet = 1
INVARIANTS
    TypeOK
    PrevLogIndexDefined
    LogsOrdered
PROPERTIES
    LeaderAppendOnly
\* The bounds end every behaviour.
CHECK_DEADLOCK FALSE
