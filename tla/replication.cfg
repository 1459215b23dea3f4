SPECIFICATION Spec
CONSTANTS
    Node = {n1, n2, n3}
    n1 = n1
    n2 = n2
    n3 = n3
    n4 = n4
    n5 = n5
    Nil = Nil
    Service = {"add"}
    Contest <- InTurn
    Connected <- Ring
    Late <- N2ToN3
    Lossy <- NoSession
    Beating <- N2ToN1
    Registration <- NoRegistration
    MaxTerm = 3
    MaxLog = 3
    MaxNet = 1
INVARIANTS
    TimersMatchRole
    LeaderHint
    LogMatching
    PrevLogIndexDefined
    LeakNeverMetByLeader
\* The bounds end every behaviour.
CHECK_DEADLOCK FALSE
