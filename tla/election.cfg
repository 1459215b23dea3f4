SPECIFICATION Spec
CONSTANTS
    Node = {n1, n2, n3, n4, n5}
    n1 = n1
    n2 = n2
    n3 = n3
    n4 = n4
    n5 = n5
    Nil = Nil
    Service = {"add"}
    Contest <- Contested
    Connected <- Overlapping
    Late <- NoSession
    Lossy <- NoSession
    Beating <- NoSession
    Registration <- NoRegistration
    MaxTerm = 2
    MaxLog = 3
    MaxNet = 0
INVARIANTS
    OneGrantPerTerm
    ElectionInv
    ElectionSafety
PROPERTIES
    ImplementsLeaderElection
\* The bounds end every behaviour.
CHECK_DEADLOCK FALSE
