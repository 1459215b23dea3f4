SPECIFICATION FairSpec
CONSTANTS
    Conn = {s1, s2, c1}
    Server = {s1, s2}
    Fd = {5, 6}
    Timeout = 2
    MaxLate = 0
    MaxInbox = 1
INVARIANTS
    OpenIsFound
PROPERTIES
    ClosedInSilence
    SilentIsClosed
