SPECIFICATION FairSpec
CONSTANTS
    Nil = Nil
    Worker = {w1, w2}
    Event = {beat}
    Repeated = {beat}
    Resets = {}
    Interval = {1}
    MaxTime = 2
    Client = {task, server}
    Serving = {server}
INVARIANTS
    UpUntilStop
    StopIsFinal
PROPERTIES
    QueuedRuns
    ExpiredIsTaken
    CallbackRuns
    StopReturns
\* The program stops.
CHECK_DEADLOCK FALSE
