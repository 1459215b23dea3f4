SPECIFICATION TimerSpec
CONSTANTS
    Event = {beat, vote, call}
    Repeated = {beat, vote}
    Resets = {vote}
    Interval = {1, 2}
    Worker = {w1}
    MaxTime = 3
INVARIANTS
    LinkedByTime
PROPERTIES
    NeverEarly
    LostOnlyToTwin
\* The clock stops.
CHECK_DEADLOCK FALSE
