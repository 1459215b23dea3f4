SPECIFICATION Spec
CONSTANTS
    Requests <- ManyRequests
    Answers <- ManyAnswers
    MaxSent = 3
INVARIANTS
    TypeOK
    ValuesArrive
    EndsAtMessage
    DrainedIsRead
\* The peer may end, and sends no more than MaxSent messages.
CHECK_DEADLOCK FALSE
