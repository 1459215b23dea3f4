SPECIFICATION FairSpec
CONSTANTS
    k1 = k1
    k2 = k2
    t1 = t1
    t2 = t2
    Nil = Nil
    Sender = Sender
    Receiver = Receiver
    Session = Session
    Requests = Requests
    Worker = {w1}
    Calls = {k1, k2}
    Callback = {t1, t2}
    Coroutine = {k1, k2, t1, t2, Sender, Receiver}
    Channal = {k1, k2, Requests}
    Mutex = {k1, k2, Requests, Session}
    Message = {k1, k2}
    timerOf <- Timers
    capacity <- Capacities
    Simultaneous <- Together
    MaxBreaks = 1
INVARIANTS
    TypeOK
PROPERTIES
    EveryCallReturns
\* The session waits for ever when its calls are over.
CHECK_DEADLOCK FALSE
