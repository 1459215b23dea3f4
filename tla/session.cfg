SPECIFICATION Spec
CONSTANTS
    k1 = k1
    k2 = k2
    t1 = t1
    t2 = t2
    Nil = Nil
    Sender = Sender
    Receiver = Receiver
    Session = Session
    Requests = Requests
    Worker = {w1, w2}
    Calls = {k1}
    Callback = {t1}
    Coroutine = {k1, t1, Sender, Receiver}
    Channal = {k1, Requests}
    Mutex = {k1, Requests, Session}
    Message = {k1}
    timerOf <- Timers
    capacity <- Capacities
    Simultaneous = {}
    MaxBreaks = 0
SYMMETRY Threads
INVARIANTS
    MutexInv
    NoCoroutineForgotten
    AnswerIsOwn
PROPERTIES
    ImplementsBoundedQueue
\* The session waits for ever when its calls are over.
CHECK_DEADLOCK FALSE
