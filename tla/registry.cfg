SPECIFICATION Spec
CONSTANTS
    r1 = r1
    r2 = r2
    Register = {r1, r2}
    Default <- EachItsOwn
    s1 = s1
    s2 = s2
    Server = {s1, s2}
    Client = {c1}
    Func = {add}
    Offers <- Both
    Deletes <- OnlySecond
    Crashing = {s1}
    MaxLife <- FirstTwice
    Nil = Nil
INVARIANTS
    RedirectedIsNowhere
    FunctionIsThere
    EveryoneCallsTheFirst
