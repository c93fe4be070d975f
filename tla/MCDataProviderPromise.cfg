\* Permissions that never split a mask, no refused batch, two adapters.
SPECIFICATION Spec
CONSTANTS
    a1 = a1  a2 = a2  p1 = p1  p2 = p2
    request = request  ticker = ticker
    one = one  all = all
    full = full  partial = partial  none = none
    NoOne = NoOne  NoMask = NoMask
    Adapters = {a1, a2}
    Paths = {p1, p2}
    AdapterOf <- TwoAdapters
    Writers = {request, ticker}
    Callers = {request}
    MayRefuse = FALSE
    ChanSize = 1
    MaxVersion = 2
    Masks = {one, all}
    MatchedBy <- Matched
    Auths = {full, none}
    Readable <- Permissions
    QueueSize = 1
    MaxSubs = 2
INVARIANTS
    CatchingUp PromiseInv NoPanic OnlyRequestedPaths ExactLists CaughtUp
PROPERTIES
    ImplementsRegistry
\* The server waits for requests, and the bounds end.
CHECK_DEADLOCK FALSE
