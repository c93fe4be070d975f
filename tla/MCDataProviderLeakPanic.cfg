\* A Subscribe refused in the match loop leaves its id in the lists.
SPECIFICATION Spec
CONSTANTS
    a1 = a1  a2 = a2  p1 = p1  p2 = p2
    request = request  ticker = ticker
    one = one  all = all
    full = full  partial = partial  none = none
    NoOne = NoOne  NoMask = NoMask
    Adapters = {a1}
    Paths = {p1, p2}
    AdapterOf <- OneAdapter
    Writers = {request}
    Callers = {request}
    MayRefuse = FALSE
    ChanSize = 1
    MaxVersion = 2
    Masks = {one, all}
    MatchedBy <- Matched
    Auths = {full, partial}
    Readable <- Permissions
    QueueSize = 1
    MaxSubs = 2
INVARIANTS
    NoPanic
\* The server waits for requests, and the bounds end.
CHECK_DEADLOCK FALSE
