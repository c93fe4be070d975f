\* Client requests and an autonomous writer; permissions may split a mask.
SPECIFICATION Spec
CONSTANTS
    a1 = a1  a2 = a2  p1 = p1  p2 = p2
    request = request  ticker = ticker
    one = one  all = all
    full = full  partial = partial  none = none
    NoOne = NoOne  NoMask = NoMask
    Adapters = {a1}
    Paths = {p1, p2}
    AdapterOf <- OneAdapter
    Writers = {request, ticker}
    Callers = {request}
    MayRefuse = TRUE
    ChanSize = 1
    MaxVersion = 2
    Masks = {one, all}
    MatchedBy <- Matched
    Auths = {full, partial}
    Readable <- Permissions
    QueueSize = 1
    MaxSubs = 2
INVARIANTS
    OrderInv RegistryInv DanglingOnlyNext SubscriptionComplete OnlyLockCyclesStop
PROPERTIES
    OrderPreserved
\* The server waits for requests, and the bounds end.
CHECK_DEADLOCK FALSE
