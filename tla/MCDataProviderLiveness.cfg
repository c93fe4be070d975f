\* Only client requests write: every wait ends.
SPECIFICATION FairSpec
CONSTANTS
    a1 = a1  a2 = a2  p1 = p1  p2 = p2
    request = request  ticker = ticker
    one = one  all = all
    full = full  partial = partial  none = none
    NoOne = NoOne  NoMask = NoMask
    Adapters = {a1}
    Paths = {p1, p2}
    AdapterOf <- OneAdapter
    Writers = {request}
    Callers = {request}
    MayRefuse = TRUE
    ChanSize = 1
    MaxVersion = 2
    Masks = {all}
    MatchedBy <- Matched
    Auths = {full, none}
    Readable <- Permissions
    QueueSize = 1
    MaxSubs = 2
PROPERTIES
    ChangesDispatched CallsReturn
\* The server waits for requests, and the bounds end.
CHECK_DEADLOCK FALSE
