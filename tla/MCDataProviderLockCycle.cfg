\* A writer of its own beside the requests: the send under the adapter mutex,
\* the handler and Subscribe wait for each other in a circle.
SPECIFICATION FairSpec
CONSTANTS
    a1 = a1  a2 = a2  p1 = p1  p2 = p2
    request = request  ticker = ticker
    one = one  all = all
    full = full  partial = partial  none = none
    NoOne = NoOne  NoMask = NoMask
    Adapters = {a1}
    Paths = {p1, p2}
    AdapterOf <- OneAdapter
    Writers = {request, ticker}
    Callers = {request}
    MayRefuse = FALSE
    ChanSize = 1
    MaxVersion = 2
    Masks = {all}
    MatchedBy <- Matched
    Auths = {full}
    Readable <- Permissions
    QueueSize = 1
    MaxSubs = 2
PROPERTIES
    ChangesDispatched
\* The server waits for requests, and the bounds end.
CHECK_DEADLOCK FALSE
