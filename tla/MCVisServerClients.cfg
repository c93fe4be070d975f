\* Two clients that may end each other's subscriptions, and come and go; Close.
SPECIFICATION Spec
CONSTANTS
    c1 = c1  c2 = c2
    Conns = {c1, c2}
    Addrs = {c1, c2}
    AddrOf <- OwnAddr
    NoConn = NoConn
    Main = Main
    MayClose = TRUE
    QueueSize = 1
    MaxSubs = 2
SYMMETRY Symmetry
INVARIANTS
    ServerInv NoOrphans LiveIsForwarded AllClosed
PROPERTIES
    ImplementsSessions KnowsItsIds
\* Every connection may be over and every bound used up.
CHECK_DEADLOCK FALSE
