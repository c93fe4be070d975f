\* A connection waits in newClient for the mutex that Close keeps in Shutdown.
SPECIFICATION FairSpec
CONSTANTS
    c1 = c1  c2 = c2
    Conns = {c1, c2}
    Addrs = {c1, c2}
    AddrOf <- OwnAddr
    NoConn = NoConn
    Main = Main
    MayClose = TRUE
    QueueSize = 1
    MaxSubs = 0
PROPERTIES
    CloseReturns
\* Every connection may be over and every bound used up.
CHECK_DEADLOCK FALSE
