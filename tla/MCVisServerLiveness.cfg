\* Connections, requests and goroutines end.
SPECIFICATION FairSpec
CONSTANTS
    c1 = c1  c2 = c2
    Conns = {c1, c2}
    Addrs = {c1, c2}
    AddrOf <- OwnAddr
    NoConn = NoConn
    Main = Main
    MayClose = FALSE
    QueueSize = 1
    MaxSubs = 1
PROPERTIES
    ConnectionsEnd ForwardersEnd
\* Every connection may be over and every bound used up.
CHECK_DEADLOCK FALSE
