\* Retries, aborts, errors and a cache that is full.
SPECIFICATION FairSpec
CONSTANTS
    f1 = f1  f2 = f2  h1 = h1  h2 = h2
    Nobody = Nobody  Cache = Cache
    Fetches = {f1, f2}
    Hosts = {h1}
    MaxAddrs = 2
    Methods = {"GET"}
    RequestLen = 1
    Answers <- Empty
    Early = FALSE
    Aborts = TRUE
    Keepalive = 1
    KeepaliveRequests = 2
    MaxBody = 1
    MaxChunked = 1
    MaxConns = 2
INVARIANTS ConnectionsOwned
PROPERTIES EventuallySettled
CHECK_DEADLOCK FALSE
