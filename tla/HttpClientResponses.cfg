\* Well-behaved servers and reused connections.
SPECIFICATION Spec
CONSTANTS
    f1 = f1  f2 = f2  h1 = h1  h2 = h2
    Nobody = Nobody  Cache = Cache
    Fetches = {f1, f2}
    Hosts = {h1, h2}
    MaxAddrs = 1
    Methods = {"GET", "HEAD"}
    RequestLen = 2
    Answers <- Proper
    Early = TRUE
    Aborts = FALSE
    Keepalive = 1
    KeepaliveRequests = 3
    MaxBody = 1
    MaxChunked = 1
    MaxConns = 2
SYMMETRY Symmetry
INVARIANTS ResponseIsMine ResponseIsWhole LastIsLast
CHECK_DEADLOCK FALSE
