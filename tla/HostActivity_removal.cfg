SPECIFICATION FairSpec
CONSTANTS
    h1 = h1  h2 = h2  c1 = c1  c2 = c2  Nil = Nil
    Hosts = {h1}
    Requests = {c1}
    Threads <- MCThreads
    NICs <- MCNICs
    Ops = {"add", "remove"}
    Restless = {h1}
    MaxAddresses = 2
    MaxDepth = 2
CHECK_DEADLOCK FALSE
PROPERTY RemovalReturns
