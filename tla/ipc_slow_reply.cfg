CONSTANTS
    IpcPids = {1, 2}
    MessageIds = {101}
    RpcEndpoints = {}
    MaxExchanges = 1
    MaxCalls = 0
    MaxPasses = 1
    SlowReplies = TRUE
SPECIFICATION Spec
CHECK_DEADLOCK FALSE
INVARIANTS
    LinksAreTrue
