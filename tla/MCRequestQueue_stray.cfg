\* A late response of the server abandons another request.
SPECIFICATION Spec
CONSTANTS
    CacheSize = 1
    PreBootMsg = {b1}
    BootMsg = {b1}
    DefaultMsg = {d1, d2}
    NoTimeout = {}
    Emitter = {e1, e2}
    MaxTx = 0
    MaxAttempts = 1
    InMsg = {}
    None = None
INVARIANTS ListenersCalled
