\* All queues share the slot; retries, evictions, late and lost answers.
SPECIFICATION Spec
CONSTANTS
    CacheSize = 1
    PreBootMsg = {b1, t1}
    BootMsg = {b1}
    DefaultMsg = {d1}
    NoTimeout = {d1}
    Emitter = {e1, e2}
    MaxTx = 2
    MaxAttempts = 2
    InMsg = {i1}
    None = None
SYMMETRY Symmetry
INVARIANTS TypeOK Conservation
PROPERTIES PreBootGate OutcomeIsFinal ConfIsGenuine TxInOrder
