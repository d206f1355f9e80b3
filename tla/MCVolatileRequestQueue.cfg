\* A ring of three slots that wraps around several times; the delivery of requests.
SPECIFICATION QueuesSpec
CONSTANTS
    Size = 3
    Request = {r1, r2, r3, r4}
    NoRequest = NoRequest
    b1 = b1
    t1 = t1
    d1 = d1
    e1 = e1
    e2 = e2
    None = None
INVARIANT WindowExact
PROPERTIES SweepComplete FifoSpec RequestsEnd TxMessagesEnd
