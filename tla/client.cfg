CONSTANTS
    UNIT = 2
    BYTE = 4
    EXT = 2
    MAX_LEN = 6
    Incoming <- MCIncoming
    Outgoing <- MCOutgoing
    MaxCalls = 2
    TICK = 8
    MaxClock = 1
    MaxSessions = 2
    MaxMessages = 4
    PQs <- MCPQs
    UINT32 = 32
    RHO_STEPS = 6
    MAX_FP_COUNT = 2
    Prime = 23
    Gs = {1, 2, 7, 8}
    Exponents = {3, 4}
    MaxExchanges = 2
    MAX_RETRIES = 2
    FirstFiles <- MCFirstFiles
    Environments <- MCEnvironments
SPECIFICATION Spec
CHECK_DEADLOCK FALSE

INVARIANTS StreamInStep HeadersAccepted KeyAgreed FactorsRight ConfigWhole SavedIsLoaded
PROPERTIES ImplementsChannel ExchangeEnds
