SPECIFICATION OrderlySpec
CONSTANTS
    Msgs = {m1, m2}
    NoMsg = NoMsg
    NoBody = NoBody
    Uuids = {u1}
    NoUuid = NoUuid
    NoPacket = NoPacket
    MAX_NODES = 1
    MAX_RETRIES = 1
    ACK_TICKS = 1
    TICKS_PER_SECOND = 2
    HEARTBEAT_GRACE = 1
    Heartbeats = {1}
    NetIds = {1, 255}
    SEQ_MOD = 2
    Validities = {0, 3}
    BEACON_PERIOD = 1
    BEACON_OFFSET = 0
INVARIANTS
    TimersMatchState
    AppKnowsRegistry
    RetryBudget
    DeliveredWasSent
PROPERTIES
    FailureJustified
    ImplementsService
SYMMETRY Symmetry
