SPECIFICATION NetSpec
CONSTANTS
    Msgs = {}
    NoMsg = NoMsg
    NoBody = NoBody
    Uuids = {u1, u2}
    NoUuid = NoUuid
    NoPacket = NoPacket
    MAX_NODES = 2
    MAX_RETRIES = 0
    ACK_TICKS = 1
    TICKS_PER_SECOND = 1
    HEARTBEAT_GRACE = 0
    Heartbeats = {1}
    NetIds = {1, 2, 255}
    SEQ_MOD = 1
    Validities = {0}
    BEACON_PERIOD = 1
    BEACON_OFFSET = 1
    Sleepy = {}
    HEARTBEAT = 1
    BEACON_TICKS = 1
    REGISTRATION_TICKS = 1
    AckRequests = {FALSE}
    Prompt = FALSE
INVARIANTS
    RegistryUnique
    AddressesAgree
    DataAttributed
SYMMETRY Symmetry
