SPECIFICATION Spec
CONSTANTS
    Msgs = {m1}
    NoMsg = NoMsg
    NoBody = NoBody
    Uuids = {u1, u2}
    NoUuid = NoUuid
    NoPacket = NoPacket
    MAX_NODES = 2
    MAX_RETRIES = 1
    ACK_TICKS = 1
    TICKS_PER_SECOND = 1
    HEARTBEAT_GRACE = 1
    Heartbeats = {1}
    NetIds = {1, 2, 255}
    SEQ_MOD = 2
    Self = u1
    HEARTBEAT = 1
    BEACON_TICKS = 2
    REGISTRATION_TICKS = 2
INVARIANTS
    ClientTypeOK
    AssociationConsistent
    WaitsTimed
PROPERTIES
    NeverMoved
    RegisteringEnds
