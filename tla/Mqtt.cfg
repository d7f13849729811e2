SPECIFICATION FairSpec
CONSTANTS
    NTOPICS = 3
    Subscribed = {1, 2}
    N_RETRY = 1
    T_RETRY = 1
    KEEP_ALIVE = 2
    MSG_ID_MOD = 2
    TopicId <- MCTopicId
INVARIANTS
    MqttTypeOK
    TopicIdsRight
    ConnectedRegistered
    PubackOnce
    InboundSubscribed
    KeepsAlive
    RetriesCounted
PROPERTIES
    WaitEnds
