SPECIFICATION SensorSpec
CONSTANTS
    COUNT_MOD = 8
    LOW_MOD = 2
    POST_TICKS = 2
    Delays = {0, 2}
PROPERTIES
    OncePerInterrupt
    TicksKeepComing
    RadioServed
    RelativeTime
