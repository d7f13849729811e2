SPECIFICATION Spec
CONSTANTS
    FIFO_SIZE = 5
    TX_WAIT_THRESH = 3
    TX_RESUME_THRESH = 1
INVARIANTS
    SuccessMeansSent
