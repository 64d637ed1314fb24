\* The transmit path under XON and XOFF from the peer, with progress of both directions.
CONSTANTS
    FIFO_DEPTH = 2
    RCVR_TRIG = 1
    TX_SIZE = 3
    XMIT_MAX = 2
    TTY_BUFFER_SIZE = 3
    TTY_THROTTLE_THRESH = 2
    RECV_MAX = 2
    INTR_MAX = 2
    Opened = TRUE
    MaxIn = 2
    MaxCalls = 2
    MaxCts = 1
    ReadCounts = {1, 2}
    Input = {17, 19}
    Calls = {"write", "tiocmget"}
    DefaultTermios <- CookedXon
    TermiosChoices <- NoFlags
    Bufs <- NewlineBuf
SPECIFICATION FairSpec
INVARIANT OutputIntact
INVARIANT TxArmed
PROPERTY XoffObeyed
PROPERTY OutputDrains
PROPERTY InputServed
CHECK_DEADLOCK FALSE
