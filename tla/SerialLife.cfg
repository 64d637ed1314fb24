\* Open, close and reopen with the default flags, echo and TCSETS.
CONSTANTS
    FIFO_DEPTH = 2
    RCVR_TRIG = 2
    TX_SIZE = 3
    XMIT_MAX = 2
    TTY_BUFFER_SIZE = 3
    TTY_THROTTLE_THRESH = 2
    RECV_MAX = 2
    INTR_MAX = 2
    Opened = FALSE
    MaxIn = 2
    MaxCalls = 4
    MaxCts = 0
    ReadCounts = {1}
    Input = {97, 13}
    Calls = {"open", "close", "read", "write", "tcsets", "tiocmget"}
    DefaultTermios <- Default
    TermiosChoices <- XonSet
    Bufs <- LetterBuf
SPECIFICATION Spec
INVARIANT OutputIntact
INVARIANT TxArmed
CHECK_DEADLOCK FALSE
