\* The receive path under XOFF and RTS flow control: reader, handler, UART and a peer that honours flow control.
CONSTANTS
    FIFO_DEPTH = 2
    RCVR_TRIG = 2
    TX_SIZE = 3
    XMIT_MAX = 2
    TTY_BUFFER_SIZE = 3
    TTY_THROTTLE_THRESH = 2
    RECV_MAX = 2
    INTR_MAX = 2
    Opened = TRUE
    MaxIn = 4
    MaxCalls = 2
    MaxCts = 0
    ReadCounts = {1, 2}
    Input = {97, 98, 99, 100}
    Calls = {"read"}
    DefaultTermios <- XoffRts
    TermiosChoices <- NoFlags
    Bufs <- NoBuf
SPECIFICATION Spec
INVARIANT TypeOK
INVARIANT InputIntact
INVARIANT PeerNotForgotten
INVARIANT NoMutualWait
CHECK_DEADLOCK FALSE
