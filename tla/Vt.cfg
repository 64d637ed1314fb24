\* Two terminals with plain text, echo, kernel messages and switches.
CONSTANTS
    COLS = 2
    ROWS = 2
    MAX_CSIPARAM = 2
    TABSTOP_WIDTH = 8
    NR_TERMINAL = 2
    Text = {"a", "LF"}
    EscCodes = {}
    CsiCodes = {}
    Keys = {"BS"}
    Messages = {"CR"}
    MaxParam = 0
    TopReverse = FALSE
SPECIFICATION Spec
INVARIANT ShownIsCurrent
PROPERTY ImplementsTeletype
CHECK_DEADLOCK FALSE
