\* One terminal of two lines of three columns and every control sequence.
CONSTANTS
    COLS = 3
    ROWS = 2
    MAX_CSIPARAM = 2
    TABSTOP_WIDTH = 2
    NR_TERMINAL = 1
    Text = {" ", "BS", "HT", "LF", "CR", "CAN", "ESC"}
    EscCodes = {"D", "E", "M", "[", "4", "5", "7", "8", "c", "h"}
    CsiCodes = {"A", "B", "C", "D", "F", "G", "H", "J", "K", "S", "T", "s", "u", ";", "2"}
    Keys = {}
    Messages = {}
    MaxParam = 0
    TopReverse = FALSE
SPECIFICATION Spec
INVARIANT WrapAtEdge
INVARIANT VgaAgrees
