\* Two descriptors, three file structs, two terminals and a serial port that is absent.
CONSTANTS
    MAX_OPEN = 2
    NR_FILES = 3
    Terms = {tty1, tty2}
    DefaultTerm = tty1
    Ports = {ttyS2}
    Absent = {ttyS2}
    Paths = {"tty0", "nosuch"}
    NULL = NULL
SPECIFICATION Spec
INVARIANT FilesOwned
PROPERTY DescriptorsIndependent
PROPERTY ClosedFileReturned
CHECK_DEADLOCK FALSE
