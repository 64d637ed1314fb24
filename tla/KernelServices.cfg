\* Three slots and two characters: every wrap of the ring.  Times whose next
\* second carries into the hour, the day, the century.  A log of five
\* characters that messages of one to five wrap round.  More reservations
\* than the pool has items.
CONSTANTS
    Char = {0, 1}
    NUL = 0
    Length = 3
    Times <- TimesMC
    BadTimes <- BadTimesMC
    Alarms <- AlarmsMC
    Rates = {2, 8}
    MaxCalls = 2
    MaxSeconds = 2
    Consoles = {"tty", "ttyS"}
    VtConsole = "tty"
    Newline = 9
    Messages <- MessagesMC
    LogSize = 5
    PrintMax = 4
    MaxPrints = 4
    MaxNested = 0
    Ranges <- RangesMC
    PoolSize = 5
SPECIFICATION ServicesSpec
INVARIANT EndsMeet
INVARIANT TimeKept
INVARIANT NothingUnprinted
INVARIANT RangesDisjoint
PROPERTY ImplementsDeque
CHECK_DEADLOCK FALSE
