\* A full keyboard that refuses or answers late; modifiers, locks, keypad, PAUSE.
CONSTANTS
    Keys = {1, 3, 5, 30, 65, 109, 121, 26}
    Repeating = {109}
    Models = {"full", "noread", "fixed"}
    Typeahead = 0
    FaultKinds = {"late"}
    BootFaults = {"nak"}
    FakeShift = FALSE
    MaxEvents = 4
    MaxFaults = 2
    NR_TERMINAL = 7
    RETRY_COUNT = 2
SPECIFICATION Spec
INVARIANT TypeOK
INVARIANT KeystrokesMeanText
INVARIANT AssertsHold
INVARIANT LedsBelieved
INVARIANT ScancodesAreSet1
PROPERTY InputDrains
CHECK_DEADLOCK FALSE
