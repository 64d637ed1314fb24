CONSTANTS
  MaxKeys = 2
  MaxFaults = 1
  MaxSpurious = 1
  MaxBells = 1
  CrashKeys = {"exception", "double", "panic", "unexpected", "spurious", "triple"}
  KbModels = {TRUE, FALSE}
SPECIFICATION Spec
PROPERTIES KeysTaken SpeakerStops
CHECK_DEADLOCK FALSE
