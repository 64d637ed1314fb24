\* Two words and two faults of the line; the kernel hits no breakpoint while
\* the host is breaking in, and the host's packets are well formed and arrive whole.
CONSTANTS
  Words = {0, 90}
  MaxNoise = 2
  RaceCtrlC = FALSE
  BadRequests = FALSE
  NoisyCommands = FALSE
SPECIFICATION Spec
INVARIANT HostKnows
PROPERTIES ResumedAsTold HostServed
