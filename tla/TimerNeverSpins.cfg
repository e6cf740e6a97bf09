\* The shell's ps holds PROCESS_TABLE with interrupts enabled.
SPECIFICATION Spec
CONSTANTS
  PidSpace = 1000
  MaxPid = 1
  Timeslice = 2
  Signals = {}
  Codes = {}
  Calls = {"ps"}
INVARIANT TimerNeverSpins
CHECK_DEADLOCK FALSE
