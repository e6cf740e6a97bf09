\* A signal pending at exit() changes the exit code.
SPECIFICATION Spec
CONSTANTS
  PidSpace = 1000
  MaxPid = 1
  Timeslice = 2
  Signals = {9}
  Codes = {7}
  Calls = {"kill", "exit"}
PROPERTY ExitCodeKept
CHECK_DEADLOCK FALSE
