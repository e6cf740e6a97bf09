\* As it stands, CURRENT_PID moves on while the boot flow is in waitpid.
SPECIFICATION Spec
CONSTANTS
  PidSpace = 1000
  MaxPid = 2
  Timeslice = 2
  Signals = {9}
  Codes = {}
  Calls = {"fork", "kill", "wait"}
PROPERTY WaitAnswersCaller
CHECK_DEADLOCK FALSE
