\* All calls, with a fair timer.
SPECIFICATION FairSpec
CONSTANTS
  PidSpace = 1000
  MaxPid = 2
  Timeslice = 2
  Signals = {9}
  Codes = {7}
  Calls = {"fork", "execve", "kill", "exit", "wait", "waitpid", "getppid", "ps"}
PROPERTIES EveryoneScheduled SignalTerminates WaitReturns
CHECK_DEADLOCK FALSE
