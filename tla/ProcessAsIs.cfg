\* The program as it stands: every call is made by the boot flow.
SPECIFICATION Spec
CONSTANTS
  PidSpace = 1000
  MaxPid = 3
  Timeslice = 2
  Signals = {9}
  Codes = {7}
  Calls = {"fork", "execve", "kill", "exit", "wait", "waitpid", "getppid", "ps"}
INVARIANTS TypeOK TableSorted ParentOlder CurrentInTable
PROPERTIES ScheduledIsRunnable ZombieFrozen SignalKept
CHECK_DEADLOCK FALSE
