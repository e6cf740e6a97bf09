\* Every call but getppid, ps and exit, whose deadlock TimerNeverSpins.cfg shows.
SPECIFICATION FairSpec
CONSTANTS
  Calls = {"write", "read_key", "fork", "execve", "waitpid", "kill", "open", "read_file", "write_tty"}
  Lines = {0, 1, 14}
  MaxExceptions = 1
INVARIANTS NoSelfDeadlock HandlersSeeReady InServiceMatches
PROPERTIES PanicReported LinesServed
CHECK_DEADLOCK FALSE
