SPECIFICATION FairSpec
CONSTANTS
  BUFFER_WIDTH = 3
  BUFFER_HEIGHT = 2
  Printable = {" ", "a", "b", "%"}
  Letters = {"a", "b"}
  MAX_CMD_LEN = 5
  Banner <- MCBanner
  Prompt <- MCPrompt
  Outputs <- MCOutputs
  MaxLines = 2
INVARIANTS WritesInBuffer BlankAhead LineInBuffer LineOnScreen
PROPERTIES ImplementsTerminal ShellResponds
CHECK_DEADLOCK FALSE
