SPECIFICATION Spec
CONSTANTS
  Letters = {"b", "c", "d"}
  FileLists <- MCFileLists
  Lost = {0, 1, 123, 124, 125, 126, 128, 129, 132, 243, 244, 250, 366}
  Counts = {1, 2, 5}
  MaxSeconds = 10
  MaxRead = 6
  HEADER_SIZE = 110
INVARIANTS ReadsJoin DirsAgree
CHECK_DEADLOCK FALSE
