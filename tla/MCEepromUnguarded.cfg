SPECIFICATION Spec
CONSTANTS
  Rows = 4
  Blank = 0
  Garbage = 9
  Writes <- MCWrites
  LossInMove = FALSE
  Unguarded = TRUE
PROPERTY CommitPreservesData
